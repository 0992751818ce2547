----------------------------- MODULE MCPipeline -----------------------------
(* Pipeline on small instances for TLC: command lines and sets of faults.  *)
EXTENDS Pipeline

Config(record, rtsp, preview, processor, max_frames) ==
    [record |-> record, rtsp |-> rtsp, preview |-> preview,
     processor |-> processor, max_frames |-> max_frames]

\* --record f --rtsp u
Both == Config(TRUE, TRUE, FALSE, FALSE, 0)

\* --record f --frames 3
Finite == Config(TRUE, FALSE, FALSE, FALSE, 3)

\* --preview
Preview == Config(FALSE, FALSE, TRUE, FALSE, 0)

\* --record f --preview, with the OSD processor
Full == Config(TRUE, FALSE, TRUE, TRUE, 0)

OneOutput == {Finite, Preview}
TwoOutputs == {Both, Preview}
FullOnly == {Full}
AllConfigs == {Both, Finite, Preview, Full}

\* What a plug-in may answer although no built-in module does.
PluginFaults == {"get_eof", "convert_eof", "encode_eof", "mux_write_eof"}

\* Everything else that AppPipeline_Wait reports.
OrdinaryFaults == FaultNames \ (PluginFaults \cup {"osd"})

\* What a plug-in may answer, and what needs warmup frames, delayed packets or
\* the processor.
OtherFaults == PluginFaults \cup {"get", "get_late", "osd", "flush"}

\* One failure of each worker; the muxer fails before its first pop, where it
\* leaves the encode thread in front of a packet queue that nobody empties.
WorkerFaults == {"raw_push", "convert", "encode", "mux_open"}

=============================================================================
