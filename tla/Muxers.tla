------------------------------- MODULE Muxers -------------------------------
(***************************************************************************)
(* muxer/mp4_muxer.c, muxer/segment_muxer.c and muxer/rtsp_muxer.c, called *)
(* through muxer_manager.c by mux_thread_main and, at the end, by          *)
(* AppPipeline_Deinit in the main thread.  Each call is one step, since a  *)
(* muxer is used by one thread at a time.                                  *)
(*                                                                         *)
(* libavformat is external: outputs[m] is what it was told to do for each  *)
(* file that muxer m has opened, or for the stream.                        *)
(***************************************************************************)
EXTENDS PacketStream, SequencesExt

CONSTANTS Kinds,          \* pairs of muxers considered
          SegmentFrames   \* max_frames_per_segment: segment_time * fps

Roles == {"record", "rtsp"}

\* --record makes an mp4 file, or segments with --segment-time; --rtsp a stream.
ASSUME MuxersAssumption ==
    /\ \A k \in Kinds : /\ k \in [Roles -> {"mp4", "segment", "rtsp", "none"}]
                        /\ k["record"] \in {"mp4", "segment", "none"}
                        /\ k["rtsp"] \in {"rtsp", "none"}
                        /\ \E m \in Roles : k[m] # "none"
    /\ SegmentFrames \in Nat \ {0}

MuxFaults == {"mux_open", "mux_pop", "header", "write", "trailer"}

VARIABLES
    kind,       \* which muxer serves each role, or none
    mpc, at,    \* where the mux thread is, and which muxer it calls next
    opened,     \* muxer_opened, rtsp_muxer_opened
    announced,  \* muxer_header_written, rtsp_muxer_header_written
    inited,     \* muxer_inited, rtsp_muxer_inited
    ctx,        \* the context of each muxer
    outputs,    \* what libavformat has done for it
    mfailed     \* history: what went wrong

threadVars == <<mpc, at, opened, announced>>
muxVars == <<kind, threadVars, inited, ctx, outputs, mfailed>>

\* format_ctx exists; its pb is open; header_requested, header_written,
\* trailer_written; frame_index or frames_in_segment; segment_index.
Contexts == [format : BOOLEAN, pb : BOOLEAN, requested : BOOLEAN, header : BOOLEAN,
             trailer : BOOLEAN, frames : Nat, segment : Nat]

NoContext == [format |-> FALSE, pb |-> FALSE, requested |-> FALSE, header |-> FALSE,
              trailer |-> FALSE, frames |-> 0, segment |-> 0]

\* A file or a stream: av_write_trailer was called so often, and succeeded.
Files == [header : BOOLEAN, samples : Seq([frame : Nat \ {0}, key : BOOLEAN, pts : Nat]),
          trailers : Nat, finished : BOOLEAN, closed : BOOLEAN]

NewOutput == [header |-> FALSE, samples |-> <<>>, trailers |-> 0,
              finished |-> FALSE, closed |-> FALSE]

Served == {m \in Roles : kind[m] # "none"}

\* The first role in S.
FirstOf(S) == IF "record" \in S THEN "record" ELSE "rtsp"

MuxInit ==
    /\ kind \in Kinds
    /\ mpc = "open"
    /\ at = FirstOf(Served)
    /\ opened = {}
    /\ announced = {}
    /\ inited = Served
    /\ ctx = [m \in Roles |-> NoContext]
    /\ outputs = [m \in Roles |-> <<>>]
    /\ mfailed = {}

-----------------------------------------------------------------------------
(* Helpers.                                                                *)

At(label, m) == mpc = label /\ at = m

\* The faults in bad are what goes wrong in this step.
GoesWrong(bad) ==
    /\ bad \subseteq Faults \cap MuxFaults
    /\ Cardinality(mfailed \cup bad) <= MaxFaults
    /\ mfailed' = mfailed \cup bad

\* The thread goes on to label with the next role, or else to the pop.
NextRole(m, label) ==
    IF m = "record" /\ kind["rtsp"] # "none"
    THEN mpc' = label /\ at' = "rtsp"
    ELSE mpc' = "pop" /\ at' = FirstOf(Served)

\* The thread notes an error, requests a stop and goes to label.
MuxStops(label) ==
    /\ mpc' = label
    /\ at' = at
    /\ Shut

\* The last of the outputs o becomes f.
ReplaceLast(o, f) == [o EXCEPT ![Len(o)] = f]

Sample(packet, pts) == [frame |-> packet.frame, key |-> packet.key, pts |-> pts]

\* A muxer: its context and its outputs.
Muxer(m) == [c |-> ctx[m], o |-> outputs[m]]
Becomes(m, s) ==
    /\ ctx' = [ctx EXCEPT ![m] = s.c]
    /\ outputs' = [outputs EXCEPT ![m] = s.o]

\* av_write_trailer on the current output, with its result.
TrailerLast(o, ok) ==
    ReplaceLast(o, [Last(o) EXCEPT !.trailers = @ + 1, !.finished = ok])

\* avio_closep on the current output, or the end of the stream.
CloseLast(o) == ReplaceLast(o, [Last(o) EXCEPT !.closed = TRUE])

\* The current output gets its header, and a packet unless writing it fails.
Written(s, packet, ok) ==
    LET f == [Last(s.o) EXCEPT !.header = TRUE]
    IN  IF ok
        THEN [c |-> [s.c EXCEPT !.header = TRUE, !.frames = @ + 1],
              o |-> ReplaceLast(s.o, [f EXCEPT !.samples =
                                         Append(@, Sample(packet, s.c.frames))])]
        ELSE [c |-> [s.c EXCEPT !.header = TRUE], o |-> ReplaceLast(s.o, f)]

-----------------------------------------------------------------------------
(* The segment muxer's files.                                              *)

\* Mutant of CloseSegment: the frame count goes on in the next segment.
CloseSegmentKeepsCount(s, ok) ==
    IF ~s.c.format THEN s
    ELSE [c |-> [NoContext EXCEPT !.segment = s.c.segment, !.frames = s.c.frames],
          o |-> CloseLast(IF s.c.header THEN TrailerLast(s.o, ok) ELSE s.o)]

\* segment_close_current.  Nobody learns that the trailer failed.
CloseSegment(s, ok) ==
    IF ~s.c.format THEN s
    ELSE [c |-> [NoContext EXCEPT !.segment = s.c.segment],
          o |-> CloseLast(IF s.c.header THEN TrailerLast(s.o, ok) ELSE s.o)]

\* segment_open_next, up to the header.
OpenSegment(s) ==
    [c |-> [s.c EXCEPT !.format = TRUE, !.pb = TRUE, !.segment = @ + 1],
     o |-> Append(s.o, NewOutput)]

\* The same when there is no file: the number of the segment is used up.
SkipSegment(s) == [c |-> [s.c EXCEPT !.segment = @ + 1], o |-> s.o]

\* Mutant of Rotates: a full segment ends at any packet.
RotatesAnywhere(c, packet) == c.format /\ c.frames >= SegmentFrames

\* A full segment ends at the next key frame.
Rotates(c, packet) == c.format /\ c.frames >= SegmentFrames /\ packet.key

-----------------------------------------------------------------------------
(* mux_thread_main: open and header.                                       *)

\* mp4_muxer_open creates the file and rtsp_muxer_open only the context; the
\* segment muxer does nothing yet.
MuxOpen(m) ==
    /\ At("open", m)
    /\ IF kind[m] = "segment"
       THEN UNCHANGED <<ctx, outputs>>
       ELSE /\ ctx' = [ctx EXCEPT ![m].format = TRUE, ![m].pb = (kind[m] = "mp4"),
                                  ![m].frames = 0]
            /\ outputs' = [outputs EXCEPT ![m] = Append(@, NewOutput)]
    /\ opened' = opened \cup {m}
    /\ mpc' = "header"
    /\ UNCHANGED <<streamVars, kind, at, announced, inited, mfailed>>

\* There may be a context already, but no file.  The thread returns when it
\* was the recording, and goes to the finish when it was the stream.
MuxOpenFails(m) ==
    /\ At("open", m)
    /\ kind[m] # "segment"
    /\ GoesWrong({"mux_open"})
    /\ \E format \in BOOLEAN : ctx' = [ctx EXCEPT ![m].format = format]
    /\ MuxStops(IF m = "record" THEN "done" ELSE "finish")
    /\ UNCHANGED <<kind, opened, announced, inited, outputs>>

\* ..._write_header: the header itself waits for the first packet.
MuxHeader(m) ==
    /\ At("header", m)
    /\ ctx' = [ctx EXCEPT ![m].requested = (kind[m] # "segment")]
    /\ announced' = announced \cup {m}
    /\ NextRole(m, "open")
    /\ UNCHANGED <<streamVars, kind, opened, inited, outputs, mfailed>>

-----------------------------------------------------------------------------
(* mux_thread_main: the packets.                                           *)

MuxPop ==
    /\ mpc = "pop"
    /\ \/ TakeNext /\ mpc' = "write" /\ at' = FirstOf(Served)
       \/ AtEnd /\ mpc' = "finish" /\ UNCHANGED <<streamVars, at>>
    /\ UNCHANGED <<kind, opened, announced, inited, ctx, outputs, mfailed>>

MuxPopFails ==
    /\ mpc = "pop"
    /\ GoesWrong({"mux_pop"})
    /\ MuxStops("finish")
    /\ UNCHANGED <<kind, opened, announced, inited, ctx, outputs>>

\* After writing to m: on to the next role, or a stop.
AfterWrite(m, bad) ==
    IF bad = "none"
    THEN NextRole(m, "write") /\ UNCHANGED streamVars
    ELSE MuxStops("finish")

\* mp4_muxer_write_packet and rtsp_muxer_write_packet: the header first, if it
\* is not there.  rtsp_muxer_write_packet fails when it was not requested.
MuxWrite(m) ==
    LET late == kind[m] = "rtsp" /\ ~ctx[m].requested
        steps == IF ctx[m].header THEN {"none", "write"}
                 ELSE IF late THEN {"unrequested"} ELSE {"none", "header", "write"}
    IN  /\ At("write", m)
        /\ kind[m] # "segment"
        /\ \E bad \in steps :
              /\ GoesWrong({bad} \cap MuxFaults)
              /\ IF bad \in {"none", "write"}
                 THEN Becomes(m, Written(Muxer(m), emitted[taken], bad = "none"))
                 ELSE UNCHANGED <<ctx, outputs>>
              /\ AfterWrite(m, bad)
        /\ UNCHANGED <<kind, opened, announced, inited>>

\* segment_muxer_write_packet.  A rotation closes the segment before; its trailer
\* is written or not.  Then a segment is opened, if there is none.
SegmentWrite(m) ==
    LET packet == emitted[taken]
        rotates == Rotates(ctx[m], packet)
        opens == rotates \/ ~ctx[m].format
    IN  /\ At("write", m)
        /\ kind[m] = "segment"
        /\ \E ok \in (IF rotates THEN BOOLEAN ELSE {TRUE}),
              bad \in {"none", "write"} \cup (IF opens THEN {"mux_open", "header"} ELSE {}) :
              LET s == IF rotates THEN CloseSegment(Muxer(m), ok) ELSE Muxer(m)
                  t == IF opens THEN OpenSegment(s) ELSE s
              IN  /\ GoesWrong((IF ok THEN {} ELSE {"trailer"}) \cup ({bad} \cap MuxFaults))
                  /\ \/ bad = "mux_open" /\ Becomes(m, SkipSegment(s))
                     \/ bad = "header" /\ Becomes(m, CloseSegment(t, FALSE))
                     \/ bad \in {"none", "write"} /\ Becomes(m, Written(t, packet, bad = "none"))
                  /\ AfterWrite(m, bad)
        /\ UNCHANGED <<kind, opened, announced, inited>>

-----------------------------------------------------------------------------
(* mux_thread_main: the finish.                                            *)

FinishFrame == <<streamVars, kind, inited>>

\* av_write_trailer is called where a header was written.  rtsp remembers that
\* it succeeded; the segment muxer closes the file at once.
TrailerAfter(s, k, ok) ==
    IF k = "segment" THEN CloseSegment(s, ok)
    ELSE [c |-> [s.c EXCEPT !.trailer = ok /\ k = "rtsp"], o |-> TrailerLast(s.o, ok)]

\* WriteTrailer for each muxer that was announced.  A failure is noted only.
MuxTrailer ==
    /\ mpc = "finish"
    /\ announced # {}
    /\ LET m == FirstOf(announced)
       IN  /\ announced' = announced \ {m}
           /\ IF ~ctx[m].header
              THEN IF kind[m] = "segment"
                   THEN Becomes(m, CloseSegment(Muxer(m), FALSE)) /\ GoesWrong({})
                   ELSE UNCHANGED <<ctx, outputs, mfailed>>
              ELSE \E ok \in BOOLEAN :
                      /\ GoesWrong(IF ok THEN {} ELSE {"trailer"})
                      /\ Becomes(m, TrailerAfter(Muxer(m), kind[m], ok))
    /\ UNCHANGED <<FinishFrame, mpc, at, opened>>

\* Mutant of MuxClose: the mp4 file stays open.
MuxCloseLeaks ==
    /\ mpc = "finish"
    /\ announced = {}
    /\ IF opened # {}
       THEN opened' = opened \ {FirstOf(opened)} /\ mpc' = mpc
       ELSE mpc' = "done" /\ opened' = opened
    /\ UNCHANGED <<FinishFrame, at, announced, ctx, outputs, mfailed>>

\* Mutant of MuxClose: the files are closed before they get their trailers.
MuxCloseFirst ==
    /\ mpc = "finish"
    /\ IF opened # {}
       THEN LET m == FirstOf(opened)
            IN  /\ opened' = opened \ {m}
                /\ mpc' = mpc
                /\ IF ctx[m].pb
                   THEN Becomes(m, [c |-> [ctx[m] EXCEPT !.pb = FALSE],
                                    o |-> CloseLast(outputs[m])])
                   ELSE UNCHANGED <<ctx, outputs>>
       ELSE announced = {} /\ mpc' = "done" /\ UNCHANGED <<opened, ctx, outputs>>
    /\ UNCHANGED <<FinishFrame, at, announced, mfailed>>

\* ..._close: the mp4 file is closed.  The stream has no pb, and the last
\* segment is closed by then.
MuxClose ==
    /\ mpc = "finish"
    /\ announced = {}
    /\ IF opened # {}
       THEN LET m == FirstOf(opened)
            IN  /\ opened' = opened \ {m}
                /\ mpc' = mpc
                /\ IF ctx[m].pb
                   THEN Becomes(m, [c |-> [ctx[m] EXCEPT !.pb = FALSE],
                                    o |-> CloseLast(outputs[m])])
                   ELSE UNCHANGED <<ctx, outputs>>
       ELSE mpc' = "done" /\ UNCHANGED <<opened, ctx, outputs>>
    /\ UNCHANGED <<FinishFrame, at, announced, mfailed>>

MuxThread ==
    \/ \E m \in Roles :
          \/ MuxOpen(m) \/ MuxOpenFails(m) \/ MuxHeader(m)
          \/ MuxWrite(m) \/ SegmentWrite(m)
    \/ MuxPop \/ MuxPopFails \/ MuxTrailer \/ MuxClose

-----------------------------------------------------------------------------
(* AppPipeline_Deinit, after the threads are joined.                       *)

\* Mutant of MuxerDeinit: every muxer writes a trailer that was not finished.
MuxerDeinitWrites ==
    /\ mpc = "done"
    /\ inited # {}
    /\ LET m == FirstOf(inited)
       IN  /\ inited' = inited \ {m}
           /\ IF ctx[m].header /\ ~ctx[m].trailer
              THEN \E ok \in BOOLEAN :
                      Becomes(m, [c |-> NoContext, o |-> TrailerLast(outputs[m], ok)])
              ELSE Becomes(m, [Muxer(m) EXCEPT !.c = NoContext])
    /\ UNCHANGED <<streamVars, kind, threadVars, mfailed>>

\* rtsp_muxer_deinit writes a trailer that has not succeeded before, and
\* nobody looks at the result; freeing its context ends the stream.  What the
\* mp4 muxer still has open, its deinit leaves open.
MuxerDeinit ==
    /\ mpc = "done"
    /\ inited # {}
    /\ LET m == FirstOf(inited)
           Left(o) == [c |-> NoContext, o |-> o]
       IN  /\ inited' = inited \ {m}
           /\ \/ kind[m] = "mp4" /\ Becomes(m, Left(outputs[m]))
              \/ kind[m] = "segment" /\ Becomes(m, Left(CloseSegment(Muxer(m), FALSE).o))
              \/ /\ kind[m] = "rtsp" /\ outputs[m] = <<>>
                 /\ Becomes(m, Left(<<>>))
              \/ /\ kind[m] = "rtsp" /\ outputs[m] # <<>>
                 /\ IF ctx[m].header /\ ~ctx[m].trailer
                    THEN \E ok \in BOOLEAN :
                            Becomes(m, Left(CloseLast(TrailerLast(outputs[m], ok))))
                    ELSE Becomes(m, Left(CloseLast(outputs[m])))
    /\ UNCHANGED <<streamVars, kind, threadVars, mfailed>>

-----------------------------------------------------------------------------
(* Properties.                                                             *)

\* Types of the mux thread and of the muxers.
MuxersTypeOK ==
    /\ kind \in Kinds
    /\ mpc \in {"open", "header", "pop", "write", "finish", "done"}
    /\ at \in Roles
    /\ opened \subseteq Roles
    /\ announced \subseteq opened
    /\ inited \subseteq Roles
    /\ ctx \in [Roles -> Contexts]
    /\ outputs \in [Roles -> Seq(Files)]
    /\ mfailed \subseteq MuxFaults

\* The frames in the outputs of m.
Frames(m) ==
    UNION {{outputs[m][i].samples[j].frame : j \in DOMAIN outputs[m][i].samples} :
              i \in DOMAIN outputs[m]}

\* Sample j of file i is the frame before sample l of file k, or an earlier one.
InOrder(m) ==
    \A i, k \in DOMAIN outputs[m] :
       \A j \in DOMAIN outputs[m][i].samples, l \in DOMAIN outputs[m][k].samples :
          i < k \/ (i = k /\ j < l) =>
             outputs[m][i].samples[j].frame < outputs[m][k].samples[l].frame

Ended == mpc = "done" /\ inited = {}

\* The packets in the files of a muxer, one after the other, are those that
\* the mux thread has taken, without the last one while it is not written; no
\* packet is lost or doubled where one segment ends and the next begins.  The
\* time stamps of each file count its packets from 0.
SamplesAreStream ==
    \A m \in Served :
        /\ \E n \in {taken, taken - 1} :
              /\ Frames(m) = {emitted[i].frame : i \in 1..n}
              /\ mpc # "write" /\ mfailed = {} => n = taken
        /\ InOrder(m)
        /\ \A i \in DOMAIN outputs[m] : \A j \in DOMAIN outputs[m][i].samples :
              outputs[m][i].samples[j].pts = j - 1

\* Each file can be played: once everything is torn down, whatever failed on
\* the way, every file is closed and one that has a header was given a trailer,
\* once; only the stream is given a second one.
FilesAreFinished ==
    Ended => \A m \in Roles : \A f \in ToSet(outputs[m]) :
        /\ f.closed
        /\ IF f.header THEN f.trailers \in 1..(IF m = "rtsp" THEN 2 ELSE 1)
                       ELSE f.trailers = 0 /\ f.samples = <<>>
        /\ mfailed = {} /\ f.header => f.finished /\ f.trailers = 1

\* A file that was closed is never touched again: no trailer after the close,
\* no packet in the file before the current one.
ClosedIsFinal ==
    [][\A m \in Roles : \A i \in DOMAIN outputs[m] :
          outputs[m][i].closed => outputs'[m][i] = outputs[m][i]]_outputs

\* Once the mux thread is gone, libavformat is called for one thing only: a
\* stream whose trailer failed is given another one.
DeinitOnlyRetries ==
    [][mpc = "done" => \A m \in Roles :
          [i \in DOMAIN outputs'[m] |-> outputs'[m][i].trailers]
             # [i \in DOMAIN outputs[m] |-> outputs[m][i].trailers]
             => m = "rtsp" /\ "trailer" \in mfailed]_outputs

\* docs/architecture/app_pipeline.md:227: that the mux thread alone writes
\* keeps AppPipeline_Deinit from writing to an AVFormatContext.
DeinitWritesNothing ==
    [][mpc = "done" => \A m \in Roles :
          [i \in DOMAIN outputs'[m] |-> outputs'[m][i].trailers]
             = [i \in DOMAIN outputs[m] |-> outputs[m][i].trailers]]_outputs

\* docs/architecture/pipeline_overview.md:200: a recording that is stopped with
\* Ctrl+C has its trailer.
RecordingHasTrailer ==
    Ended /\ mfailed = {} => \A f \in ToSet(outputs["record"]) : f.finished

=============================================================================
