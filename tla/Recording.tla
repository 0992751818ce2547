----------------------------- MODULE Recording -----------------------------
(***************************************************************************)
(* The second half of the pipeline: the encode thread with its encoder,    *)
(* the packet queue, and the mux thread with its muxers, up to and         *)
(* including their teardown by the main thread.                            *)
(***************************************************************************)
EXTENDS Encoder, Muxers

vars == <<streamVars, encoderVars, muxVars>>

Init == StreamInit /\ EncoderInit /\ MuxInit

\* Another thread requests a stop, which closes the packet queue.
StopRequest ==
    /\ "stop" \in Faults
    /\ ~closed
    /\ Shut
    /\ UNCHANGED <<encoderVars, muxVars>>

\* AppPipeline_Deinit runs after both threads are joined: muxers first.
Teardown ==
    \/ /\ epc = "done"
       /\ MuxerDeinit
       /\ UNCHANGED encoderVars
    \/ /\ mpc = "done"
       /\ inited = {}
       /\ EncoderDeinit
       /\ UNCHANGED muxVars

Terminated == epc = "gone" /\ UNCHANGED vars

Next ==
    \/ EncodeThread /\ UNCHANGED muxVars
    \/ MuxThread /\ UNCHANGED encoderVars
    \/ StopRequest
    \/ Teardown
    \/ Terminated

Spec == Init /\ [][Next]_vars

-----------------------------------------------------------------------------
(* Properties of the two together.                                         *)

TypeOK == EncoderTypeOK /\ MuxersTypeOK

\* Every segment can be played on its own, and segments have the length asked
\* for, up to the distance of key frames: a segment begins with a key frame;
\* one that was followed by another has SegmentFrames packets at least; and no
\* segment has SegmentFrames + Gop or more.
SegmentsFit ==
    kind["record"] = "segment" =>
        LET files == outputs["record"]
        IN  \A i \in DOMAIN files :
               LET samples == files[i].samples
               IN  /\ samples # <<>> => samples[1].key
                   /\ i < Len(files) => Len(samples) >= SegmentFrames
                   /\ Len(samples) < SegmentFrames + Gop

\* As long as nothing failed and nobody interfered, every frame that was taken
\* from the encode queue is in every output when the threads are gone.
FramesReachOutputs ==
    Ended /\ epc \in {"done", "gone"} /\ efailed \cup mfailed = {} =>
        \A m \in Served : Frames(m) = 1..sent

=============================================================================
