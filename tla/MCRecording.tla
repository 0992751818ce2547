---------------------------- MODULE MCRecording ----------------------------
(* Recording on small instances for TLC.                                   *)
EXTENDS Recording

\* --record f --rtsp u, --record f --segment-time n, --rtsp u
Mp4AndStream == [record |-> "mp4", rtsp |-> "rtsp"]
SegmentsOnly == [record |-> "segment", rtsp |-> "none"]
StreamOnly == [record |-> "none", rtsp |-> "rtsp"]
AllKinds == {Mp4AndStream, SegmentsOnly, StreamOnly}
Mp4Only == {[record |-> "mp4", rtsp |-> "none"]}
StreamKind == {StreamOnly}

\* A codec without delay, one that just fits pending_packets, one that does not.
SomeDelays == {0, PendingCount - 1, PendingCount}

AllFaults == EncoderFaults \cup MuxFaults \cup {"stop"}

=============================================================================
