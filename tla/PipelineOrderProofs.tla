-------------------------- MODULE PipelineOrderProofs --------------------------
(***************************************************************************)
(* Theorems about the frames in the pipeline, for every configuration,     *)
(* every bound and every choice of failures: what comes out is what went   *)
(* in, in the same order and without a gap, and without a failure nothing  *)
(* is left behind.                                                         *)
(*                                                                         *)
(* The argument: the camera numbers its frames 1, 2, 3, ...  If nothing    *)
(* was dropped so far, the number of a frame is its place, and its place   *)
(* is the number of frames ahead of it: those in the outputs, those in the *)
(* hands of the threads, in the queues and in the encoder.  OrderInv says  *)
(* this of every place in the pipeline.  A frame that is dropped, because  *)
(* a queue is closed or an operation failed, ends the thread that drops it *)
(* or closes the queue behind it, so that no later frame gets past the     *)
(* gap.                                                                    *)
(***************************************************************************)
EXTENDS PipelineProofs

-----------------------------------------------------------------------------
(* The order of the frames.  Because no gap ever gets into an output, a    *)
(* frame's number is its place; how many are ahead of a place is a sum.    *)

\* The output that is given a packet first.
First == IF cfg.record THEN "record" ELSE "rtsp"

AtOneOf(t, labels) == IF pc[t] \in labels THEN 1 ELSE 0

\* The frames that got past the packet queue's reader, the packet queue, the
\* encoder, and the encode queue's reader, if none was dropped.
Muxed == Len(written[First]) + AtOneOf("mux", {WriteLabel(First)})
Packed == Muxed + Len(items["pkt"])
Encoded == Packed + AtOneOf("encode", {"push", "push_flush"})
Taken == Encoded + Len(pending) + AtOneOf("encode", {"encode"})
Processed == Len(fed) + AtOneOf("process", {"work", "push"})

Numbered(s, n) == \A i \in 1 .. Len(s) : s[i] = n + i

\* The mux thread has not given up, and what the encode thread puts into the
\* packet queue is what came out of the encoder next.
MuxGoesOn == pc["mux"] \notin {"finish", "done"}
EncodeGoesOn == MuxGoesOn /\ "pkt" \notin closed \cup todo["encode"]

\* Main takes the components down; all threads are gone.
TakenDown == pc["main"] \in {"teardown", "exited"}

WrittenInv ==
    /\ \A m \in Muxers : Numbered(written[m], 0) /\ Len(written[m]) <= Len(fed)
    /\ cfg.record /\ cfg.rtsp =>
          /\ Len(written["rtsp"]) <= Len(written["record"])
          /\ Len(written["record"]) <= Len(written["rtsp"]) + 1
          /\ pc["mux"] \in {"pop", "write_record"} =>
                Len(written["record"]) = Len(written["rtsp"])
          /\ pc["mux"] = "write_rtsp" =>
                /\ Len(written["record"]) = Len(written["rtsp"]) + 1
                /\ hold["mux"] = Len(written["record"])

PacketsInv ==
    MuxGoesOn /\ ~TakenDown =>
        /\ pc["mux"] = WriteLabel(First) => hold["mux"] = Muxed
        /\ Numbered(items["pkt"], Muxed)
        /\ Packed <= Len(fed)

EncoderInv ==
    EncodeGoesOn /\ ~TakenDown =>
        /\ pc["encode"] \in {"push", "push_flush"} => hold["encode"] = Encoded
        /\ Numbered(pending, Encoded)
        /\ Encoded + Len(pending) <= Len(fed)
        /\ pc["encode"] \in {"none", "pop", "encode", "push"} =>
              /\ pc["encode"] = "encode" => hold["encode"] = Taken
              /\ Numbered(items["enc"], Taken)
              /\ Taken + Len(items["enc"]) = Len(fed)

FedInv ==
    /\ Numbered(fed, 0) /\ Len(fed) <= taken
    /\ ~NeedEncode => fed = <<>>
    /\ NeedEncode /\ pc["process"] \notin {"exit", "done"}
       /\ ~TakenDown =>
          /\ pc["process"] \in {"work", "push"} => hold["process"] = Processed
          /\ Numbered(items["raw"], Processed)
          /\ Processed + Len(items["raw"]) <= taken
          /\ pc["capture"] \in {"none", "warmup", "warm_get", "loop", "get"} =>
                Processed + Len(items["raw"]) = taken
          /\ pc["capture"] = "push" =>
                Processed + Len(items["raw"]) + 1 = taken /\ hold["capture"] = taken
          /\ pc["capture"] = "release" /\ pushed = "OK" =>
                Processed + Len(items["raw"]) = taken

-----------------------------------------------------------------------------
(* When nothing failed.                                                    *)

\* The encode thread goes to its end.
ToEnd == {"flush", "push_flush", "exit", "done"}

\* A queue is closed only by the thread that fills it, or by main when it stops
\* the capture and when all threads are joined.
ClosedByWriter ==
    /\ \A t \in Workers : todo[t] = {}
    /\ todo["main"] # {} => pc["main"] = "deinit_join"
    /\ pc["main"] \in {"stop_stream", "stop_raw", "wait"} \cup Leaving => stop
    /\ pc["main"] \notin {"init", "open", "stream", "create"} =>
          \A t \in Wanted : pc[t] # "none"
    /\ pc["main"] \in Leaving => started = {}
    /\ "raw" \in closed /\ ~stop => pc["capture"] = "done"
    /\ NeedEncode /\ "enc" \in closed => pc["process"] = "done"
    /\ NeedEncode /\ "pkt" \in closed => pc["encode"] = "done"

\* A thread goes to its end only when its queue is closed and empty.
EndsEmpty ==
    /\ pc["process"] \in {"exit", "done"} /\ ~stop =>
          "raw" \in closed /\ items["raw"] = <<>>
    /\ pc["encode"] \in ToEnd => "enc" \in closed /\ items["enc"] = <<>>
    /\ pc["encode"] \in {"exit", "done"} => pending = <<>>
    /\ pc["mux"] \in {"finish", "done"} => "pkt" \in closed /\ items["pkt"] = <<>>

\* No push fails, and what a thread that is at its end has not got is nowhere.
NothingMissing ==
    /\ pushed # "ERROR"
    /\ ~stop /\ pc["capture"] = "release" => pushed = "OK"
    /\ NeedEncode /\ ~stop /\ pc["capture"] \in {"exit", "done"} =>
          Processed + Len(items["raw"]) = taken
    /\ pc["encode"] \in ToEnd => Taken = Len(fed)
    /\ cfg.record /\ cfg.rtsp /\ pc["mux"] \in {"finish", "done"} =>
          Len(written["record"]) = Len(written["rtsp"])

Lossless == ClosedByWriter /\ EndsEmpty /\ NothingMissing

-----------------------------------------------------------------------------
(* Numbered sequences and counts.                                          *)

LEMMA NumberedAppend ==
    ASSUME NEW S, NEW s \in Seq(S), NEW e \in S, NEW n \in Nat, Numbered(s, n),
           e = n + Len(s) + 1
    PROVE  Numbered(Append(s, e), n) /\ Len(Append(s, e)) = Len(s) + 1
  BY DEF Numbered

LEMMA NumberedTail ==
    ASSUME NEW S, NEW s \in Seq(S), NEW n \in Nat, Numbered(s, n), s # <<>>
    PROVE  Head(s) = n + 1 /\ Numbered(Tail(s), n + 1) /\ Len(Tail(s)) = Len(s) - 1
<1>1. Len(s) \in Nat /\ Len(s) >= 1 /\ Head(s) = s[1] /\ Len(Tail(s)) = Len(s) - 1
  OBVIOUS
<1>2. \A i \in 1 .. Len(Tail(s)) : Tail(s)[i] = s[i + 1]
  BY <1>1
<1>3. Head(s) = n + 1
  BY <1>1 DEF Numbered
<1>4. ASSUME NEW i \in 1 .. Len(Tail(s)) PROVE Tail(s)[i] = n + 1 + i
  <2>1. i + 1 \in 1 .. Len(s)
    BY <1>1
  <2> QED
    BY <1>2, <2>1 DEF Numbered
<1> QED
  BY <1>1, <1>3, <1>4 DEF Numbered

LEMMA CountsAreNumbers ==
    ASSUME TypeOK
    PROVE  /\ First \in Muxers /\ Len(fed) \in Nat /\ taken \in Nat
           /\ \A m \in Muxers : Len(written[m]) \in Nat
           /\ \A c \in Queues : Len(items[c]) \in Nat
           /\ Len(pending) \in Nat
           /\ Muxed \in Nat /\ Packed \in Nat /\ Encoded \in Nat /\ Taken \in Nat
           /\ Processed \in Nat
<1>1. First \in Muxers
  BY DEF First, Muxers
<1>2. /\ Len(fed) \in Nat /\ taken \in Nat /\ Len(pending) \in Nat
      /\ \A m \in Muxers : Len(written[m]) \in Nat
      /\ \A c \in Queues : Len(items[c]) \in Nat
  BY SizeAssumption DEF TypeOK
<1>3. \A t, S : AtOneOf(t, S) \in Nat
  BY DEF AtOneOf
<1>4. Muxed \in Nat
  BY <1>1, <1>2, <1>3 DEF Muxed
<1>5. Packed \in Nat
  BY <1>2, <1>4 DEF Packed, Queues
<1>6. Encoded \in Nat
  BY <1>3, <1>5 DEF Encoded
<1>7. Taken \in Nat
  BY <1>2, <1>3, <1>6 DEF Taken
<1>8. Processed \in Nat
  BY <1>2, <1>3 DEF Processed
<1> QED
  BY <1>1, <1>2, <1>4, <1>5, <1>6, <1>7, <1>8

-----------------------------------------------------------------------------
(* A thread's part of the order does not depend on the steps of others,    *)
(* nor on its own creation.                                                *)

Stays(t) == pc'[t] = pc[t] \/ (pc[t] = "none" /\ pc'[t] = StartLabel[t])

MainStays == TakenDown => TakenDown'

LEMMA WrittenKept ==
    ASSUME WrittenInv, Stays("mux"), UNCHANGED <<cfg, written>>, hold'["mux"] = hold["mux"],
           Len(fed) \in Nat, Len(fed') \in Nat, Len(fed) <= Len(fed'),
           \A m \in Muxers : Len(written[m]) \in Nat
    PROVE  WrittenInv'
<1>1. /\ pc'["mux"] \in {"pop", "write_record"} => pc["mux"] = pc'["mux"]
      /\ pc'["mux"] = "write_rtsp" => pc["mux"] = pc'["mux"]
  BY DEF Stays, StartLabel
<1>2. \A m \in Muxers : Numbered(written'[m], 0) /\ Len(written'[m]) <= Len(fed')
  BY DEF WrittenInv, Numbered
<1> QED
  BY <1>1, <1>2 DEF WrittenInv

LEMMA MuxedKept ==
    ASSUME Stays("mux"), UNCHANGED <<cfg, written>>
    PROVE  /\ Muxed' = Muxed /\ (MuxGoesOn' => MuxGoesOn)
           /\ pc'["mux"] = WriteLabel(First)' => pc["mux"] = WriteLabel(First)
<1>1. First' = First /\ WriteLabel(First)' = WriteLabel(First)
  BY DEF First, WriteLabel
<1>2. pc'["mux"] = WriteLabel(First) <=> pc["mux"] = WriteLabel(First)
  BY DEF Stays, StartLabel, WriteLabel
<1>3. Muxed' = Muxed
  BY <1>1, <1>2 DEF Muxed, AtOneOf
<1> QED
  BY <1>1, <1>2, <1>3 DEF MuxGoesOn, Stays

LEMMA PacketsKept ==
    ASSUME PacketsInv, Stays("mux"), MainStays, UNCHANGED <<cfg, written>>,
           hold'["mux"] = hold["mux"], ~TakenDown' => items'["pkt"] = items["pkt"],
           Len(fed) \in Nat, Len(fed') \in Nat, Len(fed) <= Len(fed'), Packed \in Nat
    PROVE  PacketsInv'
<1>1. /\ Muxed' = Muxed /\ (MuxGoesOn' => MuxGoesOn) /\ (~TakenDown' => ~TakenDown)
      /\ pc'["mux"] = WriteLabel(First)' => pc["mux"] = WriteLabel(First)
  BY MuxedKept DEF MainStays
<1>2. ~TakenDown' => Packed' = Packed
  BY <1>1 DEF Packed
<1>3. Numbered(items["pkt"], Muxed) /\ ~TakenDown' => Numbered(items["pkt"], Muxed)'
  BY <1>1 DEF Numbered
<1> QED
  BY <1>1, <1>2, <1>3 DEF PacketsInv

LEMMA EncoderKept ==
    ASSUME EncoderInv, Stays("encode"), MainStays,
           ~TakenDown' => Packed' = Packed /\ items'["enc"] = items["enc"],
           MuxGoesOn' => MuxGoesOn,
           "pkt" \in closed \cup todo["encode"] => "pkt" \in closed' \cup todo'["encode"],
           hold'["encode"] = hold["encode"], UNCHANGED <<pending, fed>>
    PROVE  EncoderInv'
<1>1. (EncodeGoesOn' => EncodeGoesOn) /\ (~TakenDown' => ~TakenDown)
  BY DEF EncodeGoesOn, MainStays
<1>2. /\ \A S \in SUBSET {"push", "push_flush", "encode"} :
            AtOneOf("encode", S)' = AtOneOf("encode", S)
      /\ pc'["encode"] \in {"push", "push_flush"} => pc["encode"] \in {"push", "push_flush"}
      /\ pc'["encode"] = "encode" => pc["encode"] = "encode"
      /\ pc'["encode"] \in {"none", "pop", "encode", "push"} =>
            pc["encode"] \in {"none", "pop", "encode", "push"}
  BY DEF Stays, StartLabel, AtOneOf
<1>3. ~TakenDown' => Encoded' = Encoded /\ Taken' = Taken
  BY <1>2 DEF Encoded, Taken
<1>4. ASSUME ~TakenDown'
      PROVE  /\ Numbered(pending, Encoded) => Numbered(pending, Encoded)'
             /\ Numbered(items["enc"], Taken) => Numbered(items["enc"], Taken)'
  BY <1>3, <1>4 DEF Numbered
<1> QED
  BY <1>1, <1>2, <1>3, <1>4 DEF EncoderInv

LEMMA FedKept ==
    ASSUME FedInv, Stays("process"), Stays("capture"), MainStays,
           ~TakenDown' => items'["raw"] = items["raw"],
           hold'["process"] = hold["process"], hold'["capture"] = hold["capture"],
           UNCHANGED <<cfg, fed, taken, pushed>>
    PROVE  FedInv'
<1>1. /\ pc'["process"] \in {"work", "push"} <=> pc["process"] \in {"work", "push"}
      /\ pc'["process"] \notin {"exit", "done"} => pc["process"] \notin {"exit", "done"}
      /\ pc'["capture"] \in {"none", "warmup", "warm_get", "loop", "get"} =>
            pc["capture"] \in {"none", "warmup", "warm_get", "loop", "get"}
      /\ pc'["capture"] = "push" => pc["capture"] = "push"
      /\ pc'["capture"] = "release" => pc["capture"] = "release"
  BY DEF Stays, StartLabel
<1>2. Processed' = Processed /\ NeedEncode' = NeedEncode
  BY <1>1, ConfigurationStays DEF Processed, AtOneOf
<1>3. (~TakenDown' => ~TakenDown) /\ Numbered(fed, 0)' = Numbered(fed, 0)
  BY DEF MainStays, Numbered
<1>4. ~TakenDown' /\ Numbered(items["raw"], Processed) => Numbered(items["raw"], Processed)'
  BY <1>2 DEF Numbered
<1> QED
  BY <1>1, <1>2, <1>3, <1>4 DEF FedInv

-----------------------------------------------------------------------------
(* The mux thread.                                                         *)

LEMMA MuxOrder ==
    ASSUME TypeOK, MuxInv, TrailersInv, NeedEncode, WrittenInv, PacketsInv, ~TakenDown, MuxStep
    PROVE  /\ WrittenInv' /\ PacketsInv'
           /\ MuxGoesOn' => MuxGoesOn /\ Packed' = Packed
<1> DEFINE Goal == /\ WrittenInv' /\ PacketsInv'
                   /\ MuxGoesOn' => MuxGoesOn /\ Packed' = Packed
<1>0. /\ Moves("mux") /\ UNCHANGED <<cfg, fed>> /\ First' = First
      /\ WriteLabel(First)' = WriteLabel(First)
  BY TypesGiveShapes, MuxMoves DEF Moves, First, WriteLabel
<1>1. /\ First \in Muxers /\ Len(fed) \in Nat /\ Muxed \in Nat /\ Packed \in Nat
      /\ \A m \in Muxers : Len(written[m]) \in Nat
      /\ Len(items["pkt"]) \in Nat
  BY CountsAreNumbers DEF Queues
<1>00. Muxed \in Nat /\ Packed \in Nat /\ Len(items["pkt"]) \in Nat
  BY <1>1
<1>2. /\ pc \in [Threads -> AllLabels] /\ "mux" \in Threads
      /\ hold \in [Workers -> 0 .. CameraFrames] /\ "mux" \in Workers
      /\ items \in [Queues -> Seq(1 .. CameraFrames)] /\ "pkt" \in Queues
      /\ written \in [Muxers -> Seq(1 .. CameraFrames)] /\ "record" \in Muxers /\ "rtsp" \in Muxers
  BY DEF TypeOK, Threads, Workers, Queues, Muxers
<1>3. MuxGoesOn => /\ pc["mux"] = WriteLabel(First) => hold["mux"] = Muxed
                   /\ Numbered(items["pkt"], Muxed)
                   /\ Packed <= Len(fed)
  BY DEF PacketsInv
<1>4. ASSUME pc'["mux"] \in {"finish", "done"}, UNCHANGED written PROVE Goal
  <2>1. ~MuxGoesOn' /\ PacketsInv'
    BY <1>4 DEF MuxGoesOn, PacketsInv
  <2>2. WrittenInv'
    BY <1>0, <1>4 DEF WrittenInv, Numbered
  <2> QED
    BY <2>1, <2>2
<1>5. ASSUME NEW m \in Muxers,
             \/ MuxOpenFails(m) \/ MuxHeaderFails(m) \/ MuxWriteFails(m) \/ MuxWriteEnds(m)
      PROVE  Goal
  BY <1>2, <1>4, <1>5
  DEF MuxOpenFails, MuxHeaderFails, MuxWriteFails, MuxWriteEnds, Fails, Goto, muxVars
<1>6. CASE MuxPopFails \/ MuxTrailer \/ MuxClose
  BY <1>2, <1>4, <1>6 DEF MuxPopFails, MuxTrailer, MuxClose, Fails, At, Goto, muxVars
<1>7. ASSUME NEW m \in Muxers, MuxOpen(m) \/ MuxHeader(m) PROVE Goal
  <2>1. /\ pc["mux"] \in {"open_record", "header_record", "open_rtsp", "header_rtsp"}
        /\ pc'["mux"] \in {"header_record", "open_rtsp", "header_rtsp", "pop"}
        /\ UNCHANGED <<written, items, hold>>
    BY <1>2, <1>7 DEF MuxOpen, MuxHeader, OpenLabel, HeaderLabel, At, Goto, chan
  <2>2. pc["mux"] # WriteLabel(First) /\ pc'["mux"] # WriteLabel(First)
    BY <2>1 DEF WriteLabel
  <2>3. Muxed' = Muxed
    BY <1>0, <2>1, <2>2 DEF Muxed, AtOneOf
  <2>4. Packed' = Packed
    BY <2>1, <2>3 DEF Packed
  <2>5. MuxGoesOn /\ MuxGoesOn'
    BY <2>1 DEF MuxGoesOn
  <2>6. PacketsInv'
    BY <1>0, <1>3, <2>1, <2>2, <2>3, <2>4, <2>5 DEF PacketsInv, Numbered
  <2>7. WrittenInv'
    <3>1. written["record"] = <<>> /\ written["rtsp"] = <<>>
      BY <1>2, <2>1 DEF TrailersInv
    <3> QED
      BY <1>0, <2>1, <3>1 DEF WrittenInv, Numbered
  <2> QED
    BY <2>4, <2>5, <2>6, <2>7
<1>8. CASE MuxPop
  <2>1. CASE AtEnd("pkt")
    <3>1. pc'["mux"] = "finish" /\ UNCHANGED written
      BY <1>2, <1>8, <2>1 DEF MuxPop, AtEnd, CanTake, Goto, muxVars
    <3> QED
      BY <1>4, <3>1
  <2>2. CASE CanTake("pkt") /\ Take("pkt")
    <3>1. /\ items["pkt"] # <<>> /\ items'["pkt"] = Tail(items["pkt"])
          /\ hold'["mux"] = Head(items["pkt"]) /\ pc["mux"] = "pop"
          /\ pc'["mux"] = WriteLabel(First) /\ pc'["mux"] \in {"write_record", "write_rtsp"}
          /\ pc'["mux"] = (IF cfg.record THEN "write_record" ELSE "write_rtsp")
          /\ UNCHANGED written
      BY <1>2, <1>8, <2>2
      DEF MuxPop, At, AtEnd, CanTake, Take, Goto, muxVars, First, WriteLabel
    <3>2. MuxGoesOn /\ MuxGoesOn' /\ pc["mux"] # WriteLabel(First)
      BY <3>1 DEF MuxGoesOn, WriteLabel
    <3>3. /\ hold'["mux"] = Muxed + 1 /\ Numbered(items'["pkt"], Muxed + 1)
          /\ Len(items'["pkt"]) = Len(items["pkt"]) - 1
      BY <1>1, <1>2, <1>3, <3>1, <3>2, NumberedTail
    <3>4. Muxed' = Muxed + 1
      <4>1. Len(written[First]) \in Nat
        BY <1>1
      <4>2. Muxed = Len(written[First]) + 0
        BY <3>2 DEF Muxed, AtOneOf
      <4>3. Muxed' = Len(written[First]) + 1
        BY <1>0, <3>1 DEF Muxed, AtOneOf
      <4> QED
        BY <4>1, <4>2, <4>3
    <3>5. Packed' = Packed
      <4>1. PICK n \in Nat : Len(items["pkt"]) = n
        BY <1>1
      <4>2. Packed = Muxed + n
        BY <4>1 DEF Packed
      <4>3. Packed' = Muxed' + (n - 1)
        BY <3>3, <4>1 DEF Packed
      <4> QED
        BY <1>00, <3>4, <4>2, <4>3
    <3>6. PacketsInv'
      BY <1>0, <1>3, <3>2, <3>3, <3>4, <3>5 DEF PacketsInv, Numbered
    <3>7. WrittenInv'
      BY <1>0, <3>1 DEF WrittenInv, Numbered
    <3> QED
      BY <3>2, <3>5, <3>6, <3>7
  <2> QED
    BY <1>8, <2>1, <2>2 DEF MuxPop
<1>9. ASSUME NEW m \in Muxers, MuxWrite(m) PROVE Goal
  <2>1. /\ pc["mux"] = WriteLabel(m) /\ UNCHANGED items
        /\ written' = [written EXCEPT ![m] = Append(written[m], hold["mux"])]
        /\ m = "record" /\ cfg.rtsp => pc'["mux"] = "write_rtsp" /\ hold' = hold
        /\ ~(m = "record" /\ cfg.rtsp) => pc'["mux"] = "pop"
    BY <1>2, <1>9 DEF MuxWrite, At, Goto, chan
  <2>2. MuxGoesOn /\ MuxGoesOn'
    BY <2>1 DEF MuxGoesOn, WriteLabel
  <2>3. hold["mux"] \in 1 .. CameraFrames
    BY <1>2, <2>1 DEF MuxInv, WriteLabel
  <2>4. hold["mux"] = Len(written[m]) + 1 /\ Len(written[m]) + 1 <= Len(fed)
    <3>1. CASE m = First
      <4>1. hold["mux"] = Muxed /\ Muxed = Len(written[m]) + 1 /\ Muxed <= Packed
        <5>1. hold["mux"] = Muxed /\ Muxed = Len(written[m]) + 1
          BY <1>3, <2>1, <2>2, <3>1 DEF Muxed, AtOneOf
        <5>2. PICK n \in Nat : Packed = Muxed + n
          BY <1>1 DEF Packed
        <5>3. Muxed <= Packed
          BY <1>00, <5>2
        <5> QED
          BY <5>1, <5>3
      <4> QED
        BY <1>1, <1>3, <2>2, <4>1
    <3>2. CASE m # First
      <4>1. m = "rtsp" /\ cfg.record /\ cfg.rtsp /\ pc["mux"] = "write_rtsp"
        BY <2>1, <3>2 DEF First, Muxers, WriteLabel, MuxInv
      <4> QED
        BY <1>1, <1>2, <4>1 DEF WrittenInv
    <3> QED
      BY <3>1, <3>2
  <2>5. /\ \A n \in Muxers : written'[n] = IF n = m THEN Append(written[m], hold["mux"])
                                                    ELSE written[n]
        /\ Numbered(written'[m], 0) /\ Len(written'[m]) = Len(written[m]) + 1
    <3>1. \A n \in Muxers : written'[n] = IF n = m THEN Append(written[m], hold["mux"])
                                                   ELSE written[n]
      BY <1>2, <2>1
    <3>2. Numbered(written[m], 0)
      BY DEF WrittenInv
    <3>3. written[m] \in Seq(1 .. CameraFrames) /\ Len(written[m]) \in Nat
      BY <1>1, <1>2
    <3>4. hold["mux"] = 0 + Len(written[m]) + 1
      BY <2>4, <3>3
    <3>5. /\ Numbered(Append(written[m], hold["mux"]), 0)
          /\ Len(Append(written[m], hold["mux"])) = Len(written[m]) + 1
      BY <2>3, <3>2, <3>3, <3>4, NumberedAppend
    <3> QED
      BY <3>1, <3>5
  <2>6. Muxed' = Muxed
    <3>1. CASE m = First
      <4>1. pc["mux"] = WriteLabel(First) /\ pc'["mux"] # WriteLabel(First)
        BY <2>1, <3>1 DEF WriteLabel
      <4> QED
        BY <1>0, <1>1, <2>5, <3>1, <4>1 DEF Muxed, AtOneOf
    <3>2. CASE m # First
      <4>1. pc["mux"] # WriteLabel(First) /\ pc'["mux"] # WriteLabel(First)
        BY <2>1, <3>2 DEF WriteLabel, First, Muxers, MuxInv
      <4> QED
        BY <1>0, <1>1, <2>5, <3>2, <4>1 DEF Muxed, AtOneOf
    <3> QED
      BY <3>1, <3>2
  <2>7. Packed' = Packed
    BY <2>1, <2>6 DEF Packed
  <2>8. PacketsInv'
    <3>1. pc'["mux"] # WriteLabel(First)
      BY <2>1 DEF WriteLabel, First, Muxers, MuxInv
    <3> QED
      BY <1>0, <1>3, <2>1, <2>2, <2>6, <2>7, <3>1 DEF PacketsInv, Numbered
  <2>9. WrittenInv'
    <3>1. \A n \in Muxers : Numbered(written'[n], 0) /\ Len(written'[n]) <= Len(fed')
      BY <1>0, <1>1, <2>4, <2>5 DEF WrittenInv
    <3>2. ASSUME cfg.record, cfg.rtsp
          PROVE  /\ Len(written'["rtsp"]) <= Len(written'["record"])
                 /\ Len(written'["record"]) <= Len(written'["rtsp"]) + 1
                 /\ pc'["mux"] \in {"pop", "write_record"} =>
                       Len(written'["record"]) = Len(written'["rtsp"])
                 /\ pc'["mux"] = "write_rtsp" =>
                       /\ Len(written'["record"]) = Len(written'["rtsp"]) + 1
                       /\ hold'["mux"] = Len(written'["record"])
      <4>1. CASE m = "record"
        <5>1. Len(written["record"]) = Len(written["rtsp"])
          BY <2>1, <3>2, <4>1 DEF WrittenInv, WriteLabel
        <5>2. /\ Len(written'["record"]) = Len(written["record"]) + 1
              /\ written'["rtsp"] = written["rtsp"] /\ pc'["mux"] = "write_rtsp"
              /\ hold'["mux"] = Len(written["record"]) + 1
          BY <1>2, <2>1, <2>4, <2>5, <3>2, <4>1
        <5> QED
          BY <1>1, <1>2, <5>1, <5>2
      <4>2. CASE m = "rtsp"
        <5>1. Len(written["record"]) = Len(written["rtsp"]) + 1
          BY <2>1, <3>2, <4>2 DEF WrittenInv, WriteLabel
        <5>2. /\ Len(written'["rtsp"]) = Len(written["rtsp"]) + 1
              /\ written'["record"] = written["record"] /\ pc'["mux"] = "pop"
          BY <1>2, <2>1, <2>5, <4>2
        <5> QED
          BY <1>1, <1>2, <5>1, <5>2
      <4> QED
        BY <4>1, <4>2 DEF Muxers
    <3> QED
      BY <1>0, <3>1, <3>2 DEF WrittenInv
  <2> QED
    BY <2>2, <2>7, <2>8, <2>9
<1> QED
  BY <1>5, <1>6, <1>7, <1>8, <1>9 DEF MuxStep

-----------------------------------------------------------------------------
(* The process thread and the capture thread.                              *)

LEMMA OthersStay ==
    ASSUME TypeOK, NEW t \in Workers, Moves(t), NEW Q, Touches(Q)
    PROVE  /\ \A u \in Workers \ {t} : Stays(u) /\ hold'[u] = hold[u] /\ todo'[u] = todo[u]
           /\ MainStays /\ TakenDown' = TakenDown /\ UNCHANGED cfg
           /\ closed \subseteq closed'
           /\ t # "mux" => MuxGoesOn' = MuxGoesOn
  BY DEF TypeOK, Moves, Touches, Stays, MainStays, TakenDown, Threads, Workers, MuxGoesOn

LEMMA PackedKept ==
    ASSUME Stays("mux"), UNCHANGED <<cfg, written>>, items'["pkt"] = items["pkt"]
    PROVE  Muxed' = Muxed /\ Packed' = Packed
  BY MuxedKept DEF Packed

\* A frame that the process thread pushes is the next one for the encoder.
LEMMA ProcessOrder ==
    ASSUME TypeOK, ProcessInv, FedInv, EncoderInv, ~TakenDown, ProcessStep
    PROVE  /\ FedInv' /\ EncoderInv'
           /\ Len(fed') \in Nat /\ Len(fed) <= Len(fed')
<1> DEFINE Goal == /\ FedInv' /\ EncoderInv'
                   /\ Len(fed') \in Nat /\ Len(fed) <= Len(fed')
<1>0. /\ Moves("process") /\ Touches({"raw", "enc"}) /\ "process" \in Workers
      /\ UNCHANGED <<warm, taken, pushed, pending, opened, header, written, trailers>>
  BY TypesGiveShapes, ProcessMoves DEF Workers
<1>1. /\ Stays("mux") /\ Stays("encode") /\ pc'["capture"] = pc["capture"]
      /\ hold'["encode"] = hold["encode"] /\ hold'["capture"] = hold["capture"]
      /\ todo'["encode"] = todo["encode"]
      /\ MainStays /\ ~TakenDown' /\ UNCHANGED cfg /\ closed \subseteq closed'
      /\ MuxGoesOn' = MuxGoesOn
  BY <1>0, OthersStay DEF Workers, Moves, Threads, TypeOK
<1>2. /\ pc \in [Threads -> AllLabels] /\ "process" \in Threads
      /\ hold \in [Workers -> 0 .. CameraFrames] /\ "process" \in Workers
      /\ items \in [Queues -> Seq(1 .. CameraFrames)] /\ "raw" \in Queues /\ "enc" \in Queues
      /\ fed \in Seq(1 .. CameraFrames) /\ taken \in Nat
  BY SizeAssumption DEF TypeOK, Threads, Workers, Queues
<1>3. /\ Len(fed) \in Nat /\ Processed \in Nat /\ Encoded \in Nat /\ Taken \in Nat
      /\ Len(items["raw"]) \in Nat /\ Len(items["enc"]) \in Nat
  BY <1>2, CountsAreNumbers
<1>4. NeedEncode' = NeedEncode
  BY <1>1, ConfigurationStays
<1>5. items'["pkt"] = items["pkt"]
  BY <1>0 DEF Touches, Queues
<1>6. Packed' = Packed
  BY <1>0, <1>1, <1>5, PackedKept
<1>7. ASSUME UNCHANGED fed, items'["enc"] = items["enc"] PROVE EncoderInv'
  BY <1>0, <1>1, <1>6, <1>7, EncoderKept
<1>8. ASSUME UNCHANGED fed, items'["enc"] = items["enc"], pc'["process"] \in {"exit", "done"}
      PROVE  Goal
  <2>1. FedInv'
    BY <1>0, <1>4, <1>8 DEF FedInv, Numbered
  <2> QED
    BY <1>3, <1>7, <1>8, <2>1
<1>9. CASE \/ ProcessPopFails \/ ProcessWorkFails \/ ProcessWorkEnds \/ ProcessOsdFails
           \/ ProcessViewClosed \/ ProcessPushFails
  BY <1>2, <1>8, <1>9 DEF ProcessPopFails, ProcessWorkFails, ProcessWorkEnds,
     ProcessOsdFails, ProcessViewClosed, ProcessPushFails, Fails, Goto, chan
<1>10. CASE ProcessExit
  <2>1. UNCHANGED <<fed, items>> /\ pc'["process"] = "done"
    BY <1>2, <1>10 DEF ProcessExit, Close, chan, Goto
  <2> QED
    BY <1>8, <2>1
<1>11. CASE ProcessHead
  <2>1. /\ UNCHANGED <<fed, items, hold>> /\ pc["process"] = "loop"
        /\ pc'["process"] \in {"exit", "pop"}
    BY <1>2, <1>11 DEF ProcessHead, chan, At, Goto
  <2>2. Processed' = Processed
    BY <2>1 DEF Processed, AtOneOf
  <2>3. FedInv'
    BY <1>0, <1>1, <1>4, <2>1, <2>2 DEF FedInv, Numbered
  <2> QED
    BY <1>3, <1>7, <2>1, <2>3
<1>12. CASE ProcessWork
  <2>1. CASE NeedEncode
    <3>1. /\ UNCHANGED <<fed, items, hold>> /\ pc["process"] = "work"
          /\ pc'["process"] = "push"
      BY <1>2, <1>12, <2>1 DEF ProcessWork, chan, At, Goto
    <3>2. Processed' = Processed
      BY <3>1 DEF Processed, AtOneOf
    <3>3. FedInv'
      BY <1>0, <1>1, <1>4, <3>1, <3>2 DEF FedInv, Numbered
    <3> QED
      BY <1>3, <1>7, <3>1, <3>3
  <2>2. CASE ~NeedEncode
    <3>1. UNCHANGED <<fed, items>>
      BY <1>12 DEF ProcessWork, chan
    <3>2. FedInv'
      BY <1>0, <1>4, <2>2, <3>1 DEF FedInv, Numbered
    <3> QED
      BY <1>3, <1>7, <3>1, <3>2
  <2> QED
    BY <2>1, <2>2
<1>13. CASE ProcessPop
  <2>1. CASE AtEnd("raw")
    <3>1. UNCHANGED <<fed, items>> /\ pc'["process"] = "exit"
      BY <1>2, <1>13, <2>1 DEF ProcessPop, AtEnd, CanTake, TellEnd, Goto
    <3> QED
      BY <1>8, <3>1
  <2>2. CASE CanTake("raw") /\ Take("raw")
    <3>1. /\ items["raw"] # <<>> /\ items'["raw"] = Tail(items["raw"])
          /\ items'["enc"] = items["enc"]
          /\ hold'["process"] = Head(items["raw"]) /\ pc["process"] = "pop"
          /\ pc'["process"] = "work" /\ UNCHANGED fed
      BY <1>2, <1>13, <2>2 DEF ProcessPop, At, AtEnd, CanTake, Take, Goto
    <3>2. Processed = Len(fed) /\ Processed' = Len(fed) + 1
      BY <1>3, <3>1 DEF Processed, AtOneOf
    <3>3. FedInv'
      <4>1. CASE NeedEncode
        <5>1. /\ Numbered(items["raw"], Processed)
              /\ Processed + Len(items["raw"]) <= taken
              /\ pc["capture"] \in {"none", "warmup", "warm_get", "loop", "get"} =>
                    Processed + Len(items["raw"]) = taken
              /\ pc["capture"] = "push" =>
                    Processed + Len(items["raw"]) + 1 = taken /\ hold["capture"] = taken
              /\ pc["capture"] = "release" /\ pushed = "OK" =>
                    Processed + Len(items["raw"]) = taken
          BY <3>1, <4>1 DEF FedInv
        <5>2. /\ hold'["process"] = Processed + 1 /\ Numbered(items'["raw"], Processed + 1)
              /\ Len(items'["raw"]) = Len(items["raw"]) - 1
          BY <1>2, <1>3, <3>1, <5>1, NumberedTail
        <5>3. PICK n \in Nat : Len(items["raw"]) = n
          BY <1>3
        <5>4. Len(items'["raw"]) = n - 1
          BY <5>2, <5>3
        <5>5. Processed' = Processed + 1
          BY <3>2
        <5>6. Processed' + Len(items'["raw"]) = Processed + Len(items["raw"])
          BY <1>3, <5>3, <5>4, <5>5
        <5>7. Numbered(items["raw"], Processed)'
          BY <5>2, <5>5 DEF Numbered
        <5> QED
          BY <1>0, <1>1, <1>4, <3>1, <5>1, <5>2, <5>5, <5>6, <5>7 DEF FedInv, Numbered
      <4>2. CASE ~NeedEncode
        BY <1>0, <1>4, <3>1, <4>2 DEF FedInv, Numbered
      <4> QED
        BY <4>1, <4>2
    <3> QED
      BY <1>3, <1>7, <3>1, <3>3
  <2> QED
    BY <1>13, <2>1, <2>2 DEF ProcessPop
<1>14. CASE ProcessPush
  <2>1. CASE UNCHANGED <<chan, fed>> /\ Goto("process", "exit")
    <3>1. UNCHANGED <<items, fed>> /\ pc'["process"] = "exit"
      BY <1>2, <2>1 DEF Goto, chan
    <3> QED
      BY <1>8, <3>1
  <2>2. CASE CanPut("enc") /\ Put("enc", hold["process"]) /\ fed' = Append(fed, hold["process"])
             /\ Goto("process", "loop")
    <3>1. /\ pc["process"] = "push" /\ pc'["process"] = "loop"
          /\ items'["enc"] = Append(items["enc"], hold["process"])
          /\ items'["raw"] = items["raw"]
          /\ fed' = Append(fed, hold["process"])
      BY <1>2, <1>14, <2>2 DEF ProcessPush, At, Put, Goto
    <3>2. hold["process"] \in 1 .. CameraFrames /\ NeedEncode
      BY <1>2, <3>1 DEF ProcessInv
    <3>3. /\ Processed = Len(fed) + 1 /\ hold["process"] = Processed
          /\ Numbered(items["raw"], Processed)
          /\ Processed + Len(items["raw"]) <= taken
          /\ Numbered(fed, 0)
      BY <3>1, <3>2 DEF FedInv, Processed, AtOneOf
    <3>4. /\ Len(fed') = Len(fed) + 1 /\ Numbered(fed', 0)
      <4>1. hold["process"] = 0 + Len(fed) + 1
        BY <1>3, <3>3
      <4> QED
        BY <1>2, <3>1, <3>2, <3>3, <4>1, NumberedAppend
    <3>5. Processed' = Processed
      BY <1>3, <3>1, <3>3, <3>4 DEF Processed, AtOneOf
    <3>6. FedInv'
      <4>1. PICK n \in Nat : Len(items["raw"]) = n
        BY <1>3
      <4>2. PICK k \in Nat : Len(fed) = k
        BY <1>3
      <4>3. k + 1 + n <= taken
        BY <3>3, <4>1, <4>2
      <4>4. Len(fed') <= taken
        BY <1>2, <3>4, <4>2, <4>3
      <4> QED
        BY <1>0, <1>1, <1>4, <3>1, <3>2, <3>3, <3>4, <3>5, <4>4 DEF FedInv, Numbered
    <3>7. EncoderInv'
      <4> SUFFICES ASSUME EncodeGoesOn'
                   PROVE  /\ pc'["encode"] \in {"push", "push_flush"} => hold'["encode"] = Encoded'
                          /\ Numbered(pending', Encoded')
                          /\ Encoded' + Len(pending') <= Len(fed')
                          /\ pc'["encode"] \in {"none", "pop", "encode", "push"} =>
                                /\ pc'["encode"] = "encode" => hold'["encode"] = Taken'
                                /\ Numbered(items'["enc"], Taken')
                                /\ Taken' + Len(items'["enc"]) = Len(fed')
        BY DEF EncoderInv, Numbered
      <4>1. EncodeGoesOn /\ pc'["encode"] = pc["encode"]
        BY <1>0, <1>1 DEF EncodeGoesOn, Moves, TypeOK, Threads, Workers
      <4>2. Encoded' = Encoded /\ Taken' = Taken
        BY <1>0, <1>6, <4>1 DEF Encoded, Taken, AtOneOf
      <4>3. /\ pc["encode"] \in {"push", "push_flush"} => hold["encode"] = Encoded
            /\ Numbered(pending, Encoded)
            /\ Encoded + Len(pending) <= Len(fed)
            /\ pc["encode"] = "encode" => hold["encode"] = Taken
            /\ pc["encode"] \in {"none", "pop", "encode", "push"} =>
                  /\ Numbered(items["enc"], Taken)
                  /\ Taken + Len(items["enc"]) = Len(fed)
        BY <1>1, <4>1 DEF EncoderInv, MainStays
      <4>4. ASSUME pc["encode"] \in {"none", "pop", "encode", "push"}
            PROVE  /\ Numbered(items'["enc"], Taken)
                   /\ Taken + Len(items'["enc"]) = Len(fed')
        <5>1. hold["process"] = Taken + Len(items["enc"]) + 1
          BY <3>3, <4>3, <4>4
        <5>2. /\ Numbered(items'["enc"], Taken) /\ Len(items'["enc"]) = Len(items["enc"]) + 1
          <6>1. items["enc"] \in Seq(1 .. CameraFrames) /\ Numbered(items["enc"], Taken)
            BY <1>2, <4>3, <4>4
          <6> QED
            BY <1>3, <3>1, <3>2, <5>1, <6>1, NumberedAppend
        <5>3. PICK n \in Nat : Len(items["enc"]) = n
          BY <1>3
        <5>4. Taken + (n + 1) = Len(fed')
          BY <1>3, <3>4, <4>3, <4>4, <5>3
        <5> QED
          BY <5>2, <5>3, <5>4
      <4>5. Encoded + Len(pending) <= Len(fed')
        <5>1. PICK k \in Nat : Len(fed) = k
          BY <1>3
        <5>2. PICK p \in Nat : Len(pending) = p
          BY CountsAreNumbers
        <5> QED
          BY <1>3, <3>4, <4>3, <5>1, <5>2
      <4> QED
        BY <1>0, <1>1, <4>1, <4>2, <4>3, <4>4, <4>5
    <3> QED
      BY <1>3, <3>4, <3>6, <3>7
  <2> QED
    BY <1>14, <2>1, <2>2 DEF ProcessPush
<1> QED
  BY <1>9, <1>10, <1>11, <1>12, <1>13, <1>14 DEF ProcessStep

\* The frames that the capture thread takes from the camera follow one another in
\* the raw queue, but for the last, whose push may fail.
LEMMA CaptureOrder ==
    ASSUME TypeOK, FedInv, ~TakenDown, CameraStep \/ CaptureStep
    PROVE  FedInv'
<1> DEFINE Early == {"none", "warmup", "warm_get", "loop", "get"}
<1>0. /\ Moves("capture") /\ Touches({"raw"}) /\ "capture" \in Workers
      /\ UNCHANGED <<pending, opened, header, written, trailers, fed>>
  BY TypesGiveShapes, CaptureMoves DEF Workers
<1>1. /\ pc'["process"] = pc["process"] /\ hold'["process"] = hold["process"]
      /\ ~TakenDown' /\ UNCHANGED cfg
  BY <1>0, OthersStay DEF Workers, Moves, Threads, TypeOK
<1>2. /\ pc \in [Threads -> AllLabels] /\ "capture" \in Threads
      /\ hold \in [Workers -> 0 .. CameraFrames]
      /\ items \in [Queues -> Seq(1 .. CameraFrames)] /\ "raw" \in Queues
      /\ taken \in Nat /\ CameraFrames \in Nat
  BY SizeAssumption DEF TypeOK, Threads, Workers, Queues
<1>3. Processed \in Nat /\ Len(items["raw"]) \in Nat /\ Len(fed) \in Nat
  BY <1>2, CountsAreNumbers
<1>4. NeedEncode' = NeedEncode /\ Processed' = Processed
  BY <1>0, <1>1, ConfigurationStays DEF Processed, AtOneOf
<1>5. Numbered(fed, 0) /\ Len(fed) <= taken /\ (~NeedEncode => fed = <<>>)
  BY DEF FedInv
<1>6. ASSUME NeedEncode, pc["process"] \notin {"exit", "done"}
      PROVE  /\ pc["process"] \in {"work", "push"} => hold["process"] = Processed
             /\ Numbered(items["raw"], Processed)
             /\ Processed + Len(items["raw"]) <= taken
             /\ pc["capture"] \in Early => Processed + Len(items["raw"]) = taken
             /\ pc["capture"] = "push" =>
                   Processed + Len(items["raw"]) + 1 = taken /\ hold["capture"] = taken
             /\ pc["capture"] = "release" /\ pushed = "OK" =>
                   Processed + Len(items["raw"]) = taken
  BY <1>6 DEF FedInv
<1>7. ASSUME UNCHANGED <<items, taken>>,
             \/ pc["capture"] \in Early /\ pc'["capture"] \in Early
             \/ pc["capture"] = "release" /\ pushed = "OK" /\ pc'["capture"] \in Early
             \/ pc'["capture"] \in {"exit", "done"}
             \/ pc'["capture"] = "release" /\ pushed' # "OK"
      PROVE  FedInv'
  BY <1>0, <1>1, <1>4, <1>5, <1>6, <1>7 DEF FedInv, Numbered
<1>8. CASE WarmupHead \/ WarmupGet \/ WarmupEnd
  BY <1>2, <1>7, <1>8
  DEF WarmupHead, WarmupGet, WarmupEnd, At, Goto, chan, captureVars
<1>9. CASE WarmupFails \/ WarmupStopped \/ CaptureReleaseFails
  BY <1>2, <1>7, <1>9
  DEF WarmupFails, WarmupStopped, CaptureReleaseFails, Fails, Goto, chan, captureVars
<1>10. CASE CaptureHead \/ CaptureAgain \/ CaptureEnd \/ CaptureGetFails \/ CaptureStopped
  BY <1>2, <1>7, <1>10
  DEF CaptureHead, CaptureAgain, CaptureEnd, CaptureGetFails, CaptureStopped, Fails, At, Goto,
      chan, captureVars
<1>11. CASE CaptureExit
  BY <1>2, <1>7, <1>11 DEF CaptureExit, Close, Goto, chan, captureVars
<1>12. CASE CaptureRelease
  BY <1>2, <1>7, <1>12 DEF CaptureRelease, At, Goto, chan, captureVars
<1>13. CASE CaptureGet
  <2>1. /\ UNCHANGED items /\ taken' = taken + 1 /\ pc["capture"] = "get"
        /\ pc'["capture"] = "push" /\ hold'["capture"] = taken + 1
    BY <1>0, <1>2, <1>13 DEF CaptureGet, At, Goto, chan
  <2>2. Len(fed) <= taken'
    BY <1>2, <1>3, <1>5, <2>1
  <2>3. ASSUME NeedEncode, pc["process"] \notin {"exit", "done"}
        PROVE  Processed + Len(items["raw"]) + 1 = taken' /\ Processed + Len(items["raw"]) <= taken'
    <3>1. PICK n \in Nat : Len(items["raw"]) = n
      BY <1>3
    <3>2. Processed + n = taken
      BY <1>6, <2>1, <2>3, <3>1
    <3> QED
      BY <1>2, <1>3, <2>1, <3>1, <3>2
  <2> QED
    BY <1>0, <1>1, <1>4, <1>5, <1>6, <2>1, <2>2, <2>3 DEF FedInv, Numbered
<1>14. CASE CapturePush
  <2>1. CASE pushed' \in {"EOF", "ERROR"} /\ UNCHANGED chan
    BY <1>2, <1>7, <1>14, <2>1 DEF CapturePush, Goto, chan
  <2>2. CASE CanPut("raw") /\ Put("raw", hold["capture"]) /\ pushed' = "OK"
    <3>1. /\ pc["capture"] = "push" /\ pc'["capture"] = "release" /\ UNCHANGED <<taken, hold>>
          /\ items'["raw"] = Append(items["raw"], hold["capture"])
      BY <1>2, <1>14, <2>2 DEF CapturePush, At, Goto, Put
    <3>2. ASSUME NeedEncode, pc["process"] \notin {"exit", "done"}
          PROVE  /\ Numbered(items'["raw"], Processed)
                 /\ Processed + Len(items'["raw"]) = taken
      <4>1. PICK n \in Nat : Len(items["raw"]) = n
        BY <1>3
      <4>2. Processed + n + 1 = taken /\ hold["capture"] = taken
        BY <1>6, <3>1, <3>2, <4>1
      <4>3. hold["capture"] = Processed + Len(items["raw"]) + 1
        BY <4>1, <4>2
      <4>4. hold["capture"] \in 1 .. CameraFrames
        <5>1. taken >= 1 /\ hold["capture"] \in 0 .. CameraFrames
          BY <1>0, <1>2, <1>3, <4>1, <4>2
        <5> QED
          BY <1>2, <4>2, <5>1
      <4>5. items["raw"] \in Seq(1 .. CameraFrames) /\ Numbered(items["raw"], Processed)
        BY <1>2, <1>6, <3>2
      <4>6. /\ Numbered(items'["raw"], Processed) /\ Len(items'["raw"]) = Len(items["raw"]) + 1
        BY <1>3, <3>1, <4>3, <4>4, <4>5, NumberedAppend
      <4>7. Len(items'["raw"]) = n + 1
        BY <4>1, <4>6
      <4> QED
        BY <1>3, <4>1, <4>2, <4>6, <4>7
    <3>3. ASSUME NeedEncode, pc["process"] \notin {"exit", "done"}
          PROVE  Processed + Len(items'["raw"]) <= taken
      BY <1>2, <3>2, <3>3
    <3> QED
      BY <1>0, <1>1, <1>4, <1>5, <1>6, <3>1, <3>2, <3>3 DEF FedInv, Numbered
  <2> QED
    BY <1>14, <2>1, <2>2 DEF CapturePush
<1> QED
  BY <1>8, <1>9, <1>10, <1>11, <1>12, <1>13, <1>14 DEF CameraStep, CaptureStep

-----------------------------------------------------------------------------
(* The encode thread.                                                      *)

\* Between the encode queue and the packet queue the encoder drops nothing and
\* turns nothing around; a frame that is dropped closes the packet queue, or is the
\* last that the encode thread takes.
LEMMA EncodeOrder ==
    ASSUME TypeOK, ThreadsInv, ComponentsInv, EncodeInv, PacketsInv, EncoderInv, ~TakenDown,
           EncodeStep
    PROVE  EncoderInv' /\ PacketsInv'
<1> DEFINE Goal == EncoderInv' /\ PacketsInv'
           Later == {"flush", "exit", "done"}
<1>0. /\ Moves("encode") /\ Touches({"enc", "pkt"}) /\ "encode" \in Workers
      /\ UNCHANGED <<warm, taken, pushed, fed, opened, header, written, trailers>>
  BY TypesGiveShapes, EncodeMoves DEF Workers
<1>1. /\ pc'["mux"] = pc["mux"] /\ hold'["mux"] = hold["mux"] /\ MainStays
      /\ TakenDown' = TakenDown /\ UNCHANGED cfg /\ closed \subseteq closed'
      /\ MuxGoesOn' = MuxGoesOn /\ Stays("mux") /\ todo["encode"] = {}
  BY <1>0, OthersStay DEF Workers, Moves, Threads, TypeOK
<1>2. /\ pc \in [Threads -> AllLabels] /\ "encode" \in Threads /\ todo \in [Threads -> SUBSET Queues]
      /\ hold \in [Workers -> 0 .. CameraFrames]
      /\ items \in [Queues -> Seq(1 .. CameraFrames)] /\ "pkt" \in Queues /\ "enc" \in Queues
      /\ pending \in Seq(1 .. CameraFrames)
  BY DEF TypeOK, Threads, Workers, Queues
<1>3. /\ Packed \in Nat /\ Encoded \in Nat /\ Taken \in Nat /\ Len(items["pkt"]) \in Nat
      /\ Len(items["enc"]) \in Nat /\ Len(fed) \in Nat /\ Len(pending) \in Nat /\ Muxed \in Nat
  BY <1>2, CountsAreNumbers
<1>4. Muxed' = Muxed /\ First' = First /\ WriteLabel(First)' = WriteLabel(First)
  BY <1>0, <1>1, MuxedKept DEF First, WriteLabel
<1>5. "pkt" \in QueuesToClose
  <2>1. NeedEncode /\ live = Configured
    BY <1>0, MuxNeedsEncode DEF Moves, ThreadsInv, ComponentsInv
  <2> QED
    BY <2>1 DEF QueuesToClose, Configured, Queues
<1>6. ASSUME EncodeGoesOn'
      PROVE  /\ EncodeGoesOn /\ MuxGoesOn /\ "pkt" \notin closed /\ "pkt" \notin closed'
             /\ "pkt" \notin todo'["encode"]
  BY <1>1, <1>6 DEF EncodeGoesOn
<1>7. ASSUME EncodeGoesOn
      PROVE  /\ pc["encode"] \in {"push", "push_flush"} => hold["encode"] = Encoded
             /\ Numbered(pending, Encoded)
             /\ Encoded + Len(pending) <= Len(fed)
             /\ pc["encode"] \in {"none", "pop", "encode", "push"} =>
                   /\ pc["encode"] = "encode" => hold["encode"] = Taken
                   /\ Numbered(items["enc"], Taken)
                   /\ Taken + Len(items["enc"]) = Len(fed)
  BY <1>7 DEF EncoderInv
<1>8. ASSUME items'["pkt"] = items["pkt"] PROVE Packed' = Packed /\ PacketsInv'
  <2>1. Packed' = Packed
    BY <1>4, <1>8 DEF Packed
  <2> QED
    BY <1>0, <1>1, <1>3, <1>8, <2>1, PacketsKept
<1>9. ASSUME ~EncodeGoesOn', items'["pkt"] = items["pkt"] PROVE Goal
  BY <1>8, <1>9 DEF EncoderInv
<1>10. ASSUME NEW f, NEW label, Fails("encode", f, label), UNCHANGED chan PROVE Goal
  <2>1. todo'["encode"] = QueuesToClose
    BY <1>2, <1>10 DEF Fails, RequestStop
  <2> QED
    BY <1>5, <1>9, <1>10, <2>1 DEF EncodeGoesOn, chan
<1>11. CASE EncodePopFails \/ EncodeFails \/ EncodeFlushFails \/ EncodePushFails
  BY <1>10, <1>11 DEF EncodePopFails, EncodeFails, EncodeFlushFails, EncodePushFails
<1>12. CASE EncodeExit
  BY <1>9, <1>12 DEF EncodeExit, Close, EncodeGoesOn
<1>13. ASSUME UNCHANGED <<items, pending>>, pc["encode"] \in {"pop", "encode", "flush"},
              pc'["encode"] \in {"flush", "exit"}
       PROVE  Goal
  <2>1. Packed' = Packed /\ PacketsInv'
    BY <1>8, <1>13
  <2>2. Encoded' = Encoded
    BY <1>13, <2>1 DEF Encoded, AtOneOf
  <2>3. EncoderInv'
    BY <1>0, <1>1, <1>6, <1>7, <1>13, <2>2 DEF EncoderInv, Numbered
  <2> QED
    BY <2>1, <2>3
<1>14. CASE EncodeEnds
  BY <1>2, <1>13, <1>14 DEF EncodeEnds, At, Goto, chan
<1>15. CASE EncodePop
  <2>1. CASE AtEnd("enc")
    <3>1. /\ UNCHANGED <<items, pending>> /\ pc["encode"] = "pop" /\ pc'["encode"] = "flush"
      BY <1>2, <1>15, <2>1 DEF EncodePop, AtEnd, CanTake, TellEnd, At, Goto
    <3> QED
      BY <1>13, <3>1
  <2>2. CASE CanTake("enc") /\ Take("enc")
    <3>1. /\ items["enc"] # <<>> /\ items'["enc"] = Tail(items["enc"])
          /\ items'["pkt"] = items["pkt"] /\ UNCHANGED pending
          /\ hold'["encode"] = Head(items["enc"]) /\ pc["encode"] = "pop"
          /\ pc'["encode"] = "encode"
      BY <1>0, <1>2, <1>15, <2>2 DEF EncodePop, At, AtEnd, CanTake, Take, Goto
    <3>2. Packed' = Packed /\ PacketsInv'
      BY <1>8, <3>1
    <3>3. Encoded' = Encoded
      BY <3>1, <3>2 DEF Encoded, AtOneOf
    <3>4. Taken' = Taken + 1
      <4>1. PICK p \in Nat : Len(pending) = p
        BY <1>3
      <4>2. Taken = Encoded + p + 0
        BY <3>1, <4>1 DEF Taken, AtOneOf
      <4>3. Taken' = Encoded + p + 1
        BY <3>1, <3>3, <4>1 DEF Taken, AtOneOf
      <4> QED
        BY <1>3, <4>2, <4>3
    <3>5. EncoderInv'
      <4>1. ASSUME EncodeGoesOn'
            PROVE  /\ hold'["encode"] = Taken' /\ Numbered(items'["enc"], Taken')
                   /\ Taken' + Len(items'["enc"]) = Len(fed)
        <5>1. Numbered(items["enc"], Taken) /\ Taken + Len(items["enc"]) = Len(fed)
          BY <1>6, <1>7, <3>1, <4>1
        <5>2. items["enc"] \in Seq(1 .. CameraFrames)
          BY <1>2
        <5>3. /\ hold'["encode"] = Taken + 1 /\ Numbered(items'["enc"], Taken + 1)
              /\ Len(items'["enc"]) = Len(items["enc"]) - 1
          BY <1>3, <3>1, <5>1, <5>2, NumberedTail
        <5>4. PICK n \in Nat : Len(items["enc"]) = n
          BY <1>3
        <5>5. Len(items'["enc"]) = n - 1 /\ Taken + n = Len(fed)
          BY <5>1, <5>3, <5>4
        <5>6. (Taken + 1) + (n - 1) = Taken + n
          BY <1>3, <5>4
        <5> QED
          BY <3>4, <5>3, <5>5, <5>6
      <4> QED
        BY <1>0, <1>1, <1>6, <1>7, <3>1, <3>3, <4>1 DEF EncoderInv, Numbered
    <3> QED
      BY <3>2, <3>5
  <2> QED
    BY <1>15, <2>1, <2>2 DEF EncodePop
<1>16. CASE EncodeOne
  <2> DEFINE inside == Append(pending, hold["encode"])
  <2>1. /\ pc["encode"] = "encode" /\ UNCHANGED items
        /\ \/ /\ pending' = Tail(inside) /\ hold'["encode"] = Head(inside)
              /\ pc'["encode"] = "push"
           \/ pending' = inside /\ pc'["encode"] = "pop"
    BY <1>0, <1>2, <1>16 DEF EncodeOne, At, Goto, chan
  <2>2. Packed' = Packed /\ PacketsInv'
    BY <1>8, <2>1
  <2>3. hold["encode"] \in 1 .. CameraFrames
    BY <1>0, <1>2, <2>1 DEF EncodeInv
  <2>4. inside \in Seq(1 .. CameraFrames) /\ Len(inside) = Len(pending) + 1 /\ inside # <<>>
    BY <1>2, <2>3, AppendTyped
  <2>5. Encoded = Packed /\ Taken = Packed + (Len(pending) + 1)
    <3>1. PICK p \in Nat : Len(pending) = p
      BY <1>3
    <3>2. Encoded = Packed + 0
      BY <2>1 DEF Encoded, AtOneOf
    <3>3. Taken = Encoded + p + 1
      BY <2>1, <3>1 DEF Taken, AtOneOf
    <3> QED
      BY <1>3, <3>1, <3>2, <3>3
  <2>6. ASSUME EncodeGoesOn'
        PROVE  /\ Numbered(inside, Encoded) /\ Encoded + Len(inside) <= Len(fed)
               /\ Numbered(items["enc"], Taken) /\ Taken + Len(items["enc"]) = Len(fed)
    <3>1. /\ Numbered(pending, Encoded) /\ hold["encode"] = Taken
          /\ Numbered(items["enc"], Taken) /\ Taken + Len(items["enc"]) = Len(fed)
      BY <1>6, <1>7, <2>1, <2>6
    <3>2. PICK p \in Nat : Len(pending) = p
      BY <1>3
    <3>3. hold["encode"] = Encoded + Len(pending) + 1
      BY <1>3, <2>5, <3>1, <3>2
    <3>4. Numbered(inside, Encoded)
      BY <1>2, <1>3, <2>3, <3>1, <3>3, NumberedAppend
    <3>5. PICK n \in Nat : Len(items["enc"]) = n
      BY <1>3
    <3>6. Encoded + (p + 1) <= Len(fed)
      BY <1>3, <2>5, <3>1, <3>2, <3>5
    <3>7. Encoded + Len(inside) <= Len(fed)
      BY <2>4, <3>2, <3>6
    <3> QED
      BY <3>1, <3>4, <3>7
  <2> HIDE DEF inside
  <2>7. CASE pending' = inside /\ pc'["encode"] = "pop"
    <3>1. Encoded' = Encoded
      BY <2>1, <2>2, <2>7 DEF Encoded, AtOneOf
    <3>2. Taken' = Taken
      <4>1. PICK p \in Nat : Len(pending) = p
        BY <1>3
      <4>2. Taken' = Encoded + (p + 1) + 0
        BY <2>4, <2>7, <3>1, <4>1 DEF Taken, AtOneOf
      <4>3. Taken = Packed + (p + 1) /\ Encoded = Packed
        BY <2>5, <4>1
      <4> QED
        BY <1>3, <4>2, <4>3
    <3>3. EncoderInv'
      BY <1>0, <1>1, <2>1, <2>6, <2>7, <3>1, <3>2 DEF EncoderInv, Numbered
    <3> QED
      BY <2>2, <3>3
  <2>8. CASE pending' = Tail(inside) /\ hold'["encode"] = Head(inside) /\ pc'["encode"] = "push"
    <3>1. Encoded' = Encoded + 1
      BY <1>3, <2>2, <2>5, <2>8 DEF Encoded, AtOneOf
    <3>2. /\ Head(inside) \in 1 .. CameraFrames /\ Tail(inside) \in Seq(1 .. CameraFrames)
          /\ Len(Tail(inside)) = Len(pending)
      <4>1. /\ Head(inside) \in 1 .. CameraFrames /\ Tail(inside) \in Seq(1 .. CameraFrames)
            /\ Len(Tail(inside)) = Len(inside) - 1
        BY <2>4, TailTyped
      <4>2. PICK p \in Nat : Len(pending) = p
        BY <1>3
      <4>3. Len(Tail(inside)) = (p + 1) - 1
        BY <2>4, <4>1, <4>2
      <4>4. (p + 1) - 1 = p
        OBVIOUS
      <4>5. Len(Tail(inside)) = Len(pending)
        BY <4>2, <4>3, <4>4
      <4> QED
        BY <4>1, <4>5
    <3>3. Taken' = Taken
      <4>1. PICK p \in Nat : Len(pending) = p
        BY <1>3
      <4>2. Taken' = (Encoded + 1) + p + 0
        BY <2>8, <3>1, <3>2, <4>1 DEF Taken, AtOneOf
      <4>3. Taken = Packed + (p + 1) /\ Encoded = Packed
        BY <2>5, <4>1
      <4> QED
        BY <1>3, <4>2, <4>3
    <3>4. ASSUME EncodeGoesOn'
          PROVE  /\ Head(inside) = Encoded' /\ Numbered(Tail(inside), Encoded')
                 /\ Encoded' + Len(Tail(inside)) <= Len(fed)
      <4>1. Head(inside) = Encoded + 1 /\ Numbered(Tail(inside), Encoded + 1)
        BY <1>3, <2>4, <2>6, <3>4, NumberedTail
      <4>2. PICK p \in Nat : Len(pending) = p
        BY <1>3
      <4>3. Len(inside) = p + 1 /\ Len(Tail(inside)) = p
        BY <2>4, <3>2, <4>2
      <4>4. Encoded + (p + 1) <= Len(fed)
        BY <2>6, <3>4, <4>3
      <4>5. (Encoded + 1) + p <= Len(fed)
        BY <1>3, <4>2, <4>4
      <4> QED
        BY <3>1, <4>1, <4>3, <4>5
    <3>5. EncoderInv'
      BY <1>0, <1>1, <2>1, <2>6, <2>8, <3>1, <3>3, <3>4 DEF EncoderInv, Numbered
    <3> QED
      BY <2>2, <3>5
  <2> QED
    BY <2>1, <2>7, <2>8
<1>17. CASE EncodePush
  <2>1. CASE "pkt" \in closed /\ UNCHANGED chan
    BY <1>1, <1>9, <2>1 DEF EncodeGoesOn, chan
  <2>2. CASE CanPut("pkt") /\ Put("pkt", hold["encode"])
    <3>1. /\ pc["encode"] \in {"push", "push_flush"} /\ UNCHANGED pending
          /\ items'["pkt"] = Append(items["pkt"], hold["encode"])
          /\ items'["enc"] = items["enc"] /\ "pkt" \notin closed
      BY <1>2, <1>17, <2>2 DEF EncodePush, At, Put, CanPut
    <3>2. pc'["encode"] = IF pc["encode"] = "push" THEN "pop" ELSE "flush"
      BY <1>2, <1>17, <2>2 DEF EncodePush, At, CanPut, Goto
    <3>3. hold["encode"] \in 1 .. CameraFrames
      BY <1>0, <1>2, <3>1 DEF EncodeInv
    <3>4. MuxGoesOn => EncodeGoesOn
      BY <1>1, <3>1 DEF EncodeGoesOn
    <3>5. Encoded = Packed + 1
      BY <3>1 DEF Encoded, AtOneOf
    <3>6. items["pkt"] \in Seq(1 .. CameraFrames) /\ Len(items'["pkt"]) = Len(items["pkt"]) + 1
      BY <1>2, <3>1, <3>3, AppendTyped
    <3>7. Packed' = Packed + 1
      <4>1. PICK n \in Nat : Len(items["pkt"]) = n
        BY <1>3
      <4>2. Packed = Muxed + n
        BY <4>1 DEF Packed
      <4>3. Packed' = Muxed + (n + 1)
        BY <1>4, <3>6, <4>1 DEF Packed
      <4> QED
        BY <1>3, <4>2, <4>3
    <3>8. Encoded' = Encoded
      BY <1>3, <3>2, <3>5, <3>7 DEF Encoded, AtOneOf
    <3>9. Taken' = Taken
      BY <3>1, <3>2, <3>8 DEF Taken, AtOneOf
    <3>10. PacketsInv'
      <4>1. ASSUME MuxGoesOn
            PROVE  Numbered(items'["pkt"], Muxed) /\ Packed' <= Len(fed)
        <5>1. /\ Numbered(items["pkt"], Muxed) /\ hold["encode"] = Encoded
              /\ Encoded + Len(pending) <= Len(fed)
          BY <1>7, <3>1, <3>4, <4>1 DEF PacketsInv
        <5>2. hold["encode"] = Muxed + Len(items["pkt"]) + 1
          BY <3>5, <5>1 DEF Packed
        <5>3. Numbered(items'["pkt"], Muxed)
          BY <1>3, <3>1, <3>3, <3>6, <5>1, <5>2, NumberedAppend
        <5>4. PICK p \in Nat : Len(pending) = p
          BY <1>3
        <5>5. Packed' <= Len(fed)
          BY <1>3, <3>5, <3>7, <5>1, <5>4
        <5> QED
          BY <5>3, <5>5
      <4>2. MuxGoesOn /\ pc["mux"] = WriteLabel(First) => hold["mux"] = Muxed
        BY DEF PacketsInv
      <4> QED
        BY <1>0, <1>1, <1>4, <4>1, <4>2 DEF PacketsInv, Numbered
    <3>11. EncoderInv'
      BY <1>0, <1>1, <1>6, <1>7, <3>1, <3>2, <3>8, <3>9 DEF EncoderInv, Numbered
    <3> QED
      BY <3>10, <3>11
  <2> QED
    BY <1>17, <2>1, <2>2 DEF EncodePush
<1>18. CASE EncodeFlush
  <2>1. CASE pending = <<>>
    BY <1>2, <1>13, <1>18, <2>1 DEF EncodeFlush, At, Goto, chan
  <2>2. CASE pending # <<>>
    <3>1. /\ pc["encode"] = "flush" /\ pc'["encode"] = "push_flush" /\ UNCHANGED items
          /\ pending' = Tail(pending) /\ hold'["encode"] = Head(pending)
      BY <1>0, <1>2, <1>18, <2>2 DEF EncodeFlush, At, Goto, chan
    <3>2. Packed' = Packed /\ PacketsInv'
      BY <1>8, <3>1
    <3>3. Encoded' = Encoded + 1
      BY <1>3, <3>1, <3>2 DEF Encoded, AtOneOf
    <3>4. ASSUME EncodeGoesOn'
          PROVE  /\ hold'["encode"] = Encoded' /\ Numbered(pending', Encoded')
                 /\ Encoded' + Len(pending') <= Len(fed)
      <4>1. Numbered(pending, Encoded) /\ Encoded + Len(pending) <= Len(fed)
        BY <1>6, <1>7, <3>4
      <4>2. /\ hold'["encode"] = Encoded + 1 /\ Numbered(pending', Encoded + 1)
            /\ Len(pending') = Len(pending) - 1
        BY <1>2, <1>3, <2>2, <3>1, <4>1, NumberedTail
      <4>3. PICK p \in Nat : Len(pending) = p
        BY <1>3
      <4>4. Len(pending') = p - 1 /\ Encoded + p <= Len(fed)
        BY <4>1, <4>2, <4>3
      <4>5. (Encoded + 1) + (p - 1) <= Len(fed)
        BY <1>3, <4>3, <4>4
      <4> QED
        BY <3>3, <4>2, <4>4, <4>5
    <3>5. EncoderInv'
      BY <1>0, <1>1, <3>1, <3>4 DEF EncoderInv, Numbered
    <3> QED
      BY <3>2, <3>5
  <2> QED
    BY <2>1, <2>2
<1> QED
  BY <1>11, <1>12, <1>14, <1>15, <1>16, <1>17, <1>18 DEF EncodeStep

-----------------------------------------------------------------------------
(* The inductive invariant for the order.                                  *)

OrderInv == WrittenInv /\ PacketsInv /\ EncoderInv /\ FedInv

LEMMA OrderStarts == Init => OrderInv
<1> SUFFICES ASSUME Init PROVE OrderInv
  OBVIOUS
<1>1. /\ pc["mux"] = "none" /\ pc["encode"] = "none" /\ pc["process"] = "none"
      /\ pc["capture"] = "none" /\ ~TakenDown
  BY DEF Init, Threads, Workers, TakenDown
<1>2. /\ \A m \in Muxers : written[m] = <<>> /\ Len(written[m]) = 0
      /\ "record" \in Muxers /\ "rtsp" \in Muxers /\ First \in Muxers
      /\ \A c \in Queues : items[c] = <<>> /\ Len(items[c]) = 0
      /\ {"raw", "enc", "pkt"} \subseteq Queues
      /\ fed = <<>> /\ pending = <<>> /\ taken = 0 /\ Len(fed) = 0 /\ Len(pending) = 0
  BY DEF Init, Muxers, Queues, First
<1>3. Muxed = 0
  BY <1>1, <1>2 DEF Muxed, AtOneOf, WriteLabel
<1>4. Packed = 0
  BY <1>2, <1>3 DEF Packed
<1>5. Encoded = 0 /\ Processed = 0
  BY <1>1, <1>2, <1>4 DEF Encoded, Processed, AtOneOf
<1>6. Taken = 0
  BY <1>1, <1>2, <1>5 DEF Taken, AtOneOf
<1>7. WrittenInv
  BY <1>1, <1>2 DEF WrittenInv, Numbered
<1>8. PacketsInv
  BY <1>1, <1>2, <1>4 DEF PacketsInv, Numbered, WriteLabel
<1>9. EncoderInv
  BY <1>1, <1>2, <1>5, <1>6 DEF EncoderInv, Numbered
<1>10. FedInv
  BY <1>1, <1>2, <1>5 DEF FedInv, Numbered
<1> QED
  BY <1>7, <1>8, <1>9, <1>10 DEF OrderInv

\* A step that moves no frame.
LEMMA OrderKept ==
    ASSUME OrderInv, TypeOK, \A t \in Workers : Stays(t), MainStays,
           todo["encode"] \subseteq todo'["encode"] \cup closed', closed \subseteq closed',
           ~TakenDown' => UNCHANGED items,
           UNCHANGED <<cfg, hold, taken, pushed, pending, written, fed>>
    PROVE  OrderInv'
<1>0. WrittenInv /\ PacketsInv /\ EncoderInv /\ FedInv /\ Len(fed) \in Nat /\ Packed \in Nat
      /\ \A m \in Muxers : Len(written[m]) \in Nat
  BY CountsAreNumbers DEF OrderInv
<1>1. Stays("mux") /\ Stays("encode") /\ Stays("process") /\ Stays("capture")
  BY DEF Workers
<1>2. WrittenInv'
  BY <1>0, <1>1, WrittenKept
<1>3. PacketsInv'
  BY <1>0, <1>1, PacketsKept
<1>4. EncoderInv'
  <2>1. ~TakenDown' => Packed' = Packed
    BY <1>1, PackedKept
  <2>2. MuxGoesOn' => MuxGoesOn
    BY <1>1, MuxedKept
  <2>3. "pkt" \in closed \cup todo["encode"] => "pkt" \in closed' \cup todo'["encode"]
    OBVIOUS
  <2> QED
    BY <1>0, <1>1, <2>1, <2>2, <2>3, EncoderKept
<1>5. FedInv'
  BY <1>0, <1>1, FedKept
<1> QED
  BY <1>2, <1>3, <1>4, <1>5 DEF OrderInv

LEMMA RunningMeansNotDown ==
    ASSUME ThreadsInv, NEW t \in Workers, Moves(t)
    PROVE  ~TakenDown
  BY DEF ThreadsInv, Moves, TakenDown

LEMMA OrderStays == ControlInv /\ OrderInv /\ [Next]_vars => OrderInv'
<1> SUFFICES ASSUME ControlInv, OrderInv, [Next]_vars PROVE OrderInv'
  OBVIOUS
<1>0. /\ TypeOK /\ ThreadsInv /\ ComponentsInv /\ TrailersInv /\ Shapes
      /\ CaptureInv /\ ProcessInv /\ EncodeInv /\ MuxInv
      /\ WrittenInv /\ PacketsInv /\ EncoderInv /\ FedInv
      /\ Len(fed) \in Nat /\ Packed \in Nat
      /\ \A m \in Muxers : Len(written[m]) \in Nat
  BY TypesGiveShapes, CountsAreNumbers DEF ControlInv, WorkersInv, OrderInv
<1>1. CASE CameraStep \/ CaptureStep
  <2>1. /\ Moves("capture") /\ Touches({"raw"}) /\ "capture" \in Workers
        /\ UNCHANGED <<pending, opened, header, written, trailers, fed>>
    BY <1>0, <1>1, CaptureMoves DEF Workers
  <2>2. ~TakenDown /\ FedInv'
    BY <1>0, <1>1, <2>1, RunningMeansNotDown, CaptureOrder
  <2>3. /\ Stays("mux") /\ Stays("encode") /\ MainStays /\ UNCHANGED cfg
        /\ hold'["mux"] = hold["mux"] /\ hold'["encode"] = hold["encode"]
        /\ todo'["encode"] = todo["encode"] /\ closed \subseteq closed'
        /\ MuxGoesOn' = MuxGoesOn
        /\ items'["pkt"] = items["pkt"] /\ items'["enc"] = items["enc"]
    BY <1>0, <2>1, OthersStay DEF Workers, Touches, Queues
  <2>4. WrittenInv' /\ PacketsInv'
    BY <1>0, <2>1, <2>3, WrittenKept, PacketsKept
  <2>5. EncoderInv'
    BY <1>0, <2>1, <2>3, PackedKept, EncoderKept
  <2> QED
    BY <2>2, <2>4, <2>5 DEF OrderInv
<1>2. CASE ProcessStep
  <2>1. /\ Moves("process") /\ Touches({"raw", "enc"}) /\ "process" \in Workers
        /\ UNCHANGED <<warm, taken, pushed, pending, opened, header, written, trailers>>
    BY <1>0, <1>2, ProcessMoves DEF Workers
  <2>2. ~TakenDown
    BY <1>0, <2>1, RunningMeansNotDown
  <2>3. FedInv' /\ EncoderInv' /\ Len(fed') \in Nat /\ Len(fed) <= Len(fed')
    BY <1>0, <1>2, <2>2, ProcessOrder
  <2>4. /\ Stays("mux") /\ MainStays /\ UNCHANGED cfg /\ hold'["mux"] = hold["mux"]
        /\ items'["pkt"] = items["pkt"]
    BY <1>0, <2>1, OthersStay DEF Workers, Touches, Queues
  <2>5. WrittenInv' /\ PacketsInv'
    BY <1>0, <2>1, <2>3, <2>4, WrittenKept, PacketsKept
  <2> QED
    BY <2>3, <2>5 DEF OrderInv
<1>3. CASE EncodeStep
  <2>1. /\ Moves("encode") /\ Touches({"enc", "pkt"}) /\ "encode" \in Workers
        /\ UNCHANGED <<warm, taken, pushed, fed, opened, header, written, trailers>>
    BY <1>0, <1>3, EncodeMoves DEF Workers
  <2>2. ~TakenDown
    BY <1>0, <2>1, RunningMeansNotDown
  <2>3. EncoderInv' /\ PacketsInv'
    BY <1>0, <1>3, <2>2, EncodeOrder
  <2>4. /\ Stays("mux") /\ Stays("process") /\ Stays("capture") /\ MainStays /\ UNCHANGED cfg
        /\ hold'["mux"] = hold["mux"] /\ hold'["process"] = hold["process"]
        /\ hold'["capture"] = hold["capture"] /\ items'["raw"] = items["raw"]
    BY <1>0, <2>1, OthersStay DEF Workers, Touches, Queues
  <2>5. WrittenInv' /\ FedInv'
    BY <1>0, <2>1, <2>4, WrittenKept, FedKept
  <2> QED
    BY <2>3, <2>5 DEF OrderInv
<1>4. CASE MuxStep
  <2>1. /\ Moves("mux") /\ Touches({"pkt"}) /\ "mux" \in Workers
        /\ UNCHANGED <<warm, taken, pushed, fed, pending>>
    BY <1>0, <1>4, MuxMoves DEF Workers
  <2>2. ~TakenDown /\ NeedEncode
    BY <1>0, <2>1, RunningMeansNotDown, MuxNeedsEncode DEF Moves
  <2>3. WrittenInv' /\ PacketsInv' /\ (MuxGoesOn' => MuxGoesOn /\ Packed' = Packed)
    BY <1>0, <1>4, <2>2, MuxOrder
  <2>4. /\ Stays("encode") /\ Stays("process") /\ Stays("capture") /\ MainStays /\ UNCHANGED cfg
        /\ hold'["encode"] = hold["encode"] /\ hold'["process"] = hold["process"]
        /\ hold'["capture"] = hold["capture"] /\ items'["raw"] = items["raw"]
        /\ items'["enc"] = items["enc"] /\ closed \subseteq closed'
        /\ todo'["encode"] = todo["encode"]
    BY <1>0, <2>1, OthersStay DEF Workers, Touches, Queues
  <2>5. FedInv'
    BY <1>0, <2>1, <2>4, FedKept
  <2>6. EncoderInv'
    <3>1. CASE MuxGoesOn'
      BY <1>0, <2>1, <2>3, <2>4, <3>1, EncoderKept
    <3>2. CASE ~MuxGoesOn'
      BY <3>2 DEF EncoderInv, EncodeGoesOn
    <3> QED
      BY <3>1, <3>2
  <2> QED
    BY <2>3, <2>5, <2>6 DEF OrderInv
<1>5. CASE MainStep \/ MainSignal
  <2>1. /\ \A t \in Workers : todo'[t] = todo[t]
        /\ ~MainCreate => \A t \in Workers : pc'[t] = pc[t]
        /\ ~MainTeardown => UNCHANGED items
        /\ closed \subseteq closed'
        /\ UNCHANGED <<cfg, hold, taken, pushed, pending, written, fed>>
    BY <1>0, <1>5, MainMoves
  <2>2. \A t \in Workers : Stays(t)
    <3>1. CASE MainCreate
      <4>1. PICK t \in Wanted \ started :
               /\ t \in Workers /\ pc[t] = "none"
               /\ pc' = [pc EXCEPT ![t] = StartLabel[t],
                                   !["main"] = IF started' = Wanted THEN "signal" ELSE "create"]
        BY <1>0, <3>1, CreateStarts
      <4> QED
        BY <1>0, <4>1 DEF Shapes, Stays, Threads, Workers
    <3> QED
      BY <2>1, <3>1 DEF Stays
  <2>3. MainStays /\ (MainTeardown => TakenDown')
    BY <1>0, <1>5
    DEF MainStays, TakenDown, Shapes, Threads, MainStep, MainSignal, MainInit, MainGivesUp,
        MainOpen, MainStream, MainCreate, MainCreateFails, MainStop, MainStopStream,
        MainStopRaw, MainJoin, MainWaited, MainDeinit, MainCloseCamera, MainTeardown, MainExit,
        At, Goto
  <2> QED
    BY <1>0, <2>1, <2>2, <2>3, OrderKept DEF Workers
<1>6. ASSUME NEW t \in Threads, CloseNext(t) PROVE OrderInv'
  <2>1. PICK c \in todo[t] :
           /\ closed' = closed \cup {c}
           /\ todo' = [todo EXCEPT ![t] = todo[t] \ {c}]
           /\ c \in Queues /\ todo \in [Threads -> SUBSET Queues]
           /\ UNCHANGED <<cfg, pc, items, hold, taken, pushed, pending, written, fed>>
    BY <1>0, <1>6, CloseControl
  <2> QED
    BY <1>0, <2>1, OrderKept DEF Stays, MainStays, TakenDown, Threads, Workers
<1>7. CASE UNCHANGED vars
  <2>1. UNCHANGED <<cfg, pc, todo, closed, items, hold, taken, pushed, pending, written, fed>>
    BY <1>7 DEF vars, chan, captureVars, muxVars
  <2> QED
    BY <1>0, <2>1, OrderKept DEF Stays, MainStays, TakenDown
<1> QED
  BY <1>1, <1>2, <1>3, <1>4, <1>5, <1>6, <1>7 DEF Next, Terminated

LEMMA OrderHolds == Spec => []OrderInv
  BY OrderStarts, OrderStays, ControlHolds, PTL DEF Spec

LEMMA NumberedPrefix ==
    ASSUME NEW S, NEW s \in Seq(S), NEW t \in Seq(S), Numbered(s, 0), Numbered(t, 0),
           Len(s) <= Len(t)
    PROVE  IsPrefix(s, t)
<1>1. Len(s) \in Nat /\ Len(t) \in Nat
  OBVIOUS
<1>2. \A i \in 1 .. Len(s) : s[i] = t[i]
  BY <1>1 DEF Numbered
<1>3. SubSeq(s, 1, Len(s)) = SubSeq(t, 1, Len(s))
  BY <1>1, <1>2
<1> QED
  BY <1>3 DEF IsPrefix

\* Property OutputInOrder: what a muxer is given is a beginning of what the process
\* thread handed on, in the order of capture and without gap or repetition.
THEOREM OutputIsInOrder == Spec => []OutputInOrder
<1>1. ControlInv /\ OrderInv => OutputInOrder
  <2> SUFFICES ASSUME ControlInv, OrderInv PROVE OutputInOrder
    OBVIOUS
  <2>1. /\ fed \in Seq(1 .. CameraFrames) /\ written \in [Muxers -> Seq(1 .. CameraFrames)]
        /\ "record" \in Muxers /\ "rtsp" \in Muxers /\ Len(fed) \in Nat
    BY DEF ControlInv, TypeOK, Muxers
  <2>2. Numbered(fed, 0) /\ WrittenInv
    BY DEF OrderInv, FedInv
  <2>3. \A i, j \in 1 .. Len(fed) : i < j => fed[i] < fed[j]
    BY <2>1, <2>2 DEF Numbered
  <2>4. \A m \in Muxers : IsPrefix(written[m], fed)
    BY <2>1, <2>2, NumberedPrefix DEF WrittenInv
  <2>5. ASSUME cfg.record, cfg.rtsp
        PROVE  /\ IsPrefix(written["rtsp"], written["record"])
               /\ Len(written["record"]) <= Len(written["rtsp"]) + 1
    BY <2>1, <2>2, <2>5, NumberedPrefix DEF WrittenInv
  <2> QED
    BY <2>3, <2>4, <2>5 DEF OutputInOrder
<1> QED
  BY <1>1, ControlHolds, OrderHolds, PTL

-----------------------------------------------------------------------------
(* What a step that adds no failure does to the end of the queues.         *)

LEMMA FaultsAreNoted == \A f : Fault(f) => failed' # {}
  BY DEF Fault

LEMMA CaptureQuiet ==
    ASSUME Shapes, CameraStep \/ CaptureStep, failed' = {}, pushed # "ERROR"
    PROVE  /\ stop' = stop /\ pushed' # "ERROR"
           /\ "raw" \in closed => items'["raw"] = items["raw"]
           /\ "raw" \in closed' => "raw" \in closed \/ pc'["capture"] = "done"
           /\ pc'["capture"] = "release" => pushed' = "OK" \/ "raw" \in closed
           /\ pc'["capture"] \in {"exit", "done"} /\ ~stop =>
                 /\ UNCHANGED <<items, taken>>
                 /\ \/ pc["capture"] = "exit"
                    \/ pc["capture"] = "release" /\ pushed \in {"OK", "EOF"}
<1> DEFINE Goal ==
           /\ stop' = stop /\ pushed' # "ERROR"
           /\ "raw" \in closed => items'["raw"] = items["raw"]
           /\ "raw" \in closed' => "raw" \in closed \/ pc'["capture"] = "done"
           /\ pc'["capture"] = "release" => pushed' = "OK" \/ "raw" \in closed
           /\ pc'["capture"] \in {"exit", "done"} /\ ~stop =>
                 /\ UNCHANGED <<items, taken>>
                 /\ \/ pc["capture"] = "exit"
                    \/ pc["capture"] = "release" /\ pushed \in {"OK", "EOF"}
<1>0. pc \in [Threads -> AllLabels] /\ "capture" \in Threads
  BY DEF Shapes, Threads, Workers
<1>1. CASE \/ WarmupEnd \/ WarmupFails \/ WarmupStopped \/ CaptureAgain \/ CaptureEnd
           \/ CaptureGetFails \/ CaptureReleaseFails
  BY <1>1, FaultsAreNoted
  DEF WarmupEnd, WarmupFails, WarmupStopped, CaptureAgain, CaptureEnd, CaptureGetFails,
      CaptureReleaseFails, Fails
<1>2. CASE WarmupHead \/ WarmupGet \/ CaptureHead \/ CaptureGet
  BY <1>0, <1>2 DEF WarmupHead, WarmupGet, CaptureHead, CaptureGet, At, Goto, NoFault,
                    chan, captureVars
<1>3. CASE CaptureStopped
  BY <1>0, <1>3, FaultsAreNoted DEF CaptureStopped, At, Goto, NoFault, chan, captureVars
<1>4. CASE CapturePush
  BY <1>0, <1>4, FaultsAreNoted DEF CapturePush, At, Goto, CanPut, Put, chan
<1>5. CASE CaptureRelease
  BY <1>0, <1>5 DEF CaptureRelease, At, Goto, chan, captureVars
<1>6. CASE CaptureExit
  BY <1>0, <1>6 DEF CaptureExit, At, Goto, Close, NoFault, captureVars
<1> QED
  BY <1>1, <1>2, <1>3, <1>4, <1>5, <1>6 DEF CameraStep, CaptureStep

LEMMA ProcessQuiet ==
    ASSUME Shapes, TypeOK, ProcessInv, ProcessStep, failed' = {},
           NeedEncode => "enc" \notin closed
    PROVE  /\ stop' = stop
           /\ "raw" \in closed' => "raw" \in closed
           /\ "enc" \in closed' => "enc" \in closed \/ pc'["process"] = "done"
           /\ pc'["process"] \in {"exit", "done"} /\ ~stop =>
                 /\ UNCHANGED items
                 /\ pc["process"] = "exit" \/ AtEnd("raw")
           /\ NeedEncode => Processed' + Len(items'["raw"]) = Processed + Len(items["raw"])
<1> DEFINE Goal ==
           /\ stop' = stop
           /\ "raw" \in closed' => "raw" \in closed
           /\ "enc" \in closed' => "enc" \in closed \/ pc'["process"] = "done"
           /\ pc'["process"] \in {"exit", "done"} /\ ~stop =>
                 /\ UNCHANGED items
                 /\ pc["process"] = "exit" \/ AtEnd("raw")
           /\ NeedEncode => Processed' + Len(items'["raw"]) = Processed + Len(items["raw"])
<1>0. /\ pc \in [Threads -> AllLabels] /\ "process" \in Threads
      /\ items \in [Queues -> Seq(1 .. CameraFrames)] /\ "raw" \in Queues /\ "enc" \in Queues
      /\ fed \in Seq(1 .. CameraFrames) /\ Len(fed) \in Nat /\ hold \in [Workers -> 0 .. CameraFrames]
      /\ Len(items["raw"]) \in Nat /\ "process" \in Workers
  BY CountsAreNumbers DEF TypeOK, Threads, Workers, Queues
<1>1. CASE \/ ProcessPopFails \/ ProcessWorkFails \/ ProcessWorkEnds \/ ProcessOsdFails
           \/ ProcessViewClosed \/ ProcessPushFails
  BY <1>1, FaultsAreNoted
  DEF ProcessPopFails, ProcessWorkFails, ProcessWorkEnds, ProcessOsdFails,
      ProcessViewClosed, ProcessPushFails, Fails
<1>2. ASSUME UNCHANGED <<items, fed>>,
             pc'["process"] \in {"work", "push"} <=> pc["process"] \in {"work", "push"}
      PROVE  Processed' + Len(items'["raw"]) = Processed + Len(items["raw"])
  <2>1. Processed' = Processed
    BY <1>2 DEF Processed, AtOneOf
  <2> QED
    BY <1>2, <2>1
<1>3. CASE ProcessHead
  BY <1>0, <1>2, <1>3 DEF ProcessHead, At, Goto, NoFault, chan
<1>4. CASE ProcessExit
  BY <1>0, <1>2, <1>4 DEF ProcessExit, At, Goto, NoFault, Close, chan
<1>5. CASE ProcessWork
  <2>1. CASE NeedEncode
    BY <1>0, <1>2, <1>5, <2>1 DEF ProcessWork, At, Goto, NoFault, chan
  <2>2. CASE ~NeedEncode
    BY <1>0, <1>5, <2>2 DEF ProcessWork, At, Goto, NoFault, chan
  <2> QED
    BY <2>1, <2>2
<1>6. CASE ProcessPop
  <2>1. CASE AtEnd("raw") /\ TellEnd("raw")
    BY <1>0, <1>2, <1>6, <2>1 DEF ProcessPop, At, AtEnd, CanTake, Goto, NoFault, TellEnd
  <2>2. CASE CanTake("raw") /\ Take("raw")
    <3>1. /\ items["raw"] # <<>> /\ items'["raw"] = Tail(items["raw"])
          /\ pc["process"] = "pop" /\ pc'["process"] = "work" /\ UNCHANGED <<fed, stop, closed>>
      BY <1>0, <1>6, <2>2 DEF ProcessPop, At, AtEnd, CanTake, Take, Goto, NoFault
    <3>2. PICK k \in Nat : Len(fed) = k
      BY <1>0
    <3>3. Processed = k + 0 /\ Processed' = k + 1
      BY <3>1, <3>2 DEF Processed, AtOneOf
    <3>4. PICK n \in Nat : Len(items["raw"]) = n
      BY <1>0
    <3>5. Len(items'["raw"]) = n - 1
      BY <1>0, <3>1, <3>4, TailTyped
    <3>6. (k + 1) + (n - 1) = (k + 0) + n
      OBVIOUS
    <3> QED
      BY <3>1, <3>3, <3>4, <3>5, <3>6
  <2> QED
    BY <1>6, <2>1, <2>2 DEF ProcessPop
<1>7. CASE ProcessPush
  <2>1. NeedEncode /\ "enc" \notin closed
    BY <1>7 DEF ProcessPush, At, ProcessInv
  <2>2. /\ pc["process"] = "push" /\ pc'["process"] = "loop" /\ UNCHANGED <<stop, closed>>
        /\ items'["raw"] = items["raw"] /\ fed' = Append(fed, hold["process"])
    BY <1>0, <1>7, <2>1 DEF ProcessPush, At, CanPut, Put, Goto, NoFault
  <2>3. hold["process"] \in 1 .. CameraFrames
    BY <1>0, <2>2 DEF ProcessInv
  <2>4. PICK k \in Nat : Len(fed) = k
    BY <1>0
  <2>5. Len(fed') = k + 1
    BY <1>0, <2>2, <2>3, <2>4, AppendTyped
  <2>6. Processed = k + 1 /\ Processed' = (k + 1) + 0
    BY <2>2, <2>4, <2>5 DEF Processed, AtOneOf
  <2>7. Processed' = Processed
    BY <2>6
  <2> QED
    BY <2>2, <2>7
<1> QED
  BY <1>1, <1>3, <1>4, <1>5, <1>6, <1>7 DEF ProcessStep

LEMMA EncodeQuiet ==
    ASSUME Shapes, TypeOK, EncodeStep, failed' = {}, "pkt" \notin closed,
           UNCHANGED <<cfg, written>>, Stays("mux")
    PROVE  /\ stop' = stop
           /\ closed' \subseteq closed \cup {"pkt"}
           /\ "pkt" \in closed' => pc'["encode"] = "done"
           /\ pc'["encode"] \in ToEnd =>
                 /\ items'["enc"] = items["enc"] /\ Taken' = Taken
                 /\ pc["encode"] \in ToEnd \/ (pc["encode"] = "pop" /\ AtEnd("enc"))
           /\ pc'["encode"] \in {"exit", "done"} =>
                 /\ pending' = pending
                 /\ pc["encode"] = "exit" \/ pending = <<>>
<1> DEFINE Goal ==
           /\ stop' = stop
           /\ closed' \subseteq closed \cup {"pkt"}
           /\ "pkt" \in closed' => pc'["encode"] = "done"
           /\ pc'["encode"] \in ToEnd =>
                 /\ items'["enc"] = items["enc"] /\ Taken' = Taken
                 /\ pc["encode"] \in ToEnd \/ (pc["encode"] = "pop" /\ AtEnd("enc"))
           /\ pc'["encode"] \in {"exit", "done"} =>
                 /\ pending' = pending
                 /\ pc["encode"] = "exit" \/ pending = <<>>
<1>0. /\ pc \in [Threads -> AllLabels] /\ "encode" \in Threads
      /\ items \in [Queues -> Seq(1 .. CameraFrames)] /\ "enc" \in Queues /\ "pkt" \in Queues
      /\ pending \in Seq(1 .. CameraFrames) /\ Len(pending) \in Nat
      /\ Packed \in Nat /\ Muxed \in Nat /\ Len(items["pkt"]) \in Nat
  BY CountsAreNumbers DEF TypeOK, Threads, Workers, Queues
<1>1. CASE EncodePopFails \/ EncodeFails \/ EncodeEnds \/ EncodePushFails \/ EncodeFlushFails
  BY <1>1, FaultsAreNoted
  DEF EncodePopFails, EncodeFails, EncodeEnds, EncodePushFails, EncodeFlushFails, Fails
<1>2. ASSUME UNCHANGED <<items, pending>>, pc["encode"] \in {"pop", "flush", "exit"},
             pc'["encode"] \in {"flush", "exit", "done"}
      PROVE  Taken' = Taken
  <2>1. Packed' = Packed
    BY <1>2, PackedKept
  <2> QED
    BY <1>2, <2>1 DEF Taken, Encoded, AtOneOf
<1>3. CASE EncodePop
  BY <1>0, <1>2, <1>3 DEF EncodePop, At, AtEnd, CanTake, Take, TellEnd, Goto, NoFault, ToEnd
<1>4. CASE EncodeOne
  BY <1>0, <1>4 DEF EncodeOne, At, Goto, NoFault, chan, ToEnd
<1>5. CASE EncodeExit
  BY <1>0, <1>2, <1>5 DEF EncodeExit, At, Goto, NoFault, Close, ToEnd
<1>6. CASE EncodeFlush
  <2>1. CASE pending = <<>>
    BY <1>0, <1>2, <1>6, <2>1 DEF EncodeFlush, At, Goto, NoFault, chan, ToEnd
  <2>2. CASE pending # <<>>
    <3>1. /\ pc["encode"] = "flush" /\ pc'["encode"] = "push_flush"
          /\ UNCHANGED <<stop, items, closed>> /\ pending' = Tail(pending)
      BY <1>0, <1>6, <2>2 DEF EncodeFlush, At, Goto, NoFault, chan
    <3>2. Packed' = Packed
      BY <3>1, PackedKept
    <3>3. PICK p \in Nat : Len(pending) = p
      BY <1>0
    <3>4. Len(pending') = p - 1
      BY <1>0, <2>2, <3>1, <3>3, TailTyped
    <3>5. Encoded = Packed + 0 /\ Encoded' = Packed + 1
      BY <3>1, <3>2 DEF Encoded, AtOneOf
    <3>6. Taken = (Packed + 0) + p + 0 /\ Taken' = (Packed + 1) + (p - 1) + 0
      BY <3>1, <3>3, <3>4, <3>5 DEF Taken, AtOneOf
    <3>7. Taken' = Taken
      BY <1>0, <3>6
    <3> QED
      BY <3>1, <3>7 DEF ToEnd
  <2> QED
    BY <2>1, <2>2
<1>7. CASE EncodePush
  <2>1. /\ pc["encode"] \in {"push", "push_flush"}
        /\ pc'["encode"] = (IF pc["encode"] = "push" THEN "pop" ELSE "flush")
        /\ UNCHANGED <<stop, closed, pending>> /\ items'["enc"] = items["enc"]
        /\ items'["pkt"] = Append(items["pkt"], hold["encode"])
    BY <1>0, <1>7 DEF EncodePush, At, CanPut, Put, Goto, NoFault
  <2>2. Len(items'["pkt"]) = Len(items["pkt"]) + 1
    BY <1>0, <2>1
  <2>3. PICK n \in Nat : Len(items["pkt"]) = n
    BY <1>0
  <2>4. Muxed' = Muxed
    BY MuxedKept
  <2>5. Packed = Muxed + n /\ Packed' = Muxed + (n + 1)
    BY <2>2, <2>3, <2>4 DEF Packed
  <2>6. Encoded = (Muxed + n) + 1 /\ Encoded' = (Muxed + (n + 1)) + 0
    BY <2>1, <2>5 DEF Encoded, AtOneOf
  <2>7. Encoded' = Encoded
    BY <1>0, <2>6
  <2>8. Taken' = Taken
    BY <2>1, <2>7 DEF Taken, AtOneOf
  <2> QED
    BY <2>1, <2>8 DEF ToEnd
<1> QED
  BY <1>1, <1>3, <1>4, <1>5, <1>6, <1>7 DEF EncodeStep

LEMMA MuxQuiet ==
    ASSUME Shapes, MuxStep, failed' = {}
    PROVE  /\ UNCHANGED <<stop, closed>>
           /\ "pkt" \in closed /\ items["pkt"] = <<>> => items'["pkt"] = <<>>
           /\ pc'["mux"] \in {"finish", "done"} =>
                 /\ UNCHANGED <<written, items>>
                 /\ pc["mux"] = "finish" \/ (pc["mux"] = "pop" /\ AtEnd("pkt"))
<1> DEFINE Goal ==
           /\ UNCHANGED <<stop, closed>>
           /\ "pkt" \in closed /\ items["pkt"] = <<>> => items'["pkt"] = <<>>
           /\ pc'["mux"] \in {"finish", "done"} =>
                 /\ UNCHANGED <<written, items>>
                 /\ pc["mux"] = "finish" \/ (pc["mux"] = "pop" /\ AtEnd("pkt"))
<1>0. pc \in [Threads -> AllLabels] /\ "mux" \in Threads
  BY DEF Shapes, Threads, Workers
<1>1. ASSUME NEW m \in Muxers,
             MuxOpenFails(m) \/ MuxHeaderFails(m) \/ MuxWriteFails(m) \/ MuxWriteEnds(m)
      PROVE  Goal
  BY <1>1, FaultsAreNoted DEF MuxOpenFails, MuxHeaderFails, MuxWriteFails, MuxWriteEnds, Fails
<1>2. ASSUME NEW m \in Muxers, MuxOpen(m) \/ MuxHeader(m) \/ MuxWrite(m) PROVE Goal
  BY <1>0, <1>2 DEF MuxOpen, MuxHeader, MuxWrite, HeaderLabel, At, Goto, NoFault, chan
<1>3. CASE MuxPopFails
  BY <1>3, FaultsAreNoted DEF MuxPopFails, Fails
<1>4. CASE MuxPop
  BY <1>0, <1>4 DEF MuxPop, At, AtEnd, CanTake, Take, TellEnd, Goto, NoFault, muxVars
<1>5. CASE MuxTrailer \/ MuxClose
  BY <1>0, <1>5, FaultsAreNoted DEF MuxTrailer, MuxClose, At, Goto, NoFault, chan
<1> QED
  BY <1>1, <1>2, <1>3, <1>4, <1>5 DEF MuxStep

-----------------------------------------------------------------------------
(* The inductive invariant for a run without failures.                     *)

LosslessInv == failed = {} => Lossless

LEMMA LosslessStarts == Init => LosslessInv
<1> SUFFICES ASSUME Init PROVE Lossless
  BY DEF LosslessInv
<1>1. /\ \A t \in Workers : pc[t] = "none" /\ todo[t] = {}
      /\ pc["main"] = "init" /\ todo["main"] = {}
  BY DEF Init, Threads, Workers
<1>2. closed = {} /\ started = {} /\ pushed = "none"
  BY DEF Init
<1> QED
  BY <1>1, <1>2
  DEF Lossless, ClosedByWriter, EndsEmpty, NothingMissing, ToEnd, Leaving, Workers

LEMMA FailuresStay == ControlInv /\ [Next]_vars => failed \subseteq failed'
<1> SUFFICES ASSUME ControlInv, [Next]_vars PROVE failed \subseteq failed'
  OBVIOUS
<1>0. Shapes /\ TypeOK
  BY TypesGiveShapes DEF ControlInv
<1>1. CASE CameraStep \/ CaptureStep
  BY <1>0, <1>1, CaptureMoves DEF Moves
<1>2. CASE ProcessStep
  BY <1>0, <1>2, ProcessMoves DEF Moves
<1>3. CASE EncodeStep
  BY <1>0, <1>3, EncodeMoves DEF Moves
<1>4. CASE MuxStep
  BY <1>0, <1>4, MuxMoves DEF Moves
<1>5. CASE MainStep \/ MainSignal
  BY <1>0, <1>5, MainMoves
<1>6. ASSUME NEW t \in Threads, CloseNext(t) PROVE failed \subseteq failed'
  BY <1>6 DEF CloseNext
<1>7. CASE UNCHANGED vars
  BY <1>7 DEF vars
<1> QED
  BY <1>1, <1>2, <1>3, <1>4, <1>5, <1>6, <1>7 DEF Next, Terminated

\* A worker closes no queue but its own, and that only when it is done.
LEMMA WorkersKeepQueues ==
    ASSUME TypeOK, ClosedByWriter, NEW t \in Workers, Moves(t), failed' = {},
           pushed # "ERROR", stop' = stop,
           "raw" \in closed' => "raw" \in closed \/ pc'["capture"] = "done",
           "enc" \in closed' => "enc" \in closed \/ pc'["process"] = "done",
           "pkt" \in closed' => "pkt" \in closed \/ pc'["encode"] = "done"
    PROVE  ClosedByWriter'
<1>1. /\ todo' = todo /\ pc'["main"] = pc["main"] /\ UNCHANGED <<cfg, started>>
      /\ \A u \in Workers : pc[u] = "done" => pc'[u] = "done"
      /\ \A u \in Workers : pc[u] # "none" => pc'[u] # "none"
  BY DEF Moves, TypeOK, Workers, Threads
<1>2. NeedEncode' = NeedEncode /\ Wanted' = Wanted /\ Wanted \subseteq Workers
  BY <1>1, ConfigurationStays, ConfiguredAre
<1> QED
  BY <1>1, <1>2 DEF ClosedByWriter, Workers

\* A step that moves no frame and ends no worker.
LEMMA EndsKept ==
    ASSUME EndsEmpty, NothingMissing, \A t \in Workers : Stays(t),
           UNCHANGED <<cfg, items, pending, taken, pushed, written, fed>>,
           closed \subseteq closed', stop => stop'
    PROVE  EndsEmpty' /\ NothingMissing'
<1>1. \A t \in Workers : pc'[t] = pc[t] \/ (pc[t] = "none" /\ pc'[t] = StartLabel[t])
  BY DEF Stays
<1>2. /\ pc'["process"] \in {"exit", "done"} => pc["process"] = pc'["process"]
      /\ pc'["encode"] \in ToEnd => pc["encode"] = pc'["encode"]
      /\ pc'["mux"] \in {"finish", "done"} => pc["mux"] = pc'["mux"]
      /\ pc'["capture"] \in {"release", "exit", "done"} => pc["capture"] = pc'["capture"]
      /\ pc'["process"] \in {"work", "push"} <=> pc["process"] \in {"work", "push"}
  BY <1>1 DEF StartLabel, Workers, ToEnd
<1>3. EndsEmpty'
  BY <1>2 DEF EndsEmpty, ToEnd
<1>4. NeedEncode' = NeedEncode /\ Processed' = Processed
  BY <1>2, ConfigurationStays DEF Processed, AtOneOf
<1>5. Stays("mux") /\ Packed' = Packed
  BY PackedKept DEF Workers
<1>6. pc'["encode"] \in ToEnd => Taken' = Taken
  BY <1>2, <1>5 DEF Taken, Encoded, AtOneOf
<1>7. NothingMissing'
  BY <1>2, <1>4, <1>6 DEF NothingMissing
<1> QED
  BY <1>3, <1>7

LEMMA CaptureKeepsLossless ==
    ASSUME ControlInv, OrderInv, Lossless, CameraStep \/ CaptureStep, failed' = {}
    PROVE  Lossless'
<1>0. /\ TypeOK /\ ThreadsInv /\ Shapes /\ FedInv /\ ClosedByWriter /\ EndsEmpty
      /\ NothingMissing /\ pushed # "ERROR"
  BY TypesGiveShapes DEF ControlInv, OrderInv, Lossless, NothingMissing
<1>1. /\ Moves("capture") /\ Touches({"raw"}) /\ "capture" \in Workers
      /\ UNCHANGED <<pending, opened, header, written, trailers, fed>>
  BY <1>0, CaptureMoves DEF Workers
<1>2. /\ pc'["process"] = pc["process"] /\ pc'["encode"] = pc["encode"]
      /\ pc'["mux"] = pc["mux"] /\ Stays("mux") /\ UNCHANGED cfg
      /\ items'["enc"] = items["enc"] /\ items'["pkt"] = items["pkt"]
      /\ closed \subseteq closed' /\ closed' \subseteq closed \cup {"raw"}
      /\ pc["capture"] \notin {"none", "done"}
  BY <1>0, <1>1 DEF Moves, Touches, TypeOK, Threads, Workers, Queues, Stays
<1>3. /\ stop' = stop /\ pushed' # "ERROR"
      /\ "raw" \in closed => items'["raw"] = items["raw"]
      /\ "raw" \in closed' => "raw" \in closed \/ pc'["capture"] = "done"
      /\ pc'["capture"] = "release" => pushed' = "OK" \/ "raw" \in closed
      /\ pc'["capture"] \in {"exit", "done"} /\ ~stop =>
            /\ UNCHANGED <<items, taken>>
            /\ \/ pc["capture"] = "exit"
               \/ pc["capture"] = "release" /\ pushed \in {"OK", "EOF"}
  BY <1>0, CaptureQuiet
<1>4. ClosedByWriter'
  BY <1>0, <1>1, <1>2, <1>3, WorkersKeepQueues
<1>5. EndsEmpty'
  BY <1>0, <1>1, <1>2, <1>3 DEF EndsEmpty
<1>6. NeedEncode' = NeedEncode /\ Processed' = Processed /\ Packed' = Packed
  BY <1>1, <1>2, ConfigurationStays, PackedKept DEF Processed, AtOneOf
<1>7. Taken' = Taken
  BY <1>1, <1>2, <1>6 DEF Taken, Encoded, AtOneOf
<1>8. "raw" \in closed => stop
  BY <1>0, <1>2 DEF ClosedByWriter
<1>9. ASSUME NeedEncode, ~stop, pc'["capture"] \in {"exit", "done"}
      PROVE  Processed + Len(items["raw"]) = taken
  <2>1. CASE pc["capture"] = "exit"
    BY <1>0, <1>9, <2>1 DEF NothingMissing
  <2>2. CASE pc["capture"] = "release"
    <3>1. pushed = "OK"
      BY <1>0, <1>9, <2>2 DEF NothingMissing
    <3>2. pc["process"] \notin {"exit", "done"}
      BY <1>0, <1>8, <1>9 DEF EndsEmpty
    <3>3. ~TakenDown
      BY <1>0, <1>1, RunningMeansNotDown
    <3> QED
      BY <1>0, <1>9, <2>2, <3>1, <3>2, <3>3 DEF FedInv
  <2> QED
    BY <1>3, <1>9, <2>1, <2>2
<1>10. NothingMissing'
  BY <1>0, <1>1, <1>2, <1>3, <1>6, <1>7, <1>8, <1>9 DEF NothingMissing
<1> QED
  BY <1>4, <1>5, <1>10 DEF Lossless

LEMMA ProcessKeepsLossless ==
    ASSUME ControlInv, Lossless, ProcessStep, failed' = {}
    PROVE  Lossless'
<1>0. /\ TypeOK /\ ThreadsInv /\ ProcessInv /\ Shapes /\ ClosedByWriter /\ EndsEmpty
      /\ NothingMissing /\ pushed # "ERROR"
  BY TypesGiveShapes DEF ControlInv, WorkersInv, Lossless, NothingMissing
<1>1. /\ Moves("process") /\ Touches({"raw", "enc"}) /\ "process" \in Workers
      /\ UNCHANGED <<warm, taken, pushed, pending, opened, header, written, trailers>>
  BY <1>0, ProcessMoves DEF Workers
<1>2. /\ pc'["capture"] = pc["capture"] /\ pc'["encode"] = pc["encode"]
      /\ pc'["mux"] = pc["mux"] /\ UNCHANGED cfg /\ items'["pkt"] = items["pkt"]
      /\ closed \subseteq closed' /\ closed' \subseteq closed \cup {"raw", "enc"}
      /\ pc["process"] \notin {"none", "done"}
  BY <1>0, <1>1 DEF Moves, Touches, TypeOK, Threads, Workers, Queues
<1>3. NeedEncode => "enc" \notin closed
  BY <1>0, <1>2 DEF ClosedByWriter
<1>4. /\ stop' = stop
      /\ "raw" \in closed' => "raw" \in closed
      /\ "enc" \in closed' => "enc" \in closed \/ pc'["process"] = "done"
      /\ pc'["process"] \in {"exit", "done"} /\ ~stop =>
            /\ UNCHANGED items
            /\ pc["process"] = "exit" \/ AtEnd("raw")
      /\ NeedEncode => Processed' + Len(items'["raw"]) = Processed + Len(items["raw"])
  BY <1>0, <1>3, ProcessQuiet
<1>5. ClosedByWriter'
  BY <1>0, <1>1, <1>2, <1>4, WorkersKeepQueues
<1>6. pc["encode"] \notin ToEnd
  <2>1. pc["encode"] \in ToEnd => "encode" \in Wanted
    BY <1>0 DEF ThreadsInv, Workers, ToEnd
  <2>2. "encode" \in Wanted => NeedEncode
    BY DEF Wanted
  <2> QED
    BY <1>0, <1>3, <2>1, <2>2 DEF EndsEmpty
<1>7. EndsEmpty'
  BY <1>0, <1>1, <1>2, <1>4, <1>6 DEF EndsEmpty, AtEnd, ToEnd
<1>8. NothingMissing'
  BY <1>0, <1>1, <1>2, <1>4, <1>6, ConfigurationStays DEF NothingMissing
<1> QED
  BY <1>5, <1>7, <1>8 DEF Lossless

LEMMA EncodeKeepsLossless ==
    ASSUME ControlInv, OrderInv, Lossless, EncodeStep, failed' = {}
    PROVE  Lossless'
<1>0. /\ TypeOK /\ ThreadsInv /\ Shapes /\ EncoderInv /\ ClosedByWriter /\ EndsEmpty
      /\ NothingMissing /\ pushed # "ERROR"
  BY TypesGiveShapes DEF ControlInv, OrderInv, Lossless, NothingMissing
<1>1. /\ Moves("encode") /\ Touches({"enc", "pkt"}) /\ "encode" \in Workers
      /\ UNCHANGED <<warm, taken, pushed, fed, opened, header, written, trailers>>
  BY <1>0, EncodeMoves DEF Workers
<1>2. /\ pc'["capture"] = pc["capture"] /\ pc'["process"] = pc["process"]
      /\ pc'["mux"] = pc["mux"] /\ Stays("mux") /\ UNCHANGED cfg /\ items'["raw"] = items["raw"]
      /\ closed \subseteq closed' /\ pc["encode"] \notin {"none", "done"} /\ todo["encode"] = {}
  BY <1>0, <1>1 DEF Moves, Touches, TypeOK, Threads, Workers, Queues, Stays
<1>3. NeedEncode /\ "pkt" \notin closed
  BY <1>0, <1>1, <1>2, MuxNeedsEncode DEF ClosedByWriter
<1>4. /\ stop' = stop
      /\ closed' \subseteq closed \cup {"pkt"}
      /\ "pkt" \in closed' => pc'["encode"] = "done"
      /\ pc'["encode"] \in ToEnd =>
            /\ items'["enc"] = items["enc"] /\ Taken' = Taken
            /\ pc["encode"] \in ToEnd \/ (pc["encode"] = "pop" /\ AtEnd("enc"))
      /\ pc'["encode"] \in {"exit", "done"} =>
            /\ pending' = pending
            /\ pc["encode"] = "exit" \/ pending = <<>>
  BY <1>0, <1>1, <1>2, <1>3, EncodeQuiet
<1>5. ClosedByWriter'
  BY <1>0, <1>1, <1>2, <1>4, WorkersKeepQueues
<1>6. pc["mux"] \notin {"finish", "done"}
  BY <1>0, <1>3 DEF EndsEmpty
<1>7. EndsEmpty'
  BY <1>0, <1>2, <1>4, <1>6 DEF EndsEmpty, AtEnd
<1>8. ASSUME pc'["encode"] \in ToEnd PROVE Taken = Len(fed)
  <2>1. CASE pc["encode"] \in ToEnd
    BY <1>0, <2>1 DEF NothingMissing
  <2>2. CASE pc["encode"] = "pop" /\ AtEnd("enc")
    <3>1. EncodeGoesOn /\ ~TakenDown
      BY <1>0, <1>1, <1>2, <1>3, <1>6, RunningMeansNotDown DEF EncodeGoesOn, MuxGoesOn
    <3>2. Taken + Len(items["enc"]) = Len(fed) /\ items["enc"] = <<>>
      BY <1>0, <2>2, <3>1 DEF EncoderInv, AtEnd
    <3>3. Taken \in Nat /\ Len(<<>>) = 0
      BY <1>0, CountsAreNumbers
    <3>4. Taken + 0 = Len(fed)
      BY <3>2, <3>3
    <3> QED
      BY <3>3, <3>4
  <2> QED
    BY <1>4, <1>8, <2>1, <2>2
<1>9. Processed' = Processed /\ NeedEncode' = NeedEncode
  BY <1>1, <1>2, ConfigurationStays DEF Processed, AtOneOf
<1>10. NothingMissing'
  BY <1>0, <1>1, <1>2, <1>4, <1>6, <1>8, <1>9 DEF NothingMissing
<1> QED
  BY <1>5, <1>7, <1>10 DEF Lossless

LEMMA MuxKeepsLossless ==
    ASSUME ControlInv, OrderInv, Lossless, MuxStep, failed' = {}
    PROVE  Lossless'
<1>0. /\ TypeOK /\ ThreadsInv /\ Shapes /\ MuxInv /\ TrailersInv /\ WrittenInv /\ PacketsInv
      /\ ClosedByWriter /\ EndsEmpty /\ NothingMissing /\ pushed # "ERROR"
  BY TypesGiveShapes DEF ControlInv, WorkersInv, OrderInv, Lossless, NothingMissing
<1>1. /\ Moves("mux") /\ Touches({"pkt"}) /\ "mux" \in Workers
      /\ UNCHANGED <<warm, taken, pushed, fed, pending>>
  BY <1>0, MuxMoves DEF Workers
<1>2. /\ pc'["capture"] = pc["capture"] /\ pc'["process"] = pc["process"]
      /\ pc'["encode"] = pc["encode"] /\ UNCHANGED cfg
      /\ items'["raw"] = items["raw"] /\ items'["enc"] = items["enc"]
  BY <1>0, <1>1 DEF Moves, Touches, TypeOK, Threads, Workers, Queues
<1>3. /\ UNCHANGED <<stop, closed>>
      /\ "pkt" \in closed /\ items["pkt"] = <<>> => items'["pkt"] = <<>>
      /\ pc'["mux"] \in {"finish", "done"} =>
            /\ UNCHANGED <<written, items>>
            /\ pc["mux"] = "finish" \/ (pc["mux"] = "pop" /\ AtEnd("pkt"))
  BY <1>0, MuxQuiet
<1>4. ClosedByWriter'
  BY <1>0, <1>1, <1>3, WorkersKeepQueues
<1>5. EndsEmpty'
  BY <1>0, <1>1, <1>2, <1>3 DEF EndsEmpty, AtEnd
<1>6. Packed' = Packed
  <2>1. CASE MuxGoesOn'
    BY <1>0, <1>1, <2>1, RunningMeansNotDown, MuxNeedsEncode, MuxOrder DEF Moves
  <2>2. CASE ~MuxGoesOn'
    <3>1. /\ UNCHANGED <<written, items>> /\ First' = First
          /\ pc["mux"] # WriteLabel(First) /\ pc'["mux"] # WriteLabel(First)
      BY <1>2, <1>3, <2>2 DEF MuxGoesOn, First, WriteLabel
    <3>2. WriteLabel(First)' = WriteLabel(First)
      BY <3>1 DEF WriteLabel
    <3> QED
      BY <3>1, <3>2 DEF Packed, Muxed, AtOneOf
  <2> QED
    BY <2>1, <2>2
<1>7. Taken' = Taken /\ Processed' = Processed /\ NeedEncode' = NeedEncode
  BY <1>1, <1>2, <1>6, ConfigurationStays DEF Taken, Encoded, Processed, AtOneOf
<1>8. ASSUME cfg.record, cfg.rtsp, pc'["mux"] \in {"finish", "done"}
      PROVE  Len(written["record"]) = Len(written["rtsp"]) /\ UNCHANGED written
  BY <1>0, <1>3, <1>8 DEF NothingMissing, WrittenInv
<1>9. NothingMissing'
  BY <1>0, <1>1, <1>2, <1>3, <1>7, <1>8 DEF NothingMissing
<1> QED
  BY <1>4, <1>5, <1>9 DEF Lossless

\* When all threads are joined, they are done.
LEMMA JoinedMeansDone ==
    ASSUME ThreadsInv, ClosedByWriter, pc["main"] \in Leaving
    PROVE  stop /\ \A t \in Wanted : pc[t] = "done" /\ t \in Workers
  BY ConfiguredAre DEF ThreadsInv, ClosedByWriter, Leaving

LEMMA MainKeepsLossless ==
    ASSUME ControlInv, Lossless, MainStep \/ MainSignal, failed' = {}
    PROVE  Lossless'
<1>0. /\ TypeOK /\ ThreadsInv /\ Shapes /\ ClosedByWriter /\ EndsEmpty /\ NothingMissing
      /\ pc \in [Threads -> AllLabels] /\ todo \in [Threads -> SUBSET Queues]
      /\ "main" \in Threads /\ Workers \subseteq Threads /\ "main" \notin Workers
      /\ Wanted \subseteq Workers /\ items \in [Queues -> Seq(1 .. CameraFrames)]
  BY TypesGiveShapes, ConfiguredAre DEF ControlInv, Lossless, TypeOK, Threads, Workers
<1>1. /\ \A t \in Workers : todo'[t] = todo[t]
      /\ ~MainCreate => \A t \in Workers : pc'[t] = pc[t]
      /\ ~MainTeardown => UNCHANGED items
      /\ closed \subseteq closed' /\ closed' \subseteq closed \cup {"raw"}
      /\ UNCHANGED <<cfg, hold, ended, warm, taken, pushed, pending, opened, header,
                     written, trailers, fed>>
  BY <1>0, MainMoves
<1>2. /\ NeedEncode' = NeedEncode /\ Wanted' = Wanted
  BY <1>1, ConfigurationStays
<1>3. ASSUME \A t \in Workers : Stays(t), UNCHANGED items, stop => stop', ClosedByWriter'
      PROVE  Lossless'
  BY <1>0, <1>1, <1>3, EndsKept DEF Lossless
<1>4. ASSUME \A t \in Workers : pc'[t] = pc[t], UNCHANGED <<items, closed>>, stop => stop',
             todo'["main"] # {} => pc'["main"] = "deinit_join",
             pc'["main"] \in {"stop_stream", "stop_raw", "wait"} \cup Leaving => stop',
             pc'["main"] \in {"init", "open", "stream", "create"}
                \/ \A t \in Wanted : pc[t] # "none",
             pc'["main"] \in Leaving => started' = {}
      PROVE  Lossless'
  <2>1. ClosedByWriter'
    BY <1>0, <1>1, <1>2, <1>4 DEF ClosedByWriter, Workers
  <2> QED
    BY <1>3, <1>4, <2>1 DEF Stays
<1>5. ASSUME NEW here, NEW f, MainGivesUp(here, f) PROVE FALSE
  BY <1>5, FaultsAreNoted DEF MainGivesUp
<1>6. CASE MainCreateFails
  BY <1>6, FaultsAreNoted DEF MainCreateFails
<1>7. CASE MainInit \/ MainOpen \/ MainStream
  BY <1>0, <1>1, <1>4, <1>7
  DEF MainInit, MainOpen, MainStream, At, Goto, NoFault, chan, ClosedByWriter, Leaving
<1>8. CASE MainCreate
  <2>1. PICK t \in Wanted \ started :
           /\ t \in Workers /\ pc[t] = "none"
           /\ started' = started \cup {t}
           /\ pc' = [pc EXCEPT ![t] = StartLabel[t],
                               !["main"] = IF started' = Wanted THEN "signal" ELSE "create"]
           /\ NoFault
           /\ UNCHANGED chan
    BY <1>0, <1>8, CreateStarts
  <2>2. /\ pc'["main"] = (IF started' = Wanted THEN "signal" ELSE "create")
        /\ pc'[t] = StartLabel[t] /\ \A u \in Workers \ {t} : pc'[u] = pc[u]
        /\ UNCHANGED <<todo, stop, items, closed>>
    BY <1>0, <2>1 DEF NoFault, chan
  <2>3. \A u \in Workers : Stays(u)
    BY <2>1, <2>2 DEF Stays
  <2>4. \A u \in started \cup {t} : pc'[u] # "none"
    <3>1. StartLabel[t] # "none"
      BY <2>1 DEF StartLabel, Workers
    <3>2. started \subseteq Workers
      BY <1>0 DEF TypeOK
    <3> QED
      BY <1>0, <2>1, <2>2, <3>1, <3>2 DEF ThreadsInv
  <2>5. todo["main"] = {}
    BY <1>8 DEF MainCreate, At
  <2>6. ClosedByWriter'
    BY <1>0, <1>2, <2>1, <2>2, <2>4, <2>5 DEF ClosedByWriter, Leaving, Workers
  <2> QED
    BY <1>3, <2>2, <2>3, <2>6
<1>9. CASE MainSignal \/ MainStop \/ MainStopStream
  BY <1>0, <1>1, <1>4, <1>9
  DEF MainSignal, MainStop, MainStopStream, At, Goto, NoFault, chan, mainVars, ClosedByWriter,
      Leaving
<1>10. CASE MainStopRaw
  <2>1. /\ pc["main"] = "stop_raw" /\ pc'["main"] = "wait" /\ stop
        /\ UNCHANGED <<stop, todo, started, items>> /\ closed' = closed \cup {"raw"}
        /\ todo["main"] = {}
    BY <1>0, <1>10 DEF MainStopRaw, At, Goto, NoFault, Close, mainVars, ClosedByWriter
  <2>2. ClosedByWriter'
    BY <1>0, <1>1, <1>2, <1>10, <2>1 DEF ClosedByWriter, Leaving, Workers, MainStopRaw, MainCreate, At
  <2> QED
    BY <1>1, <1>3, <2>1, <2>2 DEF Stays, MainCreate, At
<1>11. CASE MainJoin
  BY <1>0, <1>1, <1>4, <1>11
  DEF MainJoin, At, NoFault, chan, ClosedByWriter, Leaving
<1>12. CASE MainWaited
  BY <1>0, <1>1, <1>4, <1>12
  DEF MainWaited, At, Goto, NoFault, chan, ClosedByWriter, Leaving
<1>13. CASE MainDeinit
  BY <1>0, <1>1, <1>4, <1>13
  DEF MainDeinit, At, Goto, RequestStop, chan, mainVars, ClosedByWriter, Leaving
<1>14. CASE MainCloseCamera \/ MainExit
  BY <1>0, <1>1, <1>4, <1>14
  DEF MainCloseCamera, MainExit, At, Goto, NoFault, chan, mainVars, ClosedByWriter, Leaving
<1>15. CASE MainTeardown
  <2>1. /\ pc["main"] = "teardown" /\ UNCHANGED <<pc, stop, todo, closed, started>>
        /\ \A c \in Queues : items'[c] = <<>> \/ items'[c] = items[c]
    BY <1>0, <1>15 DEF MainTeardown, At, NoFault
  <2>2. ClosedByWriter'
    BY <1>0, <1>2, <2>1 DEF ClosedByWriter
  <2>3. stop /\ \A t \in Wanted : pc[t] = "done"
    BY <1>0, <2>1, JoinedMeansDone DEF Leaving
  <2>4. EndsEmpty'
    BY <1>0, <1>1, <2>1, <2>3 DEF EndsEmpty, Queues
  <2>5. ASSUME pc["encode"] \in ToEnd PROVE Taken' = Taken
    <3>1. "encode" \in Wanted
      BY <1>0, <2>5 DEF ThreadsInv, ToEnd, Workers
    <3>2. pc["mux"] = "done"
      BY <2>3, <3>1 DEF Wanted, Workers
    <3>3. items'["pkt"] = items["pkt"]
      BY <1>0, <2>1, <3>2 DEF EndsEmpty, Queues
    <3>4. Packed' = Packed
      BY <1>1, <2>1, <3>3, PackedKept DEF Stays
    <3> QED
      BY <1>1, <2>1, <3>4 DEF Taken, Encoded, AtOneOf
  <2>6. NothingMissing'
    BY <1>0, <1>1, <2>1, <2>3, <2>5 DEF NothingMissing
  <2> QED
    BY <2>2, <2>4, <2>6 DEF Lossless
<1> QED
  BY <1>5, <1>6, <1>7, <1>8, <1>9, <1>10, <1>11, <1>12, <1>13, <1>14, <1>15 DEF MainStep

LEMMA CloseKeepsLossless ==
    ASSUME ControlInv, Lossless, NEW t \in Threads, CloseNext(t)
    PROVE  Lossless'
<1>0. TypeOK /\ ThreadsInv /\ ClosedByWriter /\ EndsEmpty /\ NothingMissing
  BY DEF ControlInv, Lossless
<1>1. PICK c \in todo[t] :
         /\ closed' = closed \cup {c}
         /\ todo' = [todo EXCEPT ![t] = todo[t] \ {c}]
         /\ c \in Queues /\ todo \in [Threads -> SUBSET Queues]
         /\ UNCHANGED <<cfg, stop, error, pc, items, ended, hold, started, live,
                        streaming, code, warm, taken, pushed, pending, opened, header,
                        written, trailers, fed, failed>>
  BY <1>0, CloseControl
<1>2. t = "main" /\ pc["main"] = "deinit_join"
  BY <1>0, <1>1 DEF ClosedByWriter, Threads
<1>3. stop /\ \A u \in Wanted : pc[u] = "done"
  BY <1>0, <1>2, JoinedMeansDone DEF Leaving
<1>4. NeedEncode => pc["process"] = "done" /\ pc["encode"] = "done"
  BY <1>3 DEF Wanted, Workers
<1>5. NeedEncode' = NeedEncode /\ Wanted' = Wanted
  BY <1>1, ConfigurationStays
<1>6. \A u \in Workers : todo'[u] = todo[u]
  BY <1>1, <1>2 DEF Workers, Threads
<1>7. ClosedByWriter'
  BY <1>0, <1>1, <1>2, <1>3, <1>4, <1>5, <1>6 DEF ClosedByWriter
<1>8. EndsEmpty' /\ NothingMissing'
  BY <1>0, <1>1, EndsKept DEF Stays
<1> QED
  BY <1>7, <1>8 DEF Lossless

LEMMA LosslessStays == ControlInv /\ OrderInv /\ LosslessInv /\ [Next]_vars => LosslessInv'
<1> SUFFICES ASSUME ControlInv, OrderInv, LosslessInv, [Next]_vars, failed' = {}
             PROVE  Lossless'
  BY DEF LosslessInv
<1>0. Lossless
  BY FailuresStay DEF LosslessInv
<1>1. CASE CameraStep \/ CaptureStep
  BY <1>0, <1>1, CaptureKeepsLossless
<1>2. CASE ProcessStep
  BY <1>0, <1>2, ProcessKeepsLossless
<1>3. CASE EncodeStep
  BY <1>0, <1>3, EncodeKeepsLossless
<1>4. CASE MuxStep
  BY <1>0, <1>4, MuxKeepsLossless
<1>5. CASE MainStep \/ MainSignal
  BY <1>0, <1>5, MainKeepsLossless
<1>6. ASSUME NEW t \in Threads, CloseNext(t) PROVE Lossless'
  BY <1>0, <1>6, CloseKeepsLossless
<1>7. CASE UNCHANGED vars
  BY <1>0, <1>7
  DEF vars, chan, mainVars, captureVars, muxVars, Lossless, ClosedByWriter, EndsEmpty, NothingMissing, NeedEncode, Wanted,
      Processed, Taken, Encoded, Packed, Muxed, First, WriteLabel, AtOneOf
<1> QED
  BY <1>1, <1>2, <1>3, <1>4, <1>5, <1>6, <1>7 DEF Next, Terminated

\* Property NothingLost: without a failure everything that the encode queue took is
\* in every output when the mux thread is done, and everything that the camera gave
\* got there when nobody asked for a stop.
THEOREM NoFrameIsLost == Spec => []NothingLost
<1>1. ControlInv /\ OrderInv /\ LosslessInv => NothingLost
  <2> SUFFICES ASSUME ControlInv, OrderInv, LosslessInv, failed = {}
               PROVE  /\ pc["mux"] = "done" => \A m \in Outputs : written[m] = fed
                      /\ pc["process"] = "done" /\ NeedEncode /\ ~stop =>
                            fed = [i \in 1 .. taken |-> i]
    BY DEF NothingLost
  <2>0. /\ TypeOK /\ ThreadsInv /\ ClosedByWriter /\ EndsEmpty /\ NothingMissing
        /\ WrittenInv /\ Numbered(fed, 0)
    BY DEF ControlInv, OrderInv, FedInv, LosslessInv, Lossless
  <2>1. /\ fed \in Seq(1 .. CameraFrames) /\ Len(fed) \in Nat
        /\ written \in [Muxers -> Seq(1 .. CameraFrames)]
        /\ \A m \in Muxers : Len(written[m]) \in Nat
        /\ Muxed \in Nat /\ Len(<<>>) = 0 /\ First \in Muxers
    BY <2>0, CountsAreNumbers DEF TypeOK
  <2>2. ASSUME pc["mux"] = "done", NEW m \in Outputs PROVE written[m] = fed
    <3>1. m \in Muxers /\ NeedEncode
      BY DEF Outputs, NeedEncode, Muxers
    <3>2. "pkt" \in closed /\ items["pkt"] = <<>>
      BY <2>0, <2>2 DEF EndsEmpty
    <3>3. pc["encode"] = "done"
      BY <2>0, <3>1, <3>2 DEF ClosedByWriter
    <3>4. pending = <<>> /\ Taken = Len(fed)
      BY <2>0, <3>3 DEF EndsEmpty, NothingMissing, ToEnd
    <3>5. Packed = Muxed + 0 /\ Encoded = Packed + 0 /\ Taken = Encoded + 0 + 0
      BY <2>1, <3>2, <3>3, <3>4 DEF Packed, Encoded, Taken, AtOneOf
    <3>6. Muxed = Len(written[First]) + 0
      BY <2>2 DEF Muxed, AtOneOf, WriteLabel
    <3>7. Len(written[First]) = Len(fed)
      BY <2>1, <3>4, <3>5, <3>6
    <3>8. Len(written[m]) = Len(written[First])
      BY <2>0, <2>2 DEF NothingMissing, First, Outputs, Muxers
    <3>9. \A i \in 1 .. Len(fed) : written[m][i] = fed[i]
      BY <2>0, <2>1, <3>1, <3>7, <3>8 DEF WrittenInv, Numbered
    <3> QED
      BY <2>1, <3>1, <3>7, <3>8, <3>9
  <2>3. ASSUME pc["process"] = "done", NeedEncode, ~stop
        PROVE  fed = [i \in 1 .. taken |-> i]
    <3>1. "raw" \in closed /\ items["raw"] = <<>>
      BY <2>0, <2>3 DEF EndsEmpty
    <3>2. pc["capture"] = "done"
      BY <2>0, <2>3, <3>1 DEF ClosedByWriter
    <3>3. Processed + Len(items["raw"]) = taken /\ Processed = Len(fed) + 0
      BY <2>0, <2>3, <3>2 DEF NothingMissing, Processed, AtOneOf
    <3>4. Len(fed) = taken
      <4>1. Processed + 0 = taken
        BY <2>1, <3>1, <3>3
      <4> QED
        BY <2>1, <3>3, <4>1
    <3>5. \A i \in 1 .. Len(fed) : fed[i] = i
      BY <2>0, <2>1 DEF Numbered
    <3> QED
      BY <2>1, <3>4, <3>5
  <2> QED
    BY <2>2, <2>3
<1>2. Spec => []LosslessInv
  BY LosslessStarts, LosslessStays, ControlHolds, OrderHolds, PTL DEF Spec
<1> QED
  BY <1>1, <1>2, ControlHolds, OrderHolds, PTL

=============================================================================
