---------------------------- MODULE PipelineProofs ----------------------------
(***************************************************************************)
(* Theorems about the threads and the components of the pipeline, for      *)
(* every configuration, every bound and every choice of failures: the      *)
(* types, what outlives what, how an output is finished, how the queues    *)
(* are used, and what main returns.                                        *)
(*                                                                         *)
(* The argument: a worker runs only between its creation and its join;     *)
(* while a thread is not joined, everything the configuration asks for     *)
(* exists; so AppPipeline_Deinit, which joins first, takes nothing down    *)
(* that is in use.  ControlInv says where each thread is when.  A step of  *)
(* a worker is summed up by two facts, Moves and Touches, which is all     *)
(* that the other threads' invariants ask of it.                           *)
(***************************************************************************)
EXTENDS Pipeline, WellFoundedInduction, TLAPS

-----------------------------------------------------------------------------
(* The invariant: which threads exist and which components.                *)

\* While main stands here, everything that the configuration asks for exists.
Complete == {"open", "stream", "create", "signal", "stop", "stop_stream", "stop_raw",
             "wait"}

\* While main stands here, AppPipeline_Deinit has begun.
Leaving == {"deinit", "deinit_join", "teardown", "exited"}

\* A thread runs only between its creation and its join.
ThreadsInv ==
    /\ \A t \in Workers :
          /\ t \in started => pc[t] # "none"
          /\ t \notin started => pc[t] \in {"none", "done"} /\ todo[t] = {}
          /\ pc[t] # "none" => t \in Wanted
    /\ pc["main"] \in {"init", "open", "stream"} => \A t \in Workers : pc[t] = "none"
    /\ pc["main"] = "create" =>
          started # Wanted /\ \A t \in Workers \ started : pc[t] = "none"
    /\ pc["main"] \in {"teardown", "exited"} => started = {}

\* What was made is there until all threads are joined, and only then taken down;
\* so nobody has a queue on its list that is gone.
ComponentsInv ==
    /\ live \subseteq Configured
    /\ pc["main"] = "init" => live # Configured
    /\ pc["main"] \in Complete \/ started # {} => live = Configured
    /\ \A t \in Threads : todo[t] \subseteq live
    /\ pc["main"] \in {"deinit_join", "teardown", "exited"} =>
          Queues \cap live \subseteq closed \cup todo["main"]

\* A packet points to the encoder's extradata.
ExtradataInv == items["pkt"] # <<>> => {"encoder", "pkt"} \subseteq live

\* A worker has a frame in hand where it works on one and nowhere else; labels
\* that the configuration leaves out are not reached.
CaptureInv ==
    /\ hold["capture"] # 0 <=> pc["capture"] \in {"push", "release"}
    /\ pc["capture"] = "warm_get" => warm < WarmupFrames
    /\ pc["capture"] = "release" => pushed # "none"

ProcessInv ==
    /\ hold["process"] # 0 <=> pc["process"] \in {"work", "push"}
    /\ pc["process"] = "push" => NeedEncode

EncodeInv == hold["encode"] # 0 <=> pc["encode"] \in {"encode", "push", "push_flush"}

MuxInv ==
    /\ hold["mux"] # 0 <=> pc["mux"] \in {"write_record", "write_rtsp"}
    /\ pc["mux"] \in {"open_record", "header_record", "write_record"} => cfg.record
    /\ pc["mux"] \in {"open_rtsp", "header_rtsp", "write_rtsp"} => cfg.rtsp

WorkersInv == CaptureInv /\ ProcessInv /\ EncodeInv /\ MuxInv

-----------------------------------------------------------------------------
(* The outputs.                                                            *)

\* An output is opened, gets its header, its packets and its trailer, in this
\* order.
OutputsInv ==
    /\ header \subseteq opened /\ opened \subseteq Outputs
    /\ pc["mux"] \in {"none", "open_record"} => opened = {}
    /\ pc["mux"] = "header_record" => opened = {"record"}
    /\ pc["mux"] \in {"none", "open_record", "header_record"} => header = {}
    /\ pc["mux"] = "open_rtsp" => opened = Outputs \ {"rtsp"}
    /\ pc["mux"] \in {"open_rtsp", "header_rtsp"} => header = Outputs \ {"rtsp"}
    /\ pc["mux"] = "header_rtsp" => opened = Outputs
    /\ pc["mux"] \in {"pop", "write_record", "write_rtsp"} => header = Outputs
    /\ pc["mux"] = "done" => opened = {}

\* A trailer is written once and at the finish only, and none is left out.
TrailersInv ==
    /\ pc["mux"] \notin {"finish", "done"} => \A m \in Muxers : trailers[m] = 0
    /\ \A m \in header : trailers[m] = 0
    /\ pc["mux"] \in {"none", "open_record", "header_record", "open_rtsp", "header_rtsp"}
          => \A m \in Muxers : written[m] = <<>>
    /\ \A m \in Muxers \ Outputs : written[m] = <<>>
    /\ pc["mux"] \in {"finish", "done"} =>
          \A m \in Outputs \ header :
             written[m] # <<>> \/ failed = {} => trailers[m] = 1

-----------------------------------------------------------------------------
(* The exit status.                                                        *)

StartFaults == {"init", "open", "stream", "thread"}

StatusInv ==
    /\ code = "none" <=> pc["main"] \notin Leaving
    /\ code = "none" => failed \cap StartFaults = {}
    /\ code = "1" => failed \cap Reported # {}
    /\ code = "0" => started = {} /\ failed \cap Reported = {}
    /\ error = "negative" => failed \cap Reported # {}
    /\ error # "negative" =>
          /\ failed \cap (Reported \ StartFaults) \subseteq {"raw_push"}
          /\ "raw_push" \in failed <=> pc["capture"] = "release" /\ pushed = "ERROR"
    /\ pc["capture"] = "release" /\ pushed = "ERROR" => "raw_push" \in failed
-----------------------------------------------------------------------------
(* The orders.                                                             *)

\* FirstIn is in the set, and what stands before it in the order is not.
LEMMA FirstInIsFirst ==
    ASSUME NEW T, NEW s \in Seq(T), NEW S, \E i \in 1 .. Len(s) : s[i] \in S
    PROVE  \E i \in 1 .. Len(s) :
              /\ FirstIn(s, S) = s[i] /\ s[i] \in S
              /\ \A j \in 1 .. i - 1 : s[j] \notin S
<1> DEFINE I == {i \in 1 .. Len(s) : s[i] \in S}
<1>1. PICK i \in I : \A j \in I : ~ (<<j, i>> \in OpToRel(<, Nat))
  <2>1. I \subseteq Nat /\ I # {}
    OBVIOUS
  <2> QED
    BY <2>1, NatLessThanWellFounded, WFMin
<1>2. \A j \in 1 .. i - 1 : s[j] \notin S
  <2>1. ASSUME NEW j \in 1 .. i - 1, s[j] \in S PROVE FALSE
    <3>1. j \in I /\ j \in Nat /\ i \in Nat /\ j < i
      BY <2>1
    <3>2. <<j, i>> \in OpToRel(<, Nat)
      BY <3>1 DEF OpToRel
    <3> QED
      BY <1>1, <3>1, <3>2
  <2> QED
    BY <2>1
<1>3. \E k \in 1 .. Len(s) : s[k] \in S /\ \A j \in 1 .. k - 1 : s[j] \notin S
  BY <1>2
<1> DEFINE k == CHOOSE k \in 1 .. Len(s) : s[k] \in S /\ \A j \in 1 .. k - 1 : s[j] \notin S
<1>4. k \in 1 .. Len(s) /\ s[k] \in S /\ \A j \in 1 .. k - 1 : s[j] \notin S
  BY <1>3
<1>5. FirstIn(s, S) = s[k]
  BY DEF FirstIn
<1> QED
  BY <1>4, <1>5

LEMMA NextToClose ==
    ASSUME NEW S \in SUBSET Queues, S # {}
    PROVE  FirstIn(<<"raw", "enc", "pkt">>, S) \in S
<1> DEFINE s == <<"raw", "enc", "pkt">>
<1>1. s \in Seq(Queues) /\ Len(s) = 3 /\ s[1] = "raw" /\ s[2] = "enc" /\ s[3] = "pkt"
  BY DEF Queues
<1>2. s[1] \in S \/ s[2] \in S \/ s[3] \in S
  BY <1>1 DEF Queues
<1>3. 1 \in 1 .. Len(s) /\ 2 \in 1 .. Len(s) /\ 3 \in 1 .. Len(s)
  BY <1>1
<1> HIDE DEF s
<1> QED
  BY <1>1, <1>2, <1>3, FirstInIsFirst

LEMMA NextToFinish ==
    ASSUME NEW S \in SUBSET Muxers, S # {}
    PROVE  FirstIn(<<"record", "rtsp">>, S) \in S
<1> DEFINE s == <<"record", "rtsp">>
<1>1. s \in Seq(Muxers) /\ Len(s) = 2 /\ s[1] = "record" /\ s[2] = "rtsp"
  BY DEF Muxers
<1>2. s[1] \in S \/ s[2] \in S
  BY <1>1 DEF Muxers
<1>3. 1 \in 1 .. Len(s) /\ 2 \in 1 .. Len(s)
  BY <1>1
<1> HIDE DEF s
<1> QED
  BY <1>1, <1>2, <1>3, FirstInIsFirst

LEMMA NextToJoin ==
    ASSUME NEW S \in SUBSET Workers, S # {}
    PROVE  FirstIn(JoinOrder, S) \in S
<1>1. JoinOrder \in Seq(Workers) /\ Len(JoinOrder) = 4
  BY DEF JoinOrder, Workers
<1>2. JoinOrder[1] \in S \/ JoinOrder[2] \in S \/ JoinOrder[3] \in S \/ JoinOrder[4] \in S
  BY DEF JoinOrder, Workers
<1>3. {1, 2, 3, 4} \subseteq 1 .. Len(JoinOrder)
  BY <1>1
<1> QED
  BY <1>1, <1>2, <1>3, FirstInIsFirst

LEMMA NextToCreate ==
    ASSUME NEW S \in SUBSET Workers, S # {}
    PROVE  FirstIn(StartOrder, S) \in S
<1>1. StartOrder \in Seq(Workers) /\ Len(StartOrder) = 4
  BY DEF StartOrder, Workers
<1>2. StartOrder[1] \in S \/ StartOrder[2] \in S \/ StartOrder[3] \in S \/ StartOrder[4] \in S
  BY DEF StartOrder, Workers
<1>3. {1, 2, 3, 4} \subseteq 1 .. Len(StartOrder)
  BY <1>1
<1> QED
  BY <1>1, <1>2, <1>3, FirstInIsFirst

LEMMA NextToMake ==
    ASSUME NEW S \in SUBSET Components, S # {}
    PROVE  FirstIn(InitOrder, S) \in S
<1> DEFINE s == InitOrder
<1>1. s \in Seq(Components) /\ Len(s) = 10
  BY DEF InitOrder, Components, Queues, Muxers
<1>2. \/ s[1] \in S \/ s[2] \in S \/ s[3] \in S \/ s[4] \in S \/ s[5] \in S
      \/ s[6] \in S \/ s[7] \in S \/ s[8] \in S \/ s[9] \in S \/ s[10] \in S
  BY DEF InitOrder, Components, Queues, Muxers
<1>3. {1, 2, 3, 4, 5, 6, 7, 8, 9, 10} \subseteq 1 .. Len(s)
  BY <1>1
<1> HIDE DEF s
<1>4. FirstIn(s, S) \in S
  BY <1>1, <1>2, <1>3, FirstInIsFirst
<1> QED
  BY <1>4 DEF s

\* The encoder, whose extradata the packets point to, goes after the packets.
LEMMA NextToTearDown ==
    ASSUME NEW S \in SUBSET Components, S # {}
    PROVE  /\ FirstIn(TeardownOrder, S) \in S
           /\ FirstIn(TeardownOrder, S) = "encoder" => "pkt" \notin S
<1> DEFINE s == TeardownOrder
<1>1. s \in Seq(Components) /\ Len(s) = 10
  BY DEF TeardownOrder, Components, Queues, Muxers
<1>2. \/ s[1] \in S \/ s[2] \in S \/ s[3] \in S \/ s[4] \in S \/ s[5] \in S
      \/ s[6] \in S \/ s[7] \in S \/ s[8] \in S \/ s[9] \in S \/ s[10] \in S
  BY DEF TeardownOrder, Components, Queues, Muxers
<1>3. {1, 2, 3, 4, 5, 6, 7, 8, 9, 10} \subseteq 1 .. Len(s)
  BY <1>1
<1>4. s[1] = "pkt" /\ \A i \in 1 .. 10 : s[i] = "encoder" => i = 6
  BY DEF TeardownOrder
<1> HIDE DEF s
<1>5. PICK i \in 1 .. Len(s) :
         FirstIn(s, S) = s[i] /\ s[i] \in S /\ \A j \in 1 .. i - 1 : s[j] \notin S
  BY <1>1, <1>2, <1>3, FirstInIsFirst
<1>6. ASSUME FirstIn(s, S) = "encoder" PROVE "pkt" \notin S
  <2>1. s[i] = "encoder"
    BY <1>5, <1>6
  <2>2. i = 6
    BY <1>1, <1>4, <2>1
  <2>3. 1 \in 1 .. i - 1
    BY <2>2
  <2> QED
    BY <1>4, <1>5, <2>3
<1> QED
  BY <1>5, <1>6 DEF s
-----------------------------------------------------------------------------
(* What a step of one thread leaves alone, which is all that most of the   *)
(* invariants ask of it.                                                   *)

\* Of the queues, only those in Q are touched, and none is opened again.
Touches(Q) ==
    /\ \A c \in Queues \ Q : items'[c] = items[c]
    /\ closed \subseteq closed' /\ closed' \subseteq closed \cup Q
    /\ ended \subseteq ended' /\ ended' \subseteq ended \cup Q

\* Worker t does a step of its own.
Moves(t) ==
    /\ pc[t] \notin {"none", "done"} /\ todo[t] = {}
    /\ pc'[t] \in Labels[t] \ {"none"}
    /\ pc' = [pc EXCEPT ![t] = pc'[t]]
    /\ \/ todo' = todo
       \/ todo' = [todo EXCEPT ![t] = QueuesToClose] /\ stop' = TRUE
          /\ (failed' # {} \/ (t = "capture" /\ pc[t] = "release" /\ pushed = "ERROR"))
    /\ stop' = stop \/ stop' = TRUE
    /\ hold' = [hold EXCEPT ![t] = hold'[t]]
    /\ failed \subseteq failed'
    /\ UNCHANGED <<cfg, started, live, streaming, code>>

\* The functions of the state that EXCEPT is used on.
Shapes == 
    /\ pc \in [Threads -> AllLabels]
    /\ hold \in [Workers -> 0 .. CameraFrames]
    /\ items \in [Queues -> Seq(1 .. CameraFrames)]

LEMMA CaptureMoves ==
    ASSUME Shapes, CameraStep \/ CaptureStep
    PROVE  /\ Moves("capture") /\ Touches({"raw"})
           /\ UNCHANGED <<pending, opened, header, written, trailers, fed>>
<1> USE DEF At, Goto, Fails, Fault, NoFault, RequestStop, CaptureFrame, captureVars,
            mainVars, muxVars, chan, Put, Close, Moves, Touches, Labels, Threads,
            Workers, Queues, Shapes
<1>1. CASE CameraStep
  BY <1>1 DEF CameraStep, WarmupGet, WarmupEnd, WarmupFails, CaptureGet, CaptureAgain,
              CaptureEnd, CaptureGetFails
<1>2. CASE WarmupHead \/ WarmupStopped \/ CaptureHead \/ CaptureStopped
  BY <1>2 DEF WarmupHead, WarmupStopped, CaptureHead, CaptureStopped
<1>3. CASE CapturePush
  BY <1>3 DEF CapturePush
<1>4. CASE CaptureRelease \/ CaptureReleaseFails \/ CaptureExit
  BY <1>4 DEF CaptureRelease, CaptureReleaseFails, CaptureExit
<1> QED
  BY <1>1, <1>2, <1>3, <1>4 DEF CaptureStep

LEMMA ProcessMoves ==
    ASSUME Shapes, ProcessStep
    PROVE  /\ Moves("process") /\ Touches({"raw", "enc"})
           /\ UNCHANGED <<warm, taken, pushed, pending, opened, header, written, trailers>>
<1> USE DEF At, Goto, Fails, Fault, NoFault, RequestStop, ProcessFrame, captureVars,
            mainVars, muxVars, chan, Put, Take, TellEnd, Close, Moves, Touches, Labels,
            Threads, Workers, Queues, Shapes
<1>1. CASE ProcessHead \/ ProcessPop \/ ProcessPopFails
  BY <1>1 DEF ProcessHead, ProcessPop, ProcessPopFails
<1>2. CASE ProcessWork \/ ProcessWorkFails \/ ProcessWorkEnds
  BY <1>2 DEF ProcessWork, ProcessWorkFails, ProcessWorkEnds
<1>3. CASE ProcessOsdFails \/ ProcessViewClosed
  BY <1>3 DEF ProcessOsdFails, ProcessViewClosed
<1>4. CASE ProcessPush
  BY <1>4 DEF ProcessPush
<1>5. CASE ProcessPushFails \/ ProcessExit
  BY <1>5 DEF ProcessPushFails, ProcessExit
<1> QED
  BY <1>1, <1>2, <1>3, <1>4, <1>5 DEF ProcessStep

LEMMA EncodeMoves ==
    ASSUME Shapes, EncodeStep
    PROVE  /\ Moves("encode") /\ Touches({"enc", "pkt"})
           /\ UNCHANGED <<warm, taken, pushed, fed, opened, header, written, trailers>>
<1> USE DEF At, Goto, Fails, Fault, NoFault, RequestStop, EncodeFrame, captureVars,
            mainVars, muxVars, chan, Put, Take, TellEnd, Close, Moves, Touches, Labels,
            Threads, Workers, Queues, Shapes
<1>1. CASE EncodePop \/ EncodePopFails
  BY <1>1 DEF EncodePop, EncodePopFails
<1>2. CASE EncodeOne \/ EncodeFails \/ EncodeEnds
  BY <1>2 DEF EncodeOne, EncodeFails, EncodeEnds
<1>3. CASE EncodePush \/ EncodePushFails
  BY <1>3 DEF EncodePush, EncodePushFails
<1>4. CASE EncodeFlush \/ EncodeFlushFails \/ EncodeExit
  BY <1>4 DEF EncodeFlush, EncodeFlushFails, EncodeExit
<1> QED
  BY <1>1, <1>2, <1>3, <1>4 DEF EncodeStep

LEMMA MuxMoves ==
    ASSUME Shapes, MuxStep
    PROVE  /\ Moves("mux") /\ Touches({"pkt"})
           /\ UNCHANGED <<warm, taken, pushed, fed, pending>>
<1> USE DEF At, Goto, Fails, Fault, NoFault, RequestStop, MuxFrame, captureVars,
            mainVars, muxVars, chan, Take, TellEnd, Moves, Touches, Labels,
            Threads, Workers, Queues, Shapes
<1>1. ASSUME NEW m \in Muxers, MuxOpen(m) \/ MuxOpenFails(m) PROVE Moves("mux") /\ Touches({"pkt"})
                   /\ UNCHANGED <<warm, taken, pushed, fed, pending>>
  BY <1>1 DEF MuxOpen, MuxOpenFails, OpenLabel, HeaderLabel
<1>2. ASSUME NEW m \in Muxers, MuxHeader(m) \/ MuxHeaderFails(m) PROVE Moves("mux") /\ Touches({"pkt"})
                   /\ UNCHANGED <<warm, taken, pushed, fed, pending>>
  BY <1>2 DEF MuxHeader, MuxHeaderFails, HeaderLabel
<1>3. ASSUME NEW m \in Muxers, MuxWrite(m) \/ MuxWriteFails(m) \/ MuxWriteEnds(m) PROVE Moves("mux") /\ Touches({"pkt"})
                   /\ UNCHANGED <<warm, taken, pushed, fed, pending>>
  BY <1>3 DEF MuxWrite, MuxWriteFails, MuxWriteEnds, WriteLabel
<1>4. CASE MuxPop \/ MuxPopFails
  BY <1>4 DEF MuxPop, MuxPopFails
<1>5. CASE MuxTrailer \/ MuxClose
  BY <1>5 DEF MuxTrailer, MuxClose
<1> QED
  BY <1>1, <1>2, <1>3, <1>4, <1>5 DEF MuxStep

\* Main and the threads that close queues for it.
LEMMA MainMoves ==
    ASSUME Shapes, MainStep \/ MainSignal
    PROVE  /\ \A t \in Workers : todo'[t] = todo[t]
           /\ ~MainCreate => \A t \in Workers : pc'[t] = pc[t]
           /\ ~MainTeardown => UNCHANGED items
           /\ closed \subseteq closed' /\ closed' \subseteq closed \cup {"raw"}
           /\ failed \subseteq failed'
           /\ UNCHANGED <<cfg, hold, ended, warm, taken, pushed, pending, opened, header,
                          written, trailers, fed>>
<1> DEFINE Goal == 
           /\ \A t \in Workers : todo'[t] = todo[t]
           /\ ~MainCreate => \A t \in Workers : pc'[t] = pc[t]
           /\ ~MainTeardown => UNCHANGED items
           /\ closed \subseteq closed' /\ closed' \subseteq closed \cup {"raw"}
           /\ failed \subseteq failed'
           /\ UNCHANGED <<cfg, hold, ended, warm, taken, pushed, pending, opened, header,
                          written, trailers, fed>>
<1> USE DEF At, Goto, Fault, NoFault, RequestStop, MainFrame, captureVars, mainVars,
            muxVars, chan, Close, Threads, Workers, Shapes
<1>1. CASE MainInit \/ MainOpen \/ MainStream
  BY <1>1 DEF MainInit, MainOpen, MainStream
<1>2. ASSUME NEW here, NEW f, MainGivesUp(here, f) PROVE Goal
  BY <1>2 DEF MainGivesUp
<1>3. CASE MainCreate
  BY <1>3 DEF MainCreate
<1>4. CASE MainCreateFails
  BY <1>4 DEF MainCreateFails
<1>8. CASE MainStop
  BY <1>8 DEF MainStop
<1>9. CASE MainDeinit
  BY <1>9 DEF MainDeinit
<1>5. CASE MainStopStream \/ MainStopRaw \/ MainCloseCamera
  BY <1>5 DEF MainStopStream, MainStopRaw, MainCloseCamera
<1>6. CASE MainJoin \/ MainWaited \/ MainExit \/ MainSignal
  BY <1>6 DEF MainJoin, MainWaited, MainExit, MainSignal
<1>7. CASE MainTeardown
  BY <1>7 DEF MainTeardown
<1> QED
  BY <1>1, <1>2, <1>3, <1>4, <1>5, <1>6, <1>7, <1>8, <1>9 DEF MainStep
-----------------------------------------------------------------------------
(* Type correctness.                                                       *)

\* The parts of TypeOK that more than one thread assigns.
FlagTypes ==
    /\ stop \in BOOLEAN
    /\ error \in {"none", "negative", "positive"}
    /\ failed \subseteq FaultNames \cup {"stopped_in_warmup"}

QueueTypes ==
    /\ items \in [Queues -> Seq(1 .. CameraFrames)]
    /\ \A c \in Queues : Len(items[c]) <= QueueSize
    /\ closed \subseteq Queues
    /\ ended \subseteq Queues

LEMMA TypesGiveShapes == TypeOK => Shapes
  BY DEF TypeOK, Shapes

\* An item more, and one less.
LEMMA AppendTyped ==
    ASSUME NEW S, NEW s \in Seq(S), NEW e \in S
    PROVE  /\ Append(s, e) \in Seq(S) /\ Append(s, e) # <<>>
           /\ Len(Append(s, e)) = Len(s) + 1
<1>1. Append(s, e) \in Seq(S) /\ Len(Append(s, e)) = Len(s) + 1 /\ Len(s) \in Nat
  OBVIOUS
<1>2. Append(s, e) # <<>>
  BY <1>1
<1> QED
  BY <1>1, <1>2

LEMMA TailTyped ==
    ASSUME NEW S, NEW s \in Seq(S), s # <<>>
    PROVE  /\ Head(s) \in S /\ Tail(s) \in Seq(S)
           /\ Len(Tail(s)) = Len(s) - 1 /\ Len(s) \in Nat
  OBVIOUS

\* A push into a queue that takes it, and a pop from one that has something.
LEMMA PutTyped ==
    ASSUME QueueTypes, NEW c \in Queues, NEW f \in 1 .. CameraFrames, CanPut(c), Put(c, f)
    PROVE  QueueTypes'
<1>1. items[c] \in Seq(1 .. CameraFrames) /\ Len(items[c]) < QueueSize
  BY DEF QueueTypes, CanPut
<1>2. /\ Append(items[c], f) \in Seq(1 .. CameraFrames)
      /\ Len(Append(items[c], f)) = Len(items[c]) + 1
      /\ Len(items[c]) \in Nat
  BY <1>1
<1>3. items' = [items EXCEPT ![c] = Append(items[c], f)] /\ UNCHANGED <<closed, ended>>
  BY DEF Put
<1>4. \A d \in Queues : items'[d] = IF d = c THEN Append(items[c], f) ELSE items[d]
  BY <1>3 DEF QueueTypes
<1>5. Len(Append(items[c], f)) <= QueueSize
  BY <1>1, <1>2, SizeAssumption
<1> QED
  BY <1>2, <1>3, <1>4, <1>5 DEF QueueTypes

LEMMA TakeTyped ==
    ASSUME QueueTypes, NEW c \in Queues, CanTake(c), Take(c)
    PROVE  QueueTypes' /\ Head(items[c]) \in 1 .. CameraFrames
<1>1. items[c] \in Seq(1 .. CameraFrames) /\ Len(items[c]) <= QueueSize /\ items[c] # <<>>
  BY DEF QueueTypes, CanTake
<1>2. /\ Tail(items[c]) \in Seq(1 .. CameraFrames) /\ Head(items[c]) \in 1 .. CameraFrames
      /\ Len(Tail(items[c])) = Len(items[c]) - 1
      /\ Len(items[c]) \in Nat
  BY <1>1, TailTyped
<1>3. items' = [items EXCEPT ![c] = Tail(items[c])] /\ UNCHANGED <<closed, ended>>
  BY DEF Take
<1>4. \A d \in Queues : items'[d] = IF d = c THEN Tail(items[c]) ELSE items[d]
  BY <1>3 DEF QueueTypes
<1>5. Len(Tail(items[c])) <= QueueSize
  BY <1>1, <1>2, SizeAssumption
<1> QED
  BY <1>2, <1>3, <1>4, <1>5 DEF QueueTypes

LEMMA EndsTyped ==
    ASSUME QueueTypes, NEW c \in Queues, TellEnd(c) \/ Close(c)
    PROVE  QueueTypes'
  BY DEF QueueTypes, TellEnd, Close

LEMMA CaptureTypes ==
    ASSUME TypeOK, CaptureInv, CameraStep \/ CaptureStep
    PROVE  /\ FlagTypes' /\ QueueTypes' /\ CaptureInv'
           /\ hold'["capture"] \in 0 .. CameraFrames
           /\ warm' \in 0 .. WarmupFrames
           /\ taken' \in 0 .. CameraFrames
           /\ pushed' \in {"none", "OK", "EOF", "ERROR"}
<1> DEFINE Goal ==
              /\ FlagTypes' /\ QueueTypes' /\ CaptureInv'
              /\ hold'["capture"] \in 0 .. CameraFrames
              /\ warm' \in 0 .. WarmupFrames
              /\ taken' \in 0 .. CameraFrames
              /\ pushed' \in {"none", "OK", "EOF", "ERROR"}
<1>0. /\ FlagTypes /\ QueueTypes /\ warm \in 0 .. WarmupFrames /\ taken \in 0 .. CameraFrames
      /\ pushed \in {"none", "OK", "EOF", "ERROR"} /\ pc \in [Threads -> AllLabels]
      /\ hold \in [Workers -> 0 .. CameraFrames] /\ hold["capture"] \in 0 .. CameraFrames
  BY DEF TypeOK, FlagTypes, QueueTypes, Workers
<1> USE <1>0, SizeAssumption, FaultAssumption
    DEF At, Goto, Fails, Fault, NoFault, RequestStop, CaptureFrame, captureVars, chan,
        Threads, Workers, FlagTypes, CaptureInv
<1>1. CASE WarmupGet
  BY <1>1 DEF WarmupGet, QueueTypes
<1>2. CASE WarmupEnd \/ WarmupFails
  BY <1>2 DEF WarmupEnd, WarmupFails, QueueTypes
<1>3. CASE CaptureGet
  BY <1>3 DEF CaptureGet, QueueTypes
<1>4. CASE CaptureAgain \/ CaptureEnd \/ CaptureGetFails
  BY <1>4 DEF CaptureAgain, CaptureEnd, CaptureGetFails, QueueTypes
<1>5. CASE WarmupHead \/ WarmupStopped
  BY <1>5 DEF WarmupHead, WarmupStopped, QueueTypes
<1>6. CASE CaptureHead \/ CaptureStopped
  BY <1>6 DEF CaptureHead, CaptureStopped, QueueTypes
<1>7. CASE CapturePush
  <2>1. hold["capture"] \in 1 .. CameraFrames
    BY <1>7 DEF CapturePush
  <2>2. QueueTypes'
    BY <1>7, <2>1, PutTyped DEF CapturePush, QueueTypes, Queues
  <2> QED
    BY <1>7, <2>2 DEF CapturePush
<1>8. CASE CaptureRelease
  <2>1. QueueTypes'
    BY <1>8 DEF CaptureRelease, QueueTypes
  <2>2. FlagTypes'
    BY <1>8 DEF CaptureRelease
  <2> QED
    BY <1>8, <2>1, <2>2 DEF CaptureRelease
<1>9. CASE CaptureReleaseFails
  BY <1>9 DEF CaptureReleaseFails, QueueTypes
<1>10. CASE CaptureExit
  BY <1>10 DEF CaptureExit, Close, QueueTypes, Queues
<1> QED
  BY <1>1, <1>2, <1>3, <1>4, <1>5, <1>6, <1>7, <1>8, <1>9, <1>10
  DEF CameraStep, CaptureStep

LEMMA ProcessTypes ==
    ASSUME TypeOK, ProcessInv, ProcessStep
    PROVE  /\ FlagTypes' /\ QueueTypes' /\ ProcessInv'
           /\ hold'["process"] \in 0 .. CameraFrames
           /\ fed' \in Seq(1 .. CameraFrames)
<1>0. /\ FlagTypes /\ QueueTypes /\ fed \in Seq(1 .. CameraFrames)
      /\ pc \in [Threads -> AllLabels] /\ hold \in [Workers -> 0 .. CameraFrames]
      /\ hold["process"] \in 0 .. CameraFrames
  BY DEF TypeOK, FlagTypes, QueueTypes, Workers
<1>00. UNCHANGED chan => QueueTypes'
  BY <1>0 DEF chan, QueueTypes
<1>000. UNCHANGED cfg => NeedEncode' = NeedEncode
  BY DEF NeedEncode
<1> USE <1>0, <1>00, <1>000, SizeAssumption, FaultAssumption
    DEF At, Goto, Fails, Fault, NoFault, RequestStop, ProcessFrame, captureVars,
        Threads, Workers, FlagTypes, ProcessInv
<1>1. CASE ProcessHead \/ ProcessPopFails
  BY <1>1 DEF ProcessHead, ProcessPopFails
<1>2. CASE ProcessPop
  <2>1. CASE CanTake("raw") /\ Take("raw")
    <3>1. QueueTypes' /\ Head(items["raw"]) \in 1 .. CameraFrames
      BY <2>1, TakeTyped DEF Queues
    <3> QED
      BY <1>2, <2>1, <3>1 DEF ProcessPop, AtEnd, CanTake
  <2>2. CASE AtEnd("raw") /\ TellEnd("raw")
    <3>1. QueueTypes'
      BY <2>2, EndsTyped DEF Queues
    <3> QED
      BY <1>2, <2>2, <3>1 DEF ProcessPop, AtEnd, CanTake
  <2> QED
    BY <1>2, <2>1, <2>2 DEF ProcessPop
<1>3. CASE ProcessWork
  BY <1>3 DEF ProcessWork
<1>4. CASE ProcessWorkFails
  <2>1. PICK f \in {"convert", "view"} : Fails("process", f, "exit")
    BY <1>4 DEF ProcessWorkFails
  <2> QED
    BY <1>4, <2>1 DEF ProcessWorkFails
<1>5. CASE ProcessWorkEnds
  BY <1>5 DEF ProcessWorkEnds
<1>9. CASE ProcessOsdFails
  BY <1>9 DEF ProcessOsdFails
<1>10. CASE ProcessViewClosed
  BY <1>10 DEF ProcessViewClosed
<1>6. CASE ProcessPush
  <2>1. hold["process"] \in 1 .. CameraFrames
    BY <1>6 DEF ProcessPush
  <2>2. CASE CanPut("enc") /\ Put("enc", hold["process"]) /\ fed' = Append(fed, hold["process"])
    <3>1. QueueTypes'
      BY <2>1, <2>2, PutTyped DEF Queues
    <3>2. fed' \in Seq(1 .. CameraFrames)
      BY <2>1, <2>2
    <3> QED
      BY <1>6, <3>1, <3>2 DEF ProcessPush
  <2>3. CASE UNCHANGED <<chan, fed>>
    BY <1>6, <2>3 DEF ProcessPush
  <2> QED
    BY <1>6, <2>2, <2>3 DEF ProcessPush
<1>7. CASE ProcessPushFails
  BY <1>7 DEF ProcessPushFails
<1>8. CASE ProcessExit
  <2>1. QueueTypes'
    BY <1>8, EndsTyped DEF ProcessExit, Queues
  <2> QED
    BY <1>8, <2>1 DEF ProcessExit
<1> QED
  BY <1>1, <1>2, <1>3, <1>4, <1>5, <1>6, <1>7, <1>8, <1>9, <1>10 DEF ProcessStep

LEMMA EncodeTypes ==
    ASSUME TypeOK, EncodeInv, EncodeStep
    PROVE  /\ FlagTypes' /\ QueueTypes' /\ EncodeInv'
           /\ hold'["encode"] \in 0 .. CameraFrames
           /\ pending' \in Seq(1 .. CameraFrames) /\ Len(pending') <= EncoderDelay
<1>0. /\ FlagTypes /\ QueueTypes
      /\ pending \in Seq(1 .. CameraFrames) /\ Len(pending) <= EncoderDelay
      /\ pc \in [Threads -> AllLabels] /\ hold \in [Workers -> 0 .. CameraFrames]
      /\ hold["encode"] \in 0 .. CameraFrames
  BY DEF TypeOK, FlagTypes, QueueTypes, Workers
<1>00. UNCHANGED chan => QueueTypes'
  BY <1>0 DEF chan, QueueTypes
<1> USE <1>0, <1>00, SizeAssumption, FaultAssumption
    DEF At, Goto, Fails, Fault, NoFault, RequestStop, Threads, Workers, FlagTypes, EncodeInv
<1>1. CASE EncodePop
  <2>1. CASE CanTake("enc") /\ Take("enc")
    <3>1. QueueTypes' /\ Head(items["enc"]) \in 1 .. CameraFrames
      BY <2>1, TakeTyped DEF Queues
    <3> QED
      BY <1>1, <2>1, <3>1 DEF EncodePop, AtEnd, CanTake
  <2>2. CASE AtEnd("enc") /\ TellEnd("enc")
    <3>1. QueueTypes'
      BY <2>2, EndsTyped DEF Queues
    <3> QED
      BY <1>1, <2>2, <3>1 DEF EncodePop, AtEnd, CanTake
  <2> QED
    BY <1>1, <2>1, <2>2 DEF EncodePop
<1>2. CASE EncodePopFails
  BY <1>2 DEF EncodePopFails
<1>3. CASE EncodeOne
  <2> DEFINE inside == Append(pending, hold["encode"])
  <2>1. hold["encode"] \in 1 .. CameraFrames
    BY <1>3 DEF EncodeOne
  <2>2. inside \in Seq(1 .. CameraFrames) /\ Len(inside) = Len(pending) + 1 /\ inside # <<>>
    BY <2>1, AppendTyped
  <2>3. /\ Head(inside) \in 1 .. CameraFrames /\ Tail(inside) \in Seq(1 .. CameraFrames)
        /\ Len(Tail(inside)) = Len(pending)
    BY <2>2, TailTyped
  <2> HIDE DEF inside
  <2>4. CASE pending' = Tail(inside) /\ hold' = [hold EXCEPT !["encode"] = Head(inside)]
             /\ Goto("encode", "push")
    BY <1>3, <2>3, <2>4 DEF EncodeOne
  <2>5. CASE Len(inside) <= EncoderDelay /\ pending' = inside
             /\ hold' = [hold EXCEPT !["encode"] = 0] /\ Goto("encode", "pop")
    BY <1>3, <2>2, <2>5 DEF EncodeOne
  <2> QED
    BY <1>3, <2>4, <2>5 DEF EncodeOne, inside
<1>4. CASE EncodeFails
  BY <1>4 DEF EncodeFails
<1>10. CASE EncodeEnds
  BY <1>10 DEF EncodeEnds
<1>5. CASE EncodePush
  <2>1. PICK here \in {"push", "push_flush"} :
           /\ At("encode", here)
           /\ hold' = [hold EXCEPT !["encode"] = 0]
           /\ NoFault /\ UNCHANGED <<EncodeFrame, pending>>
           /\ \/ /\ CanPut("pkt") /\ Put("pkt", hold["encode"])
                 /\ Goto("encode", IF here = "push" THEN "pop" ELSE "flush")
              \/ /\ UNCHANGED chan
                 /\ Goto("encode", IF here = "push" THEN "flush" ELSE "exit")
    BY <1>5 DEF EncodePush
  <2>2. hold["encode"] \in 1 .. CameraFrames
    BY <2>1
  <2>3. QueueTypes'
    BY <2>1, <2>2, PutTyped DEF Queues
  <2> QED
    BY <2>1, <2>3
<1>6. CASE EncodePushFails
  BY <1>6 DEF EncodePushFails
<1>7. CASE EncodeFlush
  <2>1. CASE pending # <<>>
    <3>1. /\ Head(pending) \in 1 .. CameraFrames /\ Tail(pending) \in Seq(1 .. CameraFrames)
          /\ Len(Tail(pending)) <= EncoderDelay
      BY <2>1, TailTyped
    <3>2. /\ pc["encode"] = "flush" /\ pending' = Tail(pending)
          /\ hold' = [hold EXCEPT !["encode"] = Head(pending)]
          /\ pc' = [pc EXCEPT !["encode"] = "push_flush"]
          /\ UNCHANGED <<chan, stop, error, failed>>
      BY <1>7, <2>1 DEF EncodeFlush
    <3> QED
      BY <3>1, <3>2
  <2>2. CASE pending = <<>>
    BY <1>7, <2>2 DEF EncodeFlush
  <2> QED
    BY <2>1, <2>2
<1>8. CASE EncodeFlushFails
  BY <1>8 DEF EncodeFlushFails
<1>9. CASE EncodeExit
  <2>1. QueueTypes'
    BY <1>9, EndsTyped DEF EncodeExit, Queues
  <2> QED
    BY <1>9, <2>1 DEF EncodeExit
<1> QED
  BY <1>1, <1>2, <1>3, <1>4, <1>5, <1>6, <1>7, <1>8, <1>9, <1>10 DEF EncodeStep

MuxTyped ==
    /\ FlagTypes /\ QueueTypes /\ MuxInv
    /\ hold["mux"] \in 0 .. CameraFrames
    /\ opened \subseteq Muxers
    /\ written \in [Muxers -> Seq(1 .. CameraFrames)]
    /\ trailers \in [Muxers -> Nat]

LEMMA MuxTypes ==
    ASSUME TypeOK, MuxInv, NeedEncode, MuxStep
    PROVE  MuxTyped'
<1>0. /\ FlagTypes /\ QueueTypes /\ opened \subseteq Muxers
      /\ written \in [Muxers -> Seq(1 .. CameraFrames)] /\ trailers \in [Muxers -> Nat]
      /\ pc \in [Threads -> AllLabels] /\ hold \in [Workers -> 0 .. CameraFrames]
      /\ hold["mux"] \in 0 .. CameraFrames
  BY DEF TypeOK, FlagTypes, QueueTypes, Workers
<1>00. UNCHANGED chan => QueueTypes'
  BY <1>0 DEF chan, QueueTypes
<1>000. cfg.record \in BOOLEAN /\ cfg.rtsp \in BOOLEAN
  BY ConfigAssumption DEF TypeOK
<1> USE <1>0, <1>00, <1>000, SizeAssumption, FaultAssumption
    DEF At, Goto, Fails, Fault, NoFault, RequestStop, MuxFrame, muxVars, Threads, Workers,
        FlagTypes, MuxInv, MuxTyped
<1>1. ASSUME NEW m \in Muxers, MuxOpen(m) PROVE MuxTyped'
  BY <1>1 DEF MuxOpen, OpenLabel, HeaderLabel, Muxers
<1>2. ASSUME NEW m \in Muxers, MuxOpenFails(m) PROVE MuxTyped'
  BY <1>2 DEF MuxOpenFails, OpenLabel
<1>3. ASSUME NEW m \in Muxers, MuxHeader(m) PROVE MuxTyped'
  BY <1>3 DEF MuxHeader, HeaderLabel, Muxers
<1>4. ASSUME NEW m \in Muxers, MuxHeaderFails(m) PROVE MuxTyped'
  BY <1>4 DEF MuxHeaderFails, HeaderLabel
<1>5. ASSUME NEW m \in Muxers, MuxWrite(m) PROVE MuxTyped'
  BY <1>5 DEF MuxWrite, WriteLabel
<1>6. ASSUME NEW m \in Muxers, MuxWriteFails(m) PROVE MuxTyped'
  BY <1>6 DEF MuxWriteFails
<1>7. ASSUME NEW m \in Muxers, MuxWriteEnds(m) PROVE MuxTyped'
  BY <1>7 DEF MuxWriteEnds
<1>8. CASE MuxPop
  <2>1. CASE CanTake("pkt") /\ Take("pkt")
    <3>1. QueueTypes' /\ Head(items["pkt"]) \in 1 .. CameraFrames
      BY <2>1, TakeTyped DEF Queues
    <3> QED
      BY <1>8, <2>1, <3>1 DEF MuxPop, AtEnd, CanTake, NeedEncode
  <2>2. CASE AtEnd("pkt") /\ TellEnd("pkt")
    <3>1. QueueTypes'
      BY <2>2, EndsTyped DEF Queues
    <3> QED
      BY <1>8, <2>2, <3>1 DEF MuxPop, AtEnd, CanTake
  <2> QED
    BY <1>8, <2>1, <2>2 DEF MuxPop
<1>9. CASE MuxPopFails
  BY <1>9 DEF MuxPopFails
<1>10. CASE MuxTrailer
  <2> DEFINE m == FirstIn(<<"record", "rtsp">>, header)
  <2>1. m \in Muxers
    BY <1>10, NextToFinish DEF MuxTrailer, TypeOK
  <2>2. trailers' = [trailers EXCEPT ![m] = trailers[m] + 1]
    BY <1>10 DEF MuxTrailer
  <2> HIDE DEF m
  <2>3. trailers' \in [Muxers -> Nat]
    BY <2>1, <2>2
  <2> QED
    BY <1>10, <2>3 DEF MuxTrailer
<1>11. CASE MuxClose
  BY <1>11 DEF MuxClose
<1> QED
  BY <1>1, <1>2, <1>3, <1>4, <1>5, <1>6, <1>7, <1>8, <1>9, <1>10, <1>11 DEF MuxStep

-----------------------------------------------------------------------------
(* Which threads and components there are stays so.                        *)

LEMMA ConfigurationStays ==
    ASSUME UNCHANGED cfg
    PROVE  /\ NeedEncode' = NeedEncode /\ Outputs' = Outputs
           /\ Wanted' = Wanted /\ Configured' = Configured
<1> USE DEF NeedEncode, Outputs
<1>1. NeedEncode' = NeedEncode /\ Outputs' = Outputs
  OBVIOUS
<1>2. Wanted' = Wanted
  BY DEF Wanted
<1>3. Configured' = Configured
  BY DEF Configured
<1> QED
  BY <1>1, <1>2, <1>3

\* The configuration asks for nothing that there is not.
LEMMA ConfiguredAre ==
    /\ Configured \subseteq Components /\ Wanted \subseteq Workers
    /\ Outputs \subseteq Muxers /\ Outputs \subseteq Configured
  BY DEF Configured, Components, Wanted, Workers, Outputs, Muxers, Queues

LEMMA WorkerControl ==
    ASSUME TypeOK, ThreadsInv, ComponentsInv,
           NEW t \in Workers, NEW Q \in SUBSET Queues, Moves(t), Touches(Q)
    PROVE  ThreadsInv' /\ ComponentsInv'
<1>1. /\ t \in started /\ t # "main" /\ t \in Threads
      /\ pc'["main"] = pc["main"] /\ todo'["main"] = todo["main"]
      /\ pc'[t] # "none"
      /\ \A u \in Workers \ {t} : pc'[u] = pc[u] /\ todo'[u] = todo[u]
  BY DEF Moves, ThreadsInv, TypeOK, Workers, Threads
<1>2. UNCHANGED <<cfg, started, live>> /\ closed \subseteq closed'
  BY DEF Moves, Touches
<1>3. \A u \in Threads : todo'[u] \subseteq live
  BY <1>1 DEF Moves, ComponentsInv, QueuesToClose, TypeOK, Threads
<1>4. ThreadsInv'
  BY <1>1, <1>2, ConfigurationStays DEF ThreadsInv
<1>5. ComponentsInv'
  BY <1>1, <1>2, <1>3, ConfigurationStays DEF ComponentsInv
<1> QED
  BY <1>4, <1>5

LEMMA CloseControl ==
    ASSUME TypeOK, NEW t \in Threads, CloseNext(t)
    PROVE  \E c \in todo[t] :
              /\ closed' = closed \cup {c}
              /\ todo' = [todo EXCEPT ![t] = todo[t] \ {c}]
              /\ c \in Queues /\ todo \in [Threads -> SUBSET Queues]
              /\ UNCHANGED <<cfg, stop, error, pc, items, ended, hold, started, live,
                             streaming, code, warm, taken, pushed, pending, opened, header,
                             written, trailers, fed, failed>>
<1> DEFINE c == FirstIn(<<"raw", "enc", "pkt">>, todo[t])
<1>1. c \in todo[t] /\ c \in Queues
  BY NextToClose DEF CloseNext, TypeOK
<1> QED
  BY <1>1 DEF CloseNext, Close, TypeOK, mainVars, captureVars, muxVars

LEMMA CloseKeepsControl ==
    ASSUME TypeOK, ThreadsInv, ComponentsInv, NEW t \in Threads, CloseNext(t)
    PROVE  TypeOK' /\ ThreadsInv' /\ ComponentsInv'
<1>1. PICK c \in todo[t] :
         /\ closed' = closed \cup {c}
         /\ todo' = [todo EXCEPT ![t] = todo[t] \ {c}]
         /\ c \in Queues /\ todo \in [Threads -> SUBSET Queues]
         /\ UNCHANGED <<cfg, stop, error, pc, items, ended, hold, started, live,
                        streaming, code, warm, taken, pushed, pending, opened, header,
                        written, trailers, fed, failed>>
  BY CloseControl
<1>2. \A u \in Threads : todo'[u] \subseteq todo[u] /\ (u # t => todo'[u] = todo[u])
  BY <1>1
<1>3. TypeOK'
  BY <1>1 DEF TypeOK
<1>4. ThreadsInv'
  <2>1. \A u \in Workers : todo[u] = {} => todo'[u] = {}
    BY <1>2 DEF Threads
  <2> QED
    BY <1>1, <2>1, ConfigurationStays DEF ThreadsInv
<1>5. ComponentsInv'
  BY <1>1, <1>2, ConfigurationStays DEF ComponentsInv, Threads
<1> QED
  BY <1>3, <1>4, <1>5

LEMMA WantedNext ==
    ASSUME ThreadsInv, started \subseteq Workers, pc["main"] = "create"
    PROVE  Wanted \ started # {} /\ Wanted \ started \in SUBSET Workers
<1>1. started \subseteq Wanted /\ started # Wanted
  BY DEF ThreadsInv
<1> QED
  BY <1>1, ConfiguredAre

\* The types of what main alone assigns.
MainTyped ==
    /\ FlagTypes
    /\ pc \in [Threads -> AllLabels] /\ pc["main"] \in Labels["main"]
    /\ todo \in [Threads -> SUBSET Queues]
    /\ started \subseteq Workers
    /\ live \subseteq Components
    /\ streaming \in BOOLEAN
    /\ code \in {"none", "0", "1"}

LEMMA MainTypes ==
    ASSUME TypeOK, ThreadsInv, ComponentsInv, MainStep \/ MainSignal
    PROVE  MainTyped'
<1> DEFINE Goal == MainTyped'
<1>0. MainTyped /\ "main" \in Threads
  BY DEF TypeOK, FlagTypes, MainTyped, Threads
<1>00. Labels["main"] = {"init", "open", "stream", "create", "signal", "stop",
                         "stop_stream", "stop_raw", "wait", "deinit", "deinit_join",
                         "teardown", "exited"}
  BY DEF Labels
<1>000. \A t \in Threads : Labels[t] \subseteq AllLabels
  BY DEF AllLabels
<1> USE <1>0, <1>00, <1>000, FaultAssumption
    DEF At, Goto, Fault, NoFault, RequestStop, mainVars, FlagTypes, MainTyped,
        QueuesToClose
<1>1. ASSUME NEW here \in {"init", "open", "stream"}, NEW f, MainGivesUp(here, f) PROVE Goal
  BY <1>1 DEF MainGivesUp
<1>2. CASE MainInit
  <2>1. Configured \ live # {} /\ Configured \ live \in SUBSET Components
    BY <1>2, ConfiguredAre DEF MainInit, ComponentsInv
  <2>2. live' \subseteq Components
    BY <1>2, <2>1, NextToMake DEF MainInit
  <2> QED
    BY <1>2, <2>2 DEF MainInit
<1>3. CASE MainOpen
  BY <1>3 DEF MainOpen
<1>4. CASE MainStream
  BY <1>4 DEF MainStream
<1>5. CASE MainCreate
  <2> DEFINE t == FirstIn(StartOrder, Wanted \ started)
  <2>0. Wanted \ started # {} /\ Wanted \ started \in SUBSET Workers
    BY <1>5, WantedNext DEF MainCreate
  <2>1. t \in Wanted \ started /\ t \in Workers /\ t # "main" /\ t \in Threads
    BY NextToCreate, <2>0 DEF Workers, Threads
  <2>2. StartLabel[t] \in Labels[t]
    BY <2>1 DEF StartLabel, Labels, Workers
  <2>3. /\ started' = started \cup {t}
        /\ pc' = [pc EXCEPT ![t] = StartLabel[t],
                            !["main"] = IF started' = Wanted THEN "signal" ELSE "create"]
        /\ NoFault /\ UNCHANGED <<live, streaming, code>>
    BY <1>5 DEF MainCreate
  <2> HIDE DEF t
  <2> QED
    BY <2>1, <2>2, <2>3
<1>6. CASE MainCreateFails
  BY <1>6 DEF MainCreateFails
<1>7. CASE MainStop
  BY <1>7 DEF MainStop
<1>8. CASE MainStopStream
  BY <1>8 DEF MainStopStream
<1>9. CASE MainStopRaw
  BY <1>9 DEF MainStopRaw
<1>10. CASE MainJoin
  BY <1>10 DEF MainJoin
<1>11. CASE MainWaited
  BY <1>11 DEF MainWaited
<1>12. CASE MainDeinit
  BY <1>12 DEF MainDeinit
<1>13. CASE MainCloseCamera
  BY <1>13 DEF MainCloseCamera
<1>14. CASE MainTeardown
  BY <1>14 DEF MainTeardown
<1>15. CASE MainExit
  BY <1>15 DEF MainExit
<1>16. CASE MainSignal
  BY <1>16 DEF MainSignal
<1> QED
  BY <1>1, <1>2, <1>3, <1>4, <1>5, <1>6, <1>7, <1>8,
     <1>9, <1>10, <1>11, <1>12, <1>13, <1>14, <1>15, <1>16 DEF MainStep

LEMMA MainThreads ==
    ASSUME TypeOK, ThreadsInv, ComponentsInv, MainStep \/ MainSignal
    PROVE  ThreadsInv'
<1> DEFINE Goal == ThreadsInv'
<1>0. pc \in [Threads -> AllLabels] /\ started \subseteq Workers /\ todo \in [Threads -> SUBSET Queues]
  BY DEF TypeOK
<1>00. UNCHANGED cfg /\ \A t \in Workers : todo'[t] = todo[t]
  BY MainMoves, TypesGiveShapes
<1>000. NeedEncode' = NeedEncode /\ Wanted' = Wanted
  BY <1>00, ConfigurationStays
<1> USE <1>0, <1>00, <1>000
    DEF At, Goto, mainVars, Threads, Workers, ThreadsInv
<1>1. ASSUME NEW here \in {"init", "open", "stream"}, NEW f, MainGivesUp(here, f) PROVE Goal
  BY <1>1 DEF MainGivesUp
<1>2. CASE MainInit
  BY <1>2 DEF MainInit
<1>3. CASE MainOpen
  BY <1>3 DEF MainOpen
<1>4. CASE MainStream
  <2>1. pc'["main"] = "create" /\ \A t \in Workers : pc'[t] = pc[t] /\ pc[t] = "none"
    BY <1>4 DEF MainStream
  <2>2. started' = {} /\ started = {}
    BY <1>4, <2>1 DEF MainStream
  <2>3. "capture" \in Wanted
    BY DEF Wanted
  <2> QED
    BY <2>1, <2>2, <2>3
<1>5. CASE MainCreate
  <2> DEFINE t == FirstIn(StartOrder, Wanted \ started)
  <2>0. Wanted \ started # {} /\ Wanted \ started \in SUBSET Workers
    BY <1>5, WantedNext DEF MainCreate
  <2>1. t \in Wanted \ started /\ t \in Workers
    BY NextToCreate, <2>0
  <2>2. StartLabel[t] # "none"
    BY <2>1 DEF StartLabel
  <2>3. /\ started' = started \cup {t}
        /\ pc' = [pc EXCEPT ![t] = StartLabel[t],
                            !["main"] = IF started' = Wanted THEN "signal" ELSE "create"]
        /\ pc["main"] = "create"
    BY <1>5 DEF MainCreate
  <2> HIDE DEF t
  <2> QED
    BY <2>1, <2>2, <2>3
<1>6. CASE MainCreateFails
  BY <1>6 DEF MainCreateFails
<1>7. CASE MainStop
  BY <1>7 DEF MainStop
<1>8. CASE MainStopStream
  BY <1>8 DEF MainStopStream
<1>9. CASE MainStopRaw
  BY <1>9 DEF MainStopRaw
<1>10. CASE MainJoin
  BY <1>10 DEF MainJoin
<1>11. CASE MainWaited
  BY <1>11 DEF MainWaited
<1>12. CASE MainDeinit
  BY <1>12 DEF MainDeinit
<1>13. CASE MainCloseCamera
  BY <1>13 DEF MainCloseCamera
<1>14. CASE MainTeardown
  BY <1>14 DEF MainTeardown
<1>15. CASE MainExit
  BY <1>15 DEF MainExit
<1>16. CASE MainSignal
  BY <1>16 DEF MainSignal
<1> QED
  BY <1>1, <1>2, <1>3, <1>4, <1>5, <1>6, <1>7, <1>8,
     <1>9, <1>10, <1>11, <1>12, <1>13, <1>14, <1>15, <1>16 DEF MainStep

LEMMA MainComponents ==
    ASSUME TypeOK, ThreadsInv, ComponentsInv, MainStep \/ MainSignal
    PROVE  ComponentsInv'
<1> DEFINE Goal == ComponentsInv'
<1>0. pc \in [Threads -> AllLabels] /\ todo \in [Threads -> SUBSET Queues] /\ "main" \in Threads
      /\ \A t \in Threads \ {"main"} : t \in Workers
  BY DEF TypeOK, Threads
<1>00. UNCHANGED cfg /\ closed \subseteq closed' /\ \A t \in Workers : todo'[t] = todo[t]
  BY MainMoves, TypesGiveShapes
<1>000. Configured' = Configured
  BY <1>00, ConfigurationStays
<1>0000. started = {} => \A t \in Workers : todo[t] = {}
  BY DEF ThreadsInv
<1> USE <1>0, <1>00, <1>000
    DEF At, Goto, NoFault, mainVars, ComponentsInv, Complete
<1>1. ASSUME NEW here \in {"init", "open", "stream"}, NEW f, MainGivesUp(here, f) PROVE Goal
  BY <1>1 DEF MainGivesUp
<1>2. CASE MainInit
  <2>1. Configured \ live # {} /\ Configured \ live \in SUBSET Components
    BY <1>2, ConfiguredAre DEF MainInit
  <2>2. live' \subseteq Configured /\ live \subseteq live'
    BY <1>2, <2>1, NextToMake DEF MainInit
  <2> QED
    BY <1>2, <2>2 DEF MainInit, ThreadsInv
<1>3. CASE MainOpen
  BY <1>3 DEF MainOpen
<1>4. CASE MainStream
  BY <1>4 DEF MainStream
<1>5. CASE MainCreate
  BY <1>5 DEF MainCreate
<1>6. CASE MainCreateFails
  BY <1>6 DEF MainCreateFails, RequestStop, QueuesToClose
<1>7. CASE MainStop
  BY <1>7 DEF MainStop
<1>8. CASE MainStopStream
  BY <1>8 DEF MainStopStream
<1>9. CASE MainStopRaw
  BY <1>9 DEF MainStopRaw
<1>10. CASE MainJoin
  BY <1>10 DEF MainJoin
<1>11. CASE MainWaited
  BY <1>11 DEF MainWaited
<1>12. CASE MainDeinit
  BY <1>12 DEF MainDeinit, RequestStop, QueuesToClose
<1>13. CASE MainCloseCamera
  BY <1>13 DEF MainCloseCamera
<1>14. CASE MainTeardown
  <2>1. live' \subseteq live
    BY <1>14 DEF MainTeardown
  <2>2. started = {} /\ started' = {} /\ todo' = todo /\ pc' = pc /\ pc["main"] = "teardown"
        /\ todo["main"] = {}
    BY <1>14 DEF MainTeardown, ThreadsInv
  <2>3. \A t \in Threads : todo'[t] = {}
    BY <1>0000, <2>2
  <2> QED
    BY <2>1, <2>2, <2>3
<1>15. CASE MainExit
  BY <1>15 DEF MainExit
<1>16. CASE MainSignal
  BY <1>16 DEF MainSignal
<1> QED
  BY <1>1, <1>2, <1>3, <1>4, <1>5, <1>6, <1>7, <1>8,
     <1>9, <1>10, <1>11, <1>12, <1>13, <1>14, <1>15, <1>16 DEF MainStep
-----------------------------------------------------------------------------
(* The outputs.                                                            *)

LEMMA MuxNeedsEncode ==
    ASSUME ThreadsInv, pc["mux"] # "none" \/ pc["encode"] # "none"
    PROVE  NeedEncode
  BY DEF ThreadsInv, Wanted, Workers

\* A step of another thread leaves the outputs alone.
LEMMA OthersKeepOutputs ==
    ASSUME OutputsInv, TrailersInv, pc'["mux"] = pc["mux"], failed \subseteq failed',
           UNCHANGED <<cfg, opened, header, written, trailers>>
    PROVE  OutputsInv' /\ TrailersInv'
<1>1. Outputs' = Outputs /\ (failed' = {} => failed = {})
  BY ConfigurationStays
<1>2. OutputsInv'
  BY <1>1 DEF OutputsInv
<1>3. TrailersInv'
  BY <1>1 DEF TrailersInv
<1> QED
  BY <1>2, <1>3

LEMMA MuxOutputs ==
    ASSUME TypeOK, MuxInv, OutputsInv, TrailersInv, NeedEncode, MuxStep
    PROVE  OutputsInv' /\ TrailersInv'
<1> DEFINE Goal == OutputsInv' /\ TrailersInv'
<1>1. /\ pc \in [Threads -> AllLabels] /\ "mux" \in Threads /\ opened \subseteq Muxers
      /\ written \in [Muxers -> Seq(1 .. CameraFrames)] /\ trailers \in [Muxers -> Nat]
  BY DEF TypeOK, Threads, Workers
<1>0. cfg.record \in BOOLEAN /\ cfg.rtsp \in BOOLEAN
  BY ConfigAssumption DEF TypeOK
<1>2. UNCHANGED cfg /\ failed \subseteq failed' /\ Outputs' = Outputs /\ pc["mux"] # "none"
  BY TypesGiveShapes, MuxMoves, ConfigurationStays DEF Moves
<1>3. failed' = {} => failed = {}
  BY <1>2
<1> USE <1>0, <1>1, <1>2, <1>3
    DEF At, Goto, Fails, Fault, NoFault, muxVars, MuxInv, OutputsInv, TrailersInv,
        Muxers, Outputs
<1>4. ASSUME NEW m \in Muxers, MuxOpen(m) PROVE Goal
  <2>1. CASE m = "record"
    <3>1. /\ pc["mux"] = "open_record" /\ pc'["mux"] = "header_record"
          /\ opened' = opened \cup {"record"}
          /\ UNCHANGED <<header, written, trailers, failed>>
      BY <1>4, <2>1 DEF MuxOpen, OpenLabel, HeaderLabel
    <3> QED
      BY <3>1
  <2>2. CASE m = "rtsp"
    <3>1. /\ pc["mux"] = "open_rtsp" /\ pc'["mux"] = "header_rtsp"
          /\ opened' = opened \cup {"rtsp"}
          /\ UNCHANGED <<header, written, trailers, failed>>
      BY <1>4, <2>2 DEF MuxOpen, OpenLabel, HeaderLabel
    <3> QED
      BY <3>1
  <2> QED
    BY <1>4, <2>1, <2>2
<1>5. ASSUME NEW m \in Muxers, MuxOpenFails(m) PROVE Goal
  BY <1>5 DEF MuxOpenFails, OpenLabel
<1>6. ASSUME NEW m \in Muxers, MuxHeader(m) PROVE Goal
  <2>1. CASE m = "record"
    <3>1. /\ pc["mux"] = "header_record"
          /\ pc'["mux"] = IF cfg.rtsp THEN "open_rtsp" ELSE "pop"
          /\ header' = header \cup {"record"}
          /\ UNCHANGED <<opened, written, trailers, failed>>
      BY <1>6, <2>1 DEF MuxHeader, HeaderLabel
    <3> QED
      BY <3>1
  <2>2. CASE m = "rtsp"
    <3>1. /\ pc["mux"] = "header_rtsp" /\ pc'["mux"] = "pop"
          /\ header' = header \cup {"rtsp"}
          /\ UNCHANGED <<opened, written, trailers, failed>>
      BY <1>6, <2>2 DEF MuxHeader, HeaderLabel
    <3> QED
      BY <3>1
  <2> QED
    BY <1>6, <2>1, <2>2
<1>7. ASSUME NEW m \in Muxers, MuxHeaderFails(m) PROVE Goal
  BY <1>7 DEF MuxHeaderFails, HeaderLabel
<1>8. ASSUME NEW m \in Muxers, MuxWrite(m) PROVE Goal
  BY <1>8 DEF MuxWrite, WriteLabel
<1>9. ASSUME NEW m \in Muxers, MuxWriteFails(m) PROVE Goal
  BY <1>9 DEF MuxWriteFails, WriteLabel
<1>10. ASSUME NEW m \in Muxers, MuxWriteEnds(m) PROVE Goal
  BY <1>10 DEF MuxWriteEnds, WriteLabel
<1>11. CASE MuxPop
  BY <1>11 DEF MuxPop
<1>12. CASE MuxPopFails
  BY <1>12 DEF MuxPopFails
<1>13. CASE MuxTrailer
  <2> DEFINE m == FirstIn(<<"record", "rtsp">>, header)
  <2>1. m \in header
    BY <1>13, NextToFinish DEF MuxTrailer
  <2>2. /\ trailers' = [trailers EXCEPT ![m] = trailers[m] + 1]
        /\ header' = header \ {m} /\ pc["mux"] = "finish"
        /\ UNCHANGED <<pc, opened, written>>
    BY <1>13 DEF MuxTrailer
  <2> HIDE DEF m
  <2> QED
    BY <2>1, <2>2
<1>14. CASE MuxClose
  <2>1. CASE opened # {}
    <3>1. header = {} /\ pc["mux"] = "finish" /\ opened' \subseteq opened
          /\ UNCHANGED <<pc, header, written, trailers, failed>>
      BY <1>14, <2>1 DEF MuxClose
    <3> QED
      BY <3>1
  <2>2. CASE opened = {}
    BY <1>14, <2>2 DEF MuxClose
  <2> QED
    BY <2>1, <2>2
<1> QED
  BY <1>4, <1>5, <1>6, <1>7, <1>8, <1>9, <1>10, <1>11, <1>12, <1>13, <1>14 DEF MuxStep

LEMMA MainOutputs ==
    ASSUME TypeOK, ThreadsInv, ComponentsInv, OutputsInv, TrailersInv, MainStep \/ MainSignal
    PROVE  OutputsInv' /\ TrailersInv'
<1>1. /\ ~MainCreate => pc'["mux"] = pc["mux"]
      /\ failed \subseteq failed' /\ UNCHANGED <<cfg, opened, header, written, trailers>>
  BY MainMoves, TypesGiveShapes DEF Workers
<1>2. CASE ~MainCreate
  BY <1>1, <1>2, OthersKeepOutputs
<1>3. CASE MainCreate
  <2> DEFINE t == FirstIn(StartOrder, Wanted \ started)
  <2>1. t \in Wanted \ started
    BY <1>3, NextToCreate, WantedNext DEF MainCreate, At, TypeOK
  <2>2. pc' = [pc EXCEPT ![t] = StartLabel[t],
                         !["main"] = IF started' = Wanted THEN "signal" ELSE "create"]
    BY <1>3 DEF MainCreate
  <2>3. pc["mux"] = "none" \/ t # "mux"
    BY <1>3, <2>1 DEF MainCreate, At, ThreadsInv, Workers
  <2> HIDE DEF t
  <2>4. CASE t # "mux"
    <3>1. pc'["mux"] = pc["mux"]
      BY <2>2, <2>4 DEF TypeOK, Threads, Workers
    <3> QED
      BY <1>1, <3>1, OthersKeepOutputs
  <2>5. CASE t = "mux"
    <3>1. NeedEncode /\ Outputs' = Outputs /\ NeedEncode' = NeedEncode
      BY <1>1, <2>1, <2>5, ConfigurationStays DEF Wanted
    <3>2. pc'["mux"] = IF cfg.record THEN "open_record" ELSE "open_rtsp"
      BY <2>2, <2>5 DEF TypeOK, Threads, Workers, StartLabel
    <3>3. OutputsInv'
      BY <1>1, <2>3, <2>5, <3>1, <3>2 DEF OutputsInv, NeedEncode, Outputs, Muxers
    <3>4. TrailersInv'
      BY <1>1, <2>3, <2>5, <3>1, <3>2 DEF TrailersInv
    <3> QED
      BY <3>3, <3>4
  <2> QED
    BY <2>4, <2>5
<1> QED
  BY <1>2, <1>3
-----------------------------------------------------------------------------
(* The inductive invariant for types and control.                          *)

ControlInv ==
    /\ TypeOK /\ ThreadsInv /\ ComponentsInv /\ ExtradataInv /\ WorkersInv
    /\ OutputsInv /\ TrailersInv

\* A worker that another thread's step leaves alone keeps its invariant.
LEMMA OthersKeepWorkers ==
    ASSUME UNCHANGED cfg, NEW t \in Threads, WorkersInv,
           \A u \in Workers \ {t} : hold'[u] = hold[u] /\ pc'[u] = pc[u],
           t # "capture" => UNCHANGED <<warm, pushed>>
    PROVE  /\ t # "capture" => CaptureInv'
           /\ t # "process" => ProcessInv'
           /\ t # "encode" => EncodeInv'
           /\ t # "mux" => MuxInv'
<1>1. NeedEncode' = NeedEncode
  BY ConfigurationStays
<1> USE <1>1 DEF WorkersInv, Workers
<1>2. t # "capture" => CaptureInv'
  BY DEF CaptureInv
<1>3. t # "process" => ProcessInv'
  BY DEF ProcessInv
<1>4. t # "encode" => EncodeInv'
  BY DEF EncodeInv
<1>5. t # "mux" => MuxInv'
  BY DEF MuxInv
<1> QED
  BY <1>2, <1>3, <1>4, <1>5

\* What a worker's step means for the types of the shared variables.
LEMMA MovesTyped ==
    ASSUME TypeOK, NEW t \in Workers, Moves(t), hold'[t] \in 0 .. CameraFrames
    PROVE  /\ cfg' \in Configs /\ started' \subseteq Workers /\ live' \subseteq Components
           /\ streaming' \in BOOLEAN /\ code' \in {"none", "0", "1"}
           /\ pc' \in [Threads -> AllLabels] /\ \A u \in Threads : pc'[u] \in Labels[u]
           /\ todo' \in [Threads -> SUBSET Queues]
           /\ hold' \in [Workers -> 0 .. CameraFrames]
<1> USE DEF TypeOK, Moves
<1>1. t \in Threads /\ Labels[t] \subseteq AllLabels
  BY DEF Threads, AllLabels
<1>2. pc' \in [Threads -> AllLabels] /\ \A u \in Threads : pc'[u] \in Labels[u]
  <2>1. pc' = [pc EXCEPT ![t] = pc'[t]] /\ pc'[t] \in Labels[t]
    OBVIOUS
  <2>2. pc \in [Threads -> AllLabels] /\ \A u \in Threads : pc[u] \in Labels[u]
    OBVIOUS
  <2> HIDE DEF TypeOK, Moves
  <2> QED
    BY <1>1, <2>1, <2>2
<1>3. todo' \in [Threads -> SUBSET Queues]
  <2>1. todo \in [Threads -> SUBSET Queues] /\ QueuesToClose \in SUBSET Queues
    BY DEF QueuesToClose
  <2>2. todo' = todo \/ todo' = [todo EXCEPT ![t] = QueuesToClose]
    OBVIOUS
  <2> HIDE DEF TypeOK, Moves
  <2> QED
    BY <1>1, <2>1, <2>2
<1>4. hold' \in [Workers -> 0 .. CameraFrames]
  OBVIOUS
<1> QED
  BY <1>2, <1>3, <1>4

LEMMA WorkersKeepExtradata ==
    ASSUME TypeOK, ThreadsInv, ComponentsInv, ExtradataInv, NEW t \in Workers, Moves(t),
           t \notin {"encode", "mux"} => items'["pkt"] = items["pkt"]
    PROVE  ExtradataInv'
<1>1. UNCHANGED live
  BY DEF Moves
<1>2. CASE t \in {"encode", "mux"}
  <2>1. NeedEncode /\ live = Configured
    BY <1>2, MuxNeedsEncode DEF Moves, ThreadsInv, ComponentsInv
  <2>2. {"encoder", "pkt"} \subseteq live
    BY <2>1 DEF Configured
  <2> QED
    BY <1>1, <2>2 DEF ExtradataInv
<1> QED
  BY <1>1, <1>2 DEF ExtradataInv

LEMMA WorkersKeepControl ==
    ASSUME ControlInv, CameraStep \/ CaptureStep \/ ProcessStep \/ EncodeStep \/ MuxStep
    PROVE  ControlInv'
<1>0. /\ TypeOK /\ ThreadsInv /\ ComponentsInv /\ ExtradataInv /\ WorkersInv
      /\ OutputsInv /\ TrailersInv /\ Shapes
      /\ CaptureInv /\ ProcessInv /\ EncodeInv /\ MuxInv
  BY TypesGiveShapes DEF ControlInv, WorkersInv
<1>1. ASSUME NEW t \in Workers, Moves(t)
      PROVE  /\ t \in Threads /\ UNCHANGED cfg /\ failed \subseteq failed'
             /\ \A u \in Workers \ {t} : hold'[u] = hold[u] /\ pc'[u] = pc[u]
  BY <1>0, <1>1 DEF Moves, Threads, Shapes
<1>2. CASE CameraStep \/ CaptureStep
  <2>1. /\ Moves("capture") /\ Touches({"raw"}) /\ "capture" \in Workers
        /\ UNCHANGED <<pending, opened, header, written, trailers, fed>>
    BY <1>0, <1>2, CaptureMoves DEF Workers
  <2>2. /\ FlagTypes' /\ QueueTypes' /\ CaptureInv'
        /\ hold'["capture"] \in 0 .. CameraFrames
        /\ warm' \in 0 .. WarmupFrames
        /\ taken' \in 0 .. CameraFrames
        /\ pushed' \in {"none", "OK", "EOF", "ERROR"}
    BY <1>0, <1>2, CaptureTypes
  <2>3. TypeOK'
    <3> HIDE <1>2
    <3> QED
      BY <1>0, <2>1, <2>2, MovesTyped DEF TypeOK, FlagTypes, QueueTypes
  <2>4. ThreadsInv' /\ ComponentsInv'
    BY <1>0, <2>1, WorkerControl DEF Queues
  <2>5. WorkersInv'
    BY <1>0, <1>1, <2>1, <2>2, OthersKeepWorkers DEF WorkersInv
  <2>6. ExtradataInv'
    BY <1>0, <2>1, WorkersKeepExtradata DEF Touches, Queues
  <2>7. OutputsInv' /\ TrailersInv'
    BY <1>0, <1>1, <2>1, OthersKeepOutputs DEF Workers
  <2> QED
    BY <2>3, <2>4, <2>5, <2>6, <2>7 DEF ControlInv
<1>3. CASE ProcessStep
  <2>1. /\ Moves("process") /\ Touches({"raw", "enc"}) /\ "process" \in Workers
        /\ UNCHANGED <<warm, taken, pushed, pending, opened, header, written, trailers>>
    BY <1>0, <1>3, ProcessMoves DEF Workers
  <2>2. /\ FlagTypes' /\ QueueTypes' /\ ProcessInv'
        /\ hold'["process"] \in 0 .. CameraFrames
        /\ fed' \in Seq(1 .. CameraFrames)
    BY <1>0, <1>3, ProcessTypes
  <2>3. TypeOK'
    <3> HIDE <1>3
    <3> QED
      BY <1>0, <2>1, <2>2, MovesTyped DEF TypeOK, FlagTypes, QueueTypes
  <2>4. ThreadsInv' /\ ComponentsInv'
    BY <1>0, <2>1, WorkerControl DEF Queues
  <2>5. WorkersInv'
    BY <1>0, <1>1, <2>1, <2>2, OthersKeepWorkers DEF WorkersInv
  <2>6. ExtradataInv'
    BY <1>0, <2>1, WorkersKeepExtradata DEF Touches, Queues
  <2>7. OutputsInv' /\ TrailersInv'
    BY <1>0, <1>1, <2>1, OthersKeepOutputs DEF Workers
  <2> QED
    BY <2>3, <2>4, <2>5, <2>6, <2>7 DEF ControlInv
<1>4. CASE EncodeStep
  <2>1. /\ Moves("encode") /\ Touches({"enc", "pkt"}) /\ "encode" \in Workers
        /\ UNCHANGED <<warm, taken, pushed, fed, opened, header, written, trailers>>
    BY <1>0, <1>4, EncodeMoves DEF Workers
  <2>2. /\ FlagTypes' /\ QueueTypes' /\ EncodeInv'
        /\ hold'["encode"] \in 0 .. CameraFrames
        /\ pending' \in Seq(1 .. CameraFrames) /\ Len(pending') <= EncoderDelay
    BY <1>0, <1>4, EncodeTypes
  <2>3. TypeOK'
    <3> HIDE <1>4
    <3> QED
      BY <1>0, <2>1, <2>2, MovesTyped DEF TypeOK, FlagTypes, QueueTypes
  <2>4. ThreadsInv' /\ ComponentsInv'
    BY <1>0, <2>1, WorkerControl DEF Queues
  <2>5. WorkersInv'
    BY <1>0, <1>1, <2>1, <2>2, OthersKeepWorkers DEF WorkersInv
  <2>6. ExtradataInv'
    BY <1>0, <2>1, WorkersKeepExtradata
  <2>7. OutputsInv' /\ TrailersInv'
    BY <1>0, <1>1, <2>1, OthersKeepOutputs DEF Workers
  <2> QED
    BY <2>3, <2>4, <2>5, <2>6, <2>7 DEF ControlInv
<1>5. CASE MuxStep
  <2>1. /\ Moves("mux") /\ Touches({"pkt"}) /\ "mux" \in Workers
        /\ UNCHANGED <<warm, taken, pushed, fed, pending>>
    BY <1>0, <1>5, MuxMoves DEF Workers
  <2>2. NeedEncode
    BY <1>0, <2>1, MuxNeedsEncode DEF Moves
  <2>3. MuxTyped' /\ OutputsInv' /\ TrailersInv'
    BY <1>0, <1>5, <2>2, MuxTypes, MuxOutputs
  <2>4. TypeOK'
    <3>1. header' \subseteq opened'
      BY <2>3 DEF OutputsInv
    <3> QED
      BY <1>0, <2>1, <2>3, <3>1, MovesTyped DEF TypeOK, MuxTyped, FlagTypes, QueueTypes
  <2>5. ThreadsInv' /\ ComponentsInv'
    BY <1>0, <2>1, WorkerControl DEF Queues
  <2>6. WorkersInv'
    BY <1>0, <1>1, <2>1, <2>3, OthersKeepWorkers DEF WorkersInv, MuxTyped
  <2>7. ExtradataInv'
    BY <1>0, <2>1, WorkersKeepExtradata
  <2> QED
    BY <2>3, <2>4, <2>5, <2>6, <2>7 DEF ControlInv
<1> QED
  BY <1>2, <1>3, <1>4, <1>5

LEMMA MainKeepsTypes ==
    ASSUME TypeOK, ThreadsInv, ComponentsInv, MainStep \/ MainSignal
    PROVE  TypeOK'
<1>1. /\ MainTyped'
      /\ ~MainCreate => \A t \in Workers : pc'[t] = pc[t]
      /\ ~MainTeardown => UNCHANGED items
      /\ closed \subseteq closed' /\ closed' \subseteq closed \cup {"raw"}
      /\ UNCHANGED <<cfg, hold, ended, warm, taken, pushed, pending, opened, header,
                     written, trailers, fed>>
  BY MainTypes, MainMoves, TypesGiveShapes
<1>2. \A t \in Threads : pc'[t] \in Labels[t]
  <2>1. CASE MainCreate
    <3> DEFINE t == FirstIn(StartOrder, Wanted \ started)
    <3>1. t \in Workers
      BY <2>1, NextToCreate, WantedNext DEF MainCreate, At, TypeOK
    <3>2. StartLabel[t] \in Labels[t]
      BY <3>1 DEF StartLabel, Labels, Workers
    <3>3. pc' = [pc EXCEPT ![t] = StartLabel[t],
                           !["main"] = IF started' = Wanted THEN "signal" ELSE "create"]
      BY <2>1 DEF MainCreate
    <3> HIDE DEF t
    <3> QED
      BY <1>1, <3>1, <3>2, <3>3 DEF MainTyped, TypeOK, Threads, Workers
  <2>2. CASE ~MainCreate
    BY <1>1, <2>2 DEF MainTyped, TypeOK, Threads
  <2> QED
    BY <2>1, <2>2
<1>3. /\ items' \in [Queues -> Seq(1 .. CameraFrames)]
      /\ \A c \in Queues : Len(items'[c]) <= QueueSize
  <2>1. CASE MainTeardown
    <3>1. PICK x : items' = [c \in Queues |-> IF c = x THEN <<>> ELSE items[c]]
      BY <2>1 DEF MainTeardown
    <3>2. <<>> \in Seq(1 .. CameraFrames) /\ Len(<<>>) <= QueueSize
      BY SizeAssumption
    <3> QED
      BY <3>1, <3>2 DEF TypeOK
  <2>2. CASE ~MainTeardown
    BY <1>1, <2>2 DEF TypeOK
  <2> QED
    BY <2>1, <2>2
<1>4. closed' \subseteq Queues
  BY <1>1 DEF TypeOK, Queues
<1> QED
  BY <1>1, <1>2, <1>3, <1>4 DEF TypeOK, MainTyped, FlagTypes

\* Main creates the next thread; that thread had nothing in hand.
LEMMA CreateStarts ==
    ASSUME TypeOK, ThreadsInv, MainCreate
    PROVE  \E t \in Wanted \ started :
              /\ t \in Workers /\ pc[t] = "none"
              /\ started' = started \cup {t}
              /\ pc' = [pc EXCEPT ![t] = StartLabel[t],
                                  !["main"] = IF started' = Wanted THEN "signal"
                                                                   ELSE "create"]
              /\ NoFault
              /\ UNCHANGED <<cfg, hold, captureVars, pending, muxVars, fed, chan, live,
                             streaming, code>>
<1> DEFINE t == FirstIn(StartOrder, Wanted \ started)
<1>1. t \in Wanted \ started /\ t \in Workers
  BY NextToCreate, WantedNext DEF MainCreate, At, TypeOK
<1>2. pc[t] = "none"
  BY <1>1 DEF MainCreate, At, ThreadsInv
<1> QED
  BY <1>1, <1>2 DEF MainCreate, MainFrame

LEMMA MainWorkers ==
    ASSUME TypeOK, ThreadsInv, WorkersInv, MainStep \/ MainSignal
    PROVE  WorkersInv'
<1>0. /\ ~MainCreate => \A t \in Workers : pc'[t] = pc[t]
      /\ UNCHANGED <<cfg, hold, warm, pushed>>
  BY MainMoves, TypesGiveShapes
<1>1. CASE ~MainCreate
  BY <1>0, <1>1, OthersKeepWorkers DEF WorkersInv, Threads
<1>2. CASE MainCreate
  <2>1. PICK t \in Wanted \ started :
           /\ t \in Workers /\ pc[t] = "none"
           /\ pc' = [pc EXCEPT ![t] = StartLabel[t],
                               !["main"] = IF started' = Wanted THEN "signal" ELSE "create"]
    BY <1>2, CreateStarts
  <2>2. /\ t \in Threads /\ t # "main" /\ pc'[t] = StartLabel[t]
        /\ \A u \in Workers \ {t} : pc'[u] = pc[u]
    BY <2>1 DEF TypeOK, Workers, Threads
  <2>3. NeedEncode' = NeedEncode
    BY <1>0, ConfigurationStays
  <2>4. CaptureInv'
    <3>1. t = "capture" => pc'["capture"] = "warmup" /\ pc["capture"] = "none"
      BY <2>1, <2>2 DEF StartLabel
    <3>2. t # "capture" => pc'["capture"] = pc["capture"]
      BY <2>2 DEF Workers
    <3> QED
      BY <1>0, <3>1, <3>2 DEF WorkersInv, CaptureInv
  <2>5. ProcessInv'
    <3>1. t = "process" => pc'["process"] = "loop" /\ pc["process"] = "none"
      BY <2>1, <2>2 DEF StartLabel
    <3>2. t # "process" => pc'["process"] = pc["process"]
      BY <2>2 DEF Workers
    <3> QED
      BY <1>0, <2>3, <3>1, <3>2 DEF WorkersInv, ProcessInv
  <2>6. EncodeInv'
    <3>1. t = "encode" => pc'["encode"] = "pop" /\ pc["encode"] = "none"
      BY <2>1, <2>2 DEF StartLabel
    <3>2. t # "encode" => pc'["encode"] = pc["encode"]
      BY <2>2 DEF Workers
    <3> QED
      BY <1>0, <3>1, <3>2 DEF WorkersInv, EncodeInv
  <2>7. MuxInv'
    <3>1. CASE t = "mux"
      <4>1. NeedEncode /\ pc'["mux"] = IF cfg.record THEN "open_record" ELSE "open_rtsp"
        BY <2>1, <2>2, <3>1 DEF Wanted, StartLabel
      <4> QED
        BY <1>0, <2>1, <3>1, <4>1 DEF WorkersInv, MuxInv, NeedEncode
    <3>2. CASE t # "mux"
      BY <1>0, <2>2, <3>2 DEF WorkersInv, MuxInv, Workers
    <3> QED
      BY <3>1, <3>2
  <2> QED
    BY <2>4, <2>5, <2>6, <2>7 DEF WorkersInv
<1> QED
  BY <1>1, <1>2

LEMMA MainExtradata ==
    ASSUME TypeOK, ComponentsInv, ExtradataInv, MainStep \/ MainSignal
    PROVE  ExtradataInv'
<1>1. CASE MainTeardown
  <2> DEFINE x == FirstIn(TeardownOrder, live)
  <2>1. x \in live /\ (x = "encoder" => "pkt" \notin live)
    BY <1>1, NextToTearDown DEF MainTeardown, TypeOK
  <2>2. /\ live' = live \ {x}
        /\ items' = [c \in Queues |-> IF c = x THEN <<>> ELSE items[c]]
    BY <1>1 DEF MainTeardown
  <2> HIDE DEF x
  <2>3. items'["pkt"] = IF "pkt" = x THEN <<>> ELSE items["pkt"]
    BY <2>2 DEF Queues
  <2> QED
    BY <2>1, <2>2, <2>3 DEF ExtradataInv
<1>2. CASE ~MainTeardown
  <2>1. UNCHANGED items
    BY <1>2, MainMoves, TypesGiveShapes
  <2>2. live \subseteq live'
    BY <1>2 DEF MainStep, MainSignal, MainInit, MainGivesUp, MainOpen, MainStream, MainCreate,
                MainCreateFails, MainStop, MainStopStream, MainStopRaw, MainJoin, MainWaited,
                MainDeinit, MainCloseCamera, MainExit, mainVars
  <2> QED
    BY <2>1, <2>2 DEF ExtradataInv
<1> QED
  BY <1>1, <1>2

LEMMA CloseKeepsRest ==
    ASSUME ControlInv, NEW t \in Threads, CloseNext(t)
    PROVE  ControlInv'
<1>1. UNCHANGED <<cfg, stop, error, pc, items, ended, hold, started, live, streaming, code,
                  warm, taken, pushed, pending, opened, header, written, trailers, fed,
                  failed>>
  BY CloseControl DEF ControlInv
<1>2. TypeOK' /\ ThreadsInv' /\ ComponentsInv'
  BY CloseKeepsControl DEF ControlInv
<1>3. ExtradataInv'
  BY <1>1 DEF ControlInv, ExtradataInv
<1>4. WorkersInv'
  BY <1>1 DEF ControlInv, WorkersInv, CaptureInv, ProcessInv, EncodeInv, MuxInv, NeedEncode
<1>5. OutputsInv' /\ TrailersInv'
  BY <1>1, OthersKeepOutputs DEF ControlInv
<1> QED
  BY <1>2, <1>3, <1>4, <1>5 DEF ControlInv

LEMMA StutterKeepsControl ==
    ASSUME ControlInv, UNCHANGED vars
    PROVE  ControlInv'
  BY DEF ControlInv, vars, mainVars, chan, captureVars, muxVars, TypeOK, ThreadsInv,
         ComponentsInv, ExtradataInv, WorkersInv, CaptureInv, ProcessInv, EncodeInv, MuxInv,
         OutputsInv, TrailersInv, NeedEncode, Outputs, Wanted, Configured

LEMMA ControlStarts == Init => ControlInv
<1> SUFFICES ASSUME Init PROVE ControlInv
  OBVIOUS
<1> USE DEF Init
<1>1. TypeOK
  <2>1. pc \in [Threads -> AllLabels] /\ \A t \in Threads : pc[t] \in Labels[t]
    <3>1. \A t \in Threads : pc[t] \in Labels[t]
      BY DEF Labels, Threads, Workers
    <3>2. pc = [t \in Threads |-> pc[t]]
      OBVIOUS
    <3> QED
      BY <3>1, <3>2 DEF AllLabels
  <2>2. /\ items \in [Queues -> Seq(1 .. CameraFrames)]
        /\ \A c \in Queues : Len(items[c]) <= QueueSize
    BY SizeAssumption
  <2>3. /\ hold \in [Workers -> 0 .. CameraFrames]
        /\ warm \in 0 .. WarmupFrames /\ taken \in 0 .. CameraFrames
        /\ pending \in Seq(1 .. CameraFrames) /\ Len(pending) <= EncoderDelay
    BY SizeAssumption
  <2>4. /\ written \in [Muxers -> Seq(1 .. CameraFrames)] /\ trailers \in [Muxers -> Nat]
        /\ fed \in Seq(1 .. CameraFrames) /\ todo \in [Threads -> SUBSET Queues]
    OBVIOUS
  <2> QED
    BY <2>1, <2>2, <2>3, <2>4 DEF TypeOK
<1>2. ThreadsInv
  BY DEF ThreadsInv, Threads, Workers
<1>3. ComponentsInv
  <2>1. "capture" \in Configured
    BY DEF Configured
  <2> QED
    BY <2>1 DEF ComponentsInv, Threads, Complete
<1>4. ExtradataInv
  BY DEF ExtradataInv, Queues
<1>5. WorkersInv
  BY DEF WorkersInv, CaptureInv, ProcessInv, EncodeInv, MuxInv, Threads, Workers
<1>6. OutputsInv /\ TrailersInv
  BY DEF OutputsInv, TrailersInv, Threads, Workers, Outputs, Muxers
<1> QED
  BY <1>1, <1>2, <1>3, <1>4, <1>5, <1>6 DEF ControlInv

LEMMA ControlStays == ControlInv /\ [Next]_vars => ControlInv'
<1> SUFFICES ASSUME ControlInv, [Next]_vars PROVE ControlInv'
  OBVIOUS
<1>1. CASE CameraStep \/ CaptureStep \/ ProcessStep \/ EncodeStep \/ MuxStep
  BY <1>1, WorkersKeepControl
<1>2. CASE MainStep \/ MainSignal
  <2>1. TypeOK /\ ThreadsInv /\ ComponentsInv /\ ExtradataInv /\ WorkersInv
        /\ OutputsInv /\ TrailersInv
    BY DEF ControlInv
  <2>2. TypeOK'
    BY <1>2, <2>1, MainKeepsTypes
  <2>3. ThreadsInv' /\ ComponentsInv'
    BY <1>2, <2>1, MainThreads, MainComponents
  <2>4. ExtradataInv' /\ WorkersInv'
    BY <1>2, <2>1, MainExtradata, MainWorkers
  <2>5. OutputsInv' /\ TrailersInv'
    BY <1>2, <2>1, MainOutputs
  <2> QED
    BY <2>2, <2>3, <2>4, <2>5 DEF ControlInv
<1>3. CASE \E t \in Threads : CloseNext(t)
  BY <1>3, CloseKeepsRest
<1>4. CASE UNCHANGED vars
  BY <1>4, StutterKeepsControl
<1> QED
  BY <1>1, <1>2, <1>3, <1>4 DEF Next, Terminated

LEMMA ControlHolds == Spec => []ControlInv
  BY ControlStarts, ControlStays, PTL DEF Spec

-----------------------------------------------------------------------------
(* The theorems.                                                           *)

\* The range of every variable of the pipeline, whatever the configuration, the
\* queue size, the delay of the encoder and the failures.
THEOREM PipelineTypes == Spec => []TypeOK
  BY ControlHolds, PTL DEF ControlInv

\* Property NoUseAfterTeardown: a thread uses a component only between the making
\* of it in AppPipeline_Init and its end in AppPipeline_Deinit.
THEOREM ComponentsOutlive == Spec => []NoUseAfterTeardown
<1>1. ControlInv => NoUseAfterTeardown
  <2> SUFFICES ASSUME ControlInv PROVE NoUseAfterTeardown
    OBVIOUS
  <2>0. ThreadsInv /\ ComponentsInv /\ ExtradataInv /\ MuxInv
    BY DEF ControlInv, WorkersInv
  <2>1. ASSUME NEW t \in Workers, Running(t) PROVE live = Configured /\ t \in Wanted
    BY <2>0, <2>1 DEF Running, ThreadsInv, ComponentsInv
  <2>2. ASSUME NEW t \in Workers, Running(t) PROVE Uses[t] \subseteq live
    <3>1. t \in {"encode", "mux"} => NeedEncode
      BY <2>1, <2>2 DEF Wanted
    <3>2. Uses[t] \subseteq Configured
      BY <2>2, <3>1 DEF Uses, Configured, Workers
    <3> QED
      BY <2>1, <2>2, <3>2
  <2>3. hold["mux"] # 0 => "encoder" \in live
    <3>1. ASSUME hold["mux"] # 0 PROVE "encoder" \in live
      <4>1. Running("mux") /\ "mux" \in Workers
        BY <2>0, <3>1 DEF MuxInv, Running, Workers
      <4>2. live = Configured /\ NeedEncode
        BY <2>1, <4>1 DEF Wanted
      <4> QED
        BY <4>2 DEF Configured
    <3> QED
      BY <3>1
  <2> QED
    BY <2>0, <2>2, <2>3 DEF NoUseAfterTeardown, ComponentsInv, ExtradataInv
<1> QED
  BY <1>1, ControlHolds, PTL

\* Property OutputsFinished: mux_thread_main ends with every output closed, and
\* one that has a packet, or met no failure, has exactly one trailer.
THEOREM OutputsAreFinished == Spec => []OutputsFinished
<1>1. ControlInv => OutputsFinished
  <2> SUFFICES ASSUME ControlInv, pc["mux"] = "done"
               PROVE  /\ opened = {} /\ header = {}
                      /\ \A m \in Outputs : written[m] # <<>> \/ failed = {} => trailers[m] = 1
    BY DEF OutputsFinished
  <2>1. opened = {} /\ header = {}
    BY DEF ControlInv, OutputsInv
  <2>2. \A m \in Outputs : written[m] # <<>> \/ failed = {} => trailers[m] = 1
    BY <2>1 DEF ControlInv, TrailersInv
  <2> QED
    BY <2>1, <2>2
<1> QED
  BY <1>1, ControlHolds, PTL

LEMMA TrailerIsLast ==
    ASSUME ControlInv, [Next]_vars, NEW m \in Muxers
    PROVE  /\ trailers[m] > 0 => written'[m] = written[m] /\ trailers'[m] = trailers[m]
           /\ m \in opened \ opened' => m \notin header
<1> DEFINE Goal == /\ trailers[m] > 0 => written'[m] = written[m] /\ trailers'[m] = trailers[m]
                   /\ m \in opened \ opened' => m \notin header
<1>0. /\ TypeOK /\ Shapes /\ OutputsInv /\ TrailersInv /\ trailers \in [Muxers -> Nat]
      /\ written \in [Muxers -> Seq(1 .. CameraFrames)]
  BY TypesGiveShapes DEF ControlInv, TypeOK
<1>00. trailers[m] > 0 => pc["mux"] \in {"finish", "done"} /\ m \notin header
  BY <1>0 DEF TrailersInv
<1>1. CASE UNCHANGED <<opened, header, written, trailers>>
  BY <1>1
<1>2. CASE MuxStep
  <2> USE <1>0, <1>00 DEF At, Goto, Fails, muxVars
  <2>1. ASSUME NEW n \in Muxers, MuxOpen(n) \/ MuxOpenFails(n) PROVE Goal
    BY <2>1 DEF MuxOpen, MuxOpenFails
  <2>2. ASSUME NEW n \in Muxers, MuxHeader(n) \/ MuxHeaderFails(n) PROVE Goal
    BY <2>2 DEF MuxHeader, MuxHeaderFails
  <2>3. ASSUME NEW n \in Muxers, MuxWrite(n) PROVE Goal
    BY <2>3 DEF MuxWrite, WriteLabel
  <2>4. ASSUME NEW n \in Muxers, MuxWriteFails(n) \/ MuxWriteEnds(n) PROVE Goal
    BY <2>4 DEF MuxWriteFails, MuxWriteEnds
  <2>5. CASE MuxPop \/ MuxPopFails
    BY <2>5 DEF MuxPop, MuxPopFails
  <2>6. CASE MuxTrailer
    <3> DEFINE n == FirstIn(<<"record", "rtsp">>, header)
    <3>1. n \in header
      BY <2>6, NextToFinish DEF MuxTrailer, TypeOK
    <3>2. trailers' = [trailers EXCEPT ![n] = trailers[n] + 1] /\ UNCHANGED <<opened, written>>
      BY <2>6 DEF MuxTrailer
    <3> HIDE DEF n
    <3> QED
      BY <3>1, <3>2
  <2>7. CASE MuxClose
    BY <2>7 DEF MuxClose
  <2> QED
    BY <1>2, <2>1, <2>2, <2>3, <2>4, <2>5, <2>6, <2>7 DEF MuxStep
<1>3. CASE CameraStep \/ CaptureStep
  BY <1>0, <1>1, <1>3, CaptureMoves
<1>4. CASE ProcessStep
  BY <1>0, <1>1, <1>4, ProcessMoves
<1>5. CASE EncodeStep
  BY <1>0, <1>1, <1>5, EncodeMoves
<1>6. CASE MainStep \/ MainSignal
  BY <1>0, <1>1, <1>6, MainMoves
<1>7. ASSUME NEW t \in Threads, CloseNext(t) PROVE Goal
  BY <1>0, <1>1, <1>7, CloseControl
<1>8. CASE UNCHANGED vars
  BY <1>1, <1>8 DEF vars, muxVars
<1> QED
  BY <1>2, <1>3, <1>4, <1>5, <1>6, <1>7, <1>8 DEF Next, Terminated

\* Property NothingAfterTrailer, of every step: what follows a trailer is the close.
THEOREM TrailersAreLast == Spec => NothingAfterTrailer
<1>1. ControlInv /\ [Next]_vars =>
        [\A m \in Muxers :
           /\ trailers[m] > 0 => written'[m] = written[m] /\ trailers'[m] = trailers[m]
           /\ m \in opened \ opened' => m \notin header]_vars
  BY TrailerIsLast
<1> QED
  BY <1>1, ControlHolds, PTL DEF Spec, NothingAfterTrailer

-----------------------------------------------------------------------------
(* The queues.                                                             *)

\* What a thread does to the queues in one step: at most one operation on one.
QueueOperation ==
    \/ UNCHANGED chan
    \/ \E c \in Queues :
          \/ \E f \in 1 .. CameraFrames : CanPut(c) /\ Put(c, f)
          \/ CanTake(c) /\ Take(c)
          \/ AtEnd(c) /\ TellEnd(c)
          \/ Close(c)

LEMMA CaptureOperation ==
    ASSUME TypeOK, CaptureInv, CameraStep \/ CaptureStep
    PROVE  QueueOperation
<1>1. CASE CapturePush
  <2>1. hold["capture"] \in 1 .. CameraFrames
    BY <1>1 DEF CapturePush, At, TypeOK, CaptureInv, Workers
  <2> QED
    BY <1>1, <2>1 DEF CapturePush, QueueOperation, Queues
<1>2. CASE CaptureExit
  BY <1>2 DEF CaptureExit, QueueOperation, Queues
<1>3. CASE CameraStep
  BY <1>3 DEF QueueOperation, CameraStep, WarmupGet, WarmupEnd, WarmupFails, CaptureGet,
              CaptureAgain, CaptureEnd, CaptureGetFails
<1>4. CASE \/ WarmupHead \/ WarmupStopped \/ CaptureHead \/ CaptureStopped
           \/ CaptureRelease \/ CaptureReleaseFails
  BY <1>4 DEF QueueOperation, WarmupHead, WarmupStopped, CaptureHead, CaptureStopped,
              CaptureRelease, CaptureReleaseFails
<1> QED
  BY <1>1, <1>2, <1>3, <1>4 DEF CaptureStep

LEMMA ProcessOperation ==
    ASSUME TypeOK, ProcessInv, ProcessStep
    PROVE  QueueOperation
<1>1. CASE ProcessPop
  BY <1>1 DEF ProcessPop, QueueOperation, Queues
<1>2. CASE ProcessPush
  <2>1. hold["process"] \in 1 .. CameraFrames
    BY <1>2 DEF ProcessPush, At, TypeOK, ProcessInv, Workers
  <2> QED
    BY <1>2, <2>1 DEF ProcessPush, QueueOperation, Queues
<1>3. CASE ProcessExit
  BY <1>3 DEF ProcessExit, QueueOperation, Queues
<1>4. CASE \/ ProcessHead \/ ProcessPopFails \/ ProcessWork \/ ProcessWorkFails
           \/ ProcessWorkEnds \/ ProcessOsdFails \/ ProcessViewClosed \/ ProcessPushFails
  BY <1>4 DEF QueueOperation, ProcessHead, ProcessPopFails, ProcessWork, ProcessWorkFails,
              ProcessWorkEnds, ProcessOsdFails, ProcessViewClosed, ProcessPushFails
<1> QED
  BY <1>1, <1>2, <1>3, <1>4 DEF ProcessStep

LEMMA EncodeOperation ==
    ASSUME TypeOK, EncodeInv, EncodeStep
    PROVE  QueueOperation
<1>1. CASE EncodePop
  BY <1>1 DEF EncodePop, QueueOperation, Queues
<1>2. CASE EncodePush
  <2>1. hold["encode"] \in 1 .. CameraFrames
    BY <1>2 DEF EncodePush, At, TypeOK, EncodeInv, Workers
  <2> QED
    BY <1>2, <2>1 DEF EncodePush, QueueOperation, Queues
<1>3. CASE EncodeExit
  BY <1>3 DEF EncodeExit, QueueOperation, Queues
<1>4. CASE \/ EncodePopFails \/ EncodeOne \/ EncodeFails \/ EncodeEnds \/ EncodePushFails
           \/ EncodeFlush \/ EncodeFlushFails
  BY <1>4 DEF QueueOperation, EncodePopFails, EncodeOne, EncodeFails, EncodeEnds,
              EncodePushFails, EncodeFlush, EncodeFlushFails
<1> QED
  BY <1>1, <1>2, <1>3, <1>4 DEF EncodeStep

LEMMA MuxOperation ==
    ASSUME MuxStep
    PROVE  QueueOperation
<1>1. CASE MuxPop
  BY <1>1 DEF MuxPop, QueueOperation, Queues
<1>2. ASSUME NEW m \in Muxers,
             \/ MuxOpen(m) \/ MuxOpenFails(m) \/ MuxHeader(m) \/ MuxHeaderFails(m)
             \/ MuxWrite(m) \/ MuxWriteFails(m) \/ MuxWriteEnds(m)
      PROVE  QueueOperation
  BY <1>2 DEF QueueOperation, MuxOpen, MuxOpenFails, MuxHeader, MuxHeaderFails, MuxWrite,
              MuxWriteFails, MuxWriteEnds
<1>3. CASE MuxPopFails \/ MuxTrailer \/ MuxClose
  BY <1>3 DEF QueueOperation, MuxPopFails, MuxTrailer, MuxClose
<1> QED
  BY <1>1, <1>2, <1>3 DEF MuxStep

LEMMA MainOperation ==
    ASSUME MainStep \/ MainSignal
    PROVE  QueueOperation \/ MainTeardown
<1>1. CASE MainStopRaw
  BY <1>1 DEF MainStopRaw, QueueOperation, Queues
<1>2. CASE MainStep /\ ~MainStopRaw /\ ~MainTeardown
  BY <1>2 DEF QueueOperation, MainStep, MainInit, MainGivesUp, MainOpen, MainStream,
              MainCreate, MainCreateFails, MainStop, MainStopStream, MainJoin,
              MainWaited, MainDeinit, MainCloseCamera, MainExit
<1>3. CASE MainSignal
  BY <1>3 DEF MainSignal, QueueOperation
<1> QED
  BY <1>1, <1>2, <1>3

\* What BoundedChannel allows to one queue.
ChannelStep(c) ==
    \/ /\ c \notin closed /\ Len(items[c]) < QueueSize
       /\ \E f \in 1 .. CameraFrames : items'[c] = Append(items[c], f)
       /\ c \notin closed' /\ (c \in ended' <=> c \in ended)
    \/ /\ items[c] # <<>> /\ items'[c] = Tail(items[c])
       /\ (c \in closed' <=> c \in closed) /\ (c \in ended' <=> c \in ended)
    \/ /\ c \in closed /\ items[c] = <<>> /\ c \in ended'
       /\ items'[c] = items[c] /\ c \in closed'
    \/ c \in closed' /\ items'[c] = items[c] /\ (c \in ended' <=> c \in ended)
    \/ /\ c \in closed /\ c \in closed' /\ items'[c] = <<>>
       /\ (c \in ended' <=> c \in ended)
    \/ /\ items'[c] = items[c]
       /\ (c \in closed' <=> c \in closed) /\ (c \in ended' <=> c \in ended)

LEMMA OperationIsChannelStep ==
    ASSUME TypeOK, QueueOperation, NEW d \in Queues
    PROVE  ChannelStep(d)
<1>0. items \in [Queues -> Seq(1 .. CameraFrames)]
  BY DEF TypeOK
<1>1. CASE UNCHANGED chan
  BY <1>1 DEF chan, ChannelStep
<1>2. ASSUME NEW c \in Queues, NEW f \in 1 .. CameraFrames, CanPut(c), Put(c, f)
      PROVE  ChannelStep(d)
  <2>1. /\ items' = [items EXCEPT ![c] = Append(items[c], f)]
        /\ UNCHANGED <<closed, ended>> /\ c \notin closed /\ Len(items[c]) < QueueSize
    BY <1>2 DEF CanPut, Put
  <2> QED
    BY <1>0, <2>1 DEF ChannelStep
<1>3. ASSUME NEW c \in Queues, CanTake(c), Take(c) PROVE ChannelStep(d)
  <2>1. /\ items' = [items EXCEPT ![c] = Tail(items[c])]
        /\ UNCHANGED <<closed, ended>> /\ items[c] # <<>>
    BY <1>3 DEF CanTake, Take
  <2> QED
    BY <1>0, <2>1 DEF ChannelStep
<1>4. ASSUME NEW c \in Queues, AtEnd(c) /\ TellEnd(c) PROVE ChannelStep(d)
  BY <1>4 DEF AtEnd, TellEnd, ChannelStep
<1>5. ASSUME NEW c \in Queues, Close(c) PROVE ChannelStep(d)
  BY <1>5 DEF Close, ChannelStep
<1> QED
  BY <1>1, <1>2, <1>3, <1>4, <1>5 DEF QueueOperation

LEMMA StepIsChannelStep ==
    ASSUME ControlInv, [Next]_vars, NEW c \in Queues
    PROVE  ChannelStep(c)
<1>0. TypeOK /\ ComponentsInv /\ CaptureInv /\ ProcessInv /\ EncodeInv
  BY DEF ControlInv, WorkersInv
<1>1. CASE CameraStep \/ CaptureStep \/ ProcessStep \/ EncodeStep \/ MuxStep
  BY <1>0, <1>1, CaptureOperation, ProcessOperation, EncodeOperation, MuxOperation,
     OperationIsChannelStep
<1>2. CASE MainTeardown
  <2> DEFINE x == FirstIn(TeardownOrder, live)
  <2>1. x \in live /\ todo["main"] = {} /\ pc["main"] = "teardown"
    BY <1>0, <1>2, NextToTearDown DEF MainTeardown, At, TypeOK
  <2>2. Queues \cap live \subseteq closed
    BY <1>0, <2>1 DEF ComponentsInv
  <2>3. /\ items' = [d \in Queues |-> IF d = x THEN <<>> ELSE items[d]]
        /\ UNCHANGED <<closed, ended>>
    BY <1>2 DEF MainTeardown
  <2> HIDE DEF x
  <2> QED
    BY <2>1, <2>2, <2>3 DEF ChannelStep
<1>3. CASE (MainStep \/ MainSignal) /\ ~MainTeardown
  BY <1>0, <1>3, MainOperation, OperationIsChannelStep
<1>4. ASSUME NEW t \in Threads, CloseNext(t) PROVE ChannelStep(c)
  <2>1. PICK d \in Queues : closed' = closed \cup {d} /\ UNCHANGED <<items, ended>>
    BY <1>0, <1>4, CloseControl DEF TypeOK
  <2> QED
    BY <2>1 DEF ChannelStep
<1>5. CASE UNCHANGED vars
  BY <1>5 DEF vars, chan, ChannelStep
<1> QED
  BY <1>1, <1>2, <1>3, <1>4, <1>5 DEF Next, Terminated

\* Property QueuesAreChannels: the pipeline uses each of its three queues as the
\* channel it is, which ThreadQueue shows the mutex and the conditions to be.
THEOREM PipelineUsesChannels == Spec => QueuesAreChannels
<1>1. Init => RawQueue!Init /\ EncodeQueue!Init /\ PacketQueue!Init
  BY DEF Init, RawQueue!Init, EncodeQueue!Init, PacketQueue!Init, Queues
<1>2. ControlInv /\ [Next]_vars => [RawQueue!Next]_RawQueue!vars
  <2> SUFFICES ASSUME ControlInv, [Next]_vars PROVE [RawQueue!Next]_RawQueue!vars
    OBVIOUS
  <2>1. ChannelStep("raw")
    BY StepIsChannelStep DEF Queues
  <2> QED
    BY <2>1 DEF ChannelStep, RawQueue!Next, RawQueue!Put, RawQueue!Take, RawQueue!TellEnd,
                RawQueue!Shut, RawQueue!Discard, RawQueue!vars
<1>3. ControlInv /\ [Next]_vars => [EncodeQueue!Next]_EncodeQueue!vars
  <2> SUFFICES ASSUME ControlInv, [Next]_vars PROVE [EncodeQueue!Next]_EncodeQueue!vars
    OBVIOUS
  <2>1. ChannelStep("enc")
    BY StepIsChannelStep DEF Queues
  <2> QED
    BY <2>1 DEF ChannelStep, EncodeQueue!Next, EncodeQueue!Put, EncodeQueue!Take,
                EncodeQueue!TellEnd, EncodeQueue!Shut, EncodeQueue!Discard, EncodeQueue!vars
<1>4. ControlInv /\ [Next]_vars => [PacketQueue!Next]_PacketQueue!vars
  <2> SUFFICES ASSUME ControlInv, [Next]_vars PROVE [PacketQueue!Next]_PacketQueue!vars
    OBVIOUS
  <2>1. ChannelStep("pkt")
    BY StepIsChannelStep DEF Queues
  <2> QED
    BY <2>1 DEF ChannelStep, PacketQueue!Next, PacketQueue!Put, PacketQueue!Take,
                PacketQueue!TellEnd, PacketQueue!Shut, PacketQueue!Discard, PacketQueue!vars
<1> QED
  BY <1>1, <1>2, <1>3, <1>4, ControlHolds, PTL
  DEF Spec, QueuesAreChannels, RawQueue!Spec, EncodeQueue!Spec, PacketQueue!Spec

-----------------------------------------------------------------------------
(* The exit status.  A failing frame processor is left out: it leaves the  *)
(* positive code 1, for which main exits with status 0.                    *)

LEMMA FaultKinds ==
    /\ {"get", "release", "raw_push", "raw_pop", "convert", "view", "enc_push", "enc_pop",
        "encode", "pkt_push", "flush", "pkt_pop", "mux_open", "mux_header", "mux_write",
        "mux_trailer", "stopped_in_warmup"} \subseteq Reported \ StartFaults
    /\ StartFaults \subseteq Reported
    /\ {"get_late", "get_again", "get_eof", "convert_eof", "encode_eof", "mux_write_eof",
        "view_closed"} \cap Reported = {}
  BY DEF Reported, FaultNames, StartFaults

\* The capture thread has a failed push that it did not note yet.
PushFailed == pc["capture"] = "release" /\ pushed = "ERROR"

\* What a worker's step does to the error: nothing, or it notes one that there is.
NotesErrors ==
    /\ failed \subseteq failed' /\ failed' \cap StartFaults = failed \cap StartFaults
    /\ \/ /\ error' = error /\ failed' \cap Reported = failed \cap Reported
          /\ PushFailed' = PushFailed
       \/ /\ error' = "negative" /\ failed' \cap Reported # {} /\ ~PushFailed'
       \/ /\ error' = "negative" /\ failed' \cap Reported # {}
          /\ PushFailed' = PushFailed
       \/ error' = error /\ failed' = failed \cup {"raw_push"} /\ PushFailed'

\* Fails, of a failure that the exit status reports.
LEMMA FailsNotes ==
    ASSUME NEW t \in Workers, NEW f \in Reported \ StartFaults, NEW label,
           Fails(t, f, label)
    PROVE  /\ failed \subseteq failed' /\ failed' \cap StartFaults = failed \cap StartFaults
           /\ error' = "negative" /\ failed' \cap Reported # {}
           /\ pc' = [pc EXCEPT ![t] = label]
  BY DEF Fails, Fault, Goto

LEMMA CaptureNotes ==
    ASSUME Shapes, PushFailed => "raw_push" \in failed, CameraStep \/ CaptureStep
    PROVE  NotesErrors
<1>0. pc \in [Threads -> AllLabels] /\ "capture" \in Threads
  BY DEF Shapes, Threads, Workers
<1> USE <1>0, FaultKinds DEF At, Goto, NoFault, Fault, captureVars, NotesErrors, PushFailed
<1>1. ASSUME NEW f \in {"get", "release"}, NEW label \in {"done", "exit"},
             Fails("capture", f, label)
      PROVE  NotesErrors
  BY <1>1 DEF Fails
<1>2. CASE WarmupFails \/ CaptureGetFails \/ CaptureReleaseFails
  BY <1>1, <1>2 DEF WarmupFails, CaptureGetFails, CaptureReleaseFails
<1>3. CASE WarmupHead \/ WarmupGet \/ CaptureHead \/ CaptureGet \/ CaptureExit
  BY <1>3 DEF WarmupHead, WarmupGet, CaptureHead, CaptureGet, CaptureExit
<1>4. CASE WarmupEnd \/ CaptureAgain \/ CaptureEnd
  BY <1>4 DEF WarmupEnd, CaptureAgain, CaptureEnd
<1>5. CASE WarmupStopped
  BY <1>5 DEF WarmupStopped
<1>6. CASE CaptureStopped
  BY <1>6 DEF CaptureStopped
<1>7. CASE CapturePush
  BY <1>7 DEF CapturePush
<1>8. CASE CaptureRelease
  BY <1>8 DEF CaptureRelease
<1> QED
  BY <1>2, <1>3, <1>4, <1>5, <1>6, <1>7, <1>8 DEF CameraStep, CaptureStep

LEMMA ProcessNotes ==
    ASSUME Shapes, "osd" \notin failed', ProcessStep
    PROVE  NotesErrors
<1>0. /\ pc \in [Threads -> AllLabels] /\ "process" \in Threads
      /\ "process" \in Workers /\ "capture" \in Threads
  BY DEF Shapes, Threads, Workers
<1>00. pc'["capture"] = pc["capture"] /\ pushed' = pushed
  BY ProcessMoves DEF Moves, Shapes, Threads, Workers
<1> USE <1>0, <1>00, FaultKinds DEF At, Goto, NoFault, Fault, NotesErrors, PushFailed
<1>1. ASSUME NEW f \in Reported \ StartFaults, Fails("process", f, "exit") PROVE NotesErrors
  BY <1>1, FailsNotes
<1>2. CASE ProcessPopFails \/ ProcessPushFails
  BY <1>1, <1>2 DEF ProcessPopFails, ProcessPushFails
<1>3. CASE ProcessWorkFails
  BY <1>1, <1>3 DEF ProcessWorkFails
<1>4. CASE ProcessHead \/ ProcessPop \/ ProcessWork \/ ProcessPush \/ ProcessExit
  BY <1>4 DEF ProcessHead, ProcessPop, ProcessWork, ProcessPush, ProcessExit
<1>5. CASE ProcessWorkEnds
  BY <1>5 DEF ProcessWorkEnds
<1>6. CASE ProcessOsdFails
  BY <1>6 DEF ProcessOsdFails
<1>7. CASE ProcessViewClosed
  BY <1>7 DEF ProcessViewClosed
<1> QED
  BY <1>2, <1>3, <1>4, <1>5, <1>6, <1>7 DEF ProcessStep

LEMMA EncodeNotes ==
    ASSUME Shapes, EncodeStep
    PROVE  NotesErrors
<1>0. /\ pc \in [Threads -> AllLabels] /\ "encode" \in Threads
      /\ "encode" \in Workers /\ "capture" \in Threads
  BY DEF Shapes, Threads, Workers
<1>00. pc'["capture"] = pc["capture"] /\ pushed' = pushed
  BY EncodeMoves DEF Moves, Shapes, Threads, Workers
<1> USE <1>0, <1>00, FaultKinds DEF At, Goto, NoFault, Fault, NotesErrors, PushFailed
<1>1. ASSUME NEW f \in Reported \ StartFaults, NEW label, Fails("encode", f, label)
      PROVE  NotesErrors
  BY <1>1, FailsNotes
<1>2. CASE EncodePopFails \/ EncodeFails \/ EncodeFlushFails
  BY <1>1, <1>2 DEF EncodePopFails, EncodeFails, EncodeFlushFails
<1>3. CASE EncodePushFails
  BY <1>1, <1>3 DEF EncodePushFails
<1>4. CASE EncodePop \/ EncodeOne \/ EncodePush \/ EncodeFlush \/ EncodeExit
  BY <1>4 DEF EncodePop, EncodeOne, EncodePush, EncodeFlush, EncodeExit
<1>5. CASE EncodeEnds
  BY <1>5 DEF EncodeEnds
<1> QED
  BY <1>2, <1>3, <1>4, <1>5 DEF EncodeStep

LEMMA MuxNotes ==
    ASSUME Shapes, MuxStep
    PROVE  NotesErrors
<1>0. /\ pc \in [Threads -> AllLabels] /\ "mux" \in Threads
      /\ "mux" \in Workers /\ "capture" \in Threads
  BY DEF Shapes, Threads, Workers
<1>00. pc'["capture"] = pc["capture"] /\ pushed' = pushed
  BY MuxMoves DEF Moves, Shapes, Threads, Workers
<1> USE <1>0, <1>00, FaultKinds DEF At, Goto, NoFault, Fault, NotesErrors, PushFailed
<1>1. ASSUME NEW f \in Reported \ StartFaults, NEW label, Fails("mux", f, label)
      PROVE  NotesErrors
  BY <1>1, FailsNotes
<1>2. ASSUME NEW m \in Muxers, MuxOpenFails(m) \/ MuxHeaderFails(m) \/ MuxWriteFails(m)
      PROVE  NotesErrors
  BY <1>1, <1>2 DEF MuxOpenFails, MuxHeaderFails, MuxWriteFails
<1>3. CASE MuxPopFails
  BY <1>1, <1>3 DEF MuxPopFails
<1>4. ASSUME NEW m \in Muxers, MuxOpen(m) \/ MuxHeader(m) \/ MuxWrite(m) PROVE NotesErrors
  BY <1>4 DEF MuxOpen, MuxHeader, MuxWrite
<1>5. ASSUME NEW m \in Muxers, MuxWriteEnds(m) PROVE NotesErrors
  BY <1>5 DEF MuxWriteEnds
<1>6. CASE MuxPop \/ MuxClose
  BY <1>6 DEF MuxPop, MuxClose
<1>7. CASE MuxTrailer
  BY <1>7 DEF MuxTrailer
<1> QED
  BY <1>2, <1>3, <1>4, <1>5, <1>6, <1>7 DEF MuxStep

LEMMA WorkersKeepStatus ==
    ASSUME StatusInv, NotesErrors, UNCHANGED <<code, started>>, started # {},
           pc'["main"] = pc["main"]
    PROVE  StatusInv'
<1> USE FaultKinds DEF StatusInv, NotesErrors, PushFailed
<1>1. /\ code' = "none" <=> pc'["main"] \notin Leaving
      /\ code' = "none" => failed' \cap StartFaults = {}
      /\ code' = "1" => failed' \cap Reported # {}
      /\ code' # "0"
  OBVIOUS
<1>2. error' = "negative" => failed' \cap Reported # {}
  OBVIOUS
<1>3. PushFailed' => "raw_push" \in failed'
  OBVIOUS
<1>4. error' # "negative" =>
         /\ failed' \cap (Reported \ StartFaults) \subseteq {"raw_push"}
         /\ "raw_push" \in failed' <=> PushFailed'
  OBVIOUS
<1> QED
  BY <1>1, <1>2, <1>3, <1>4

LEMMA MainKeepsStatus ==
    ASSUME TypeOK, ThreadsInv, StatusInv, MainStep \/ MainSignal
    PROVE  StatusInv'
<1>0. /\ pc \in [Threads -> AllLabels] /\ "main" \in Threads
      /\ code \in {"none", "0", "1"} /\ error \in {"none", "negative", "positive"}
  BY DEF TypeOK, Threads
<1>1. UNCHANGED pushed /\ (~MainCreate => pc'["capture"] = pc["capture"])
  BY MainMoves, TypesGiveShapes DEF Workers
<1> USE <1>0, <1>1, FaultKinds DEF At, Goto, NoFault, Fault, StatusInv, Leaving, mainVars
<1>2. ASSUME NEW here \in {"init", "open", "stream"}, NEW f \in StartFaults,
             MainGivesUp(here, f)
      PROVE  StatusInv'
  <2>1. /\ code = "none" /\ code' = "1" /\ pc'["main"] = "deinit"
        /\ failed' = failed \cup {f} /\ error' = error /\ ~MainCreate
    BY <1>2 DEF MainGivesUp, MainCreate
  <2> QED
    BY <1>2, <2>1
<1>3. CASE MainCreateFails
  <2>1. /\ code = "none" /\ code' = "1" /\ pc'["main"] = "deinit"
        /\ failed' = failed \cup {"thread"} /\ error' = error /\ "thread" \in StartFaults
    BY <1>3 DEF MainCreateFails, StartFaults
  <2>2. pc'["capture"] = pc["capture"]
    BY <1>3 DEF MainCreateFails, Threads, Workers
  <2> QED
    BY <2>1, <2>2
<1>4. CASE MainCreate
  <2>1. PICK t \in Wanted \ started :
           /\ t \in Workers /\ pc[t] = "none"
           /\ pc' = [pc EXCEPT ![t] = StartLabel[t],
                               !["main"] = IF started' = Wanted THEN "signal" ELSE "create"]
           /\ UNCHANGED <<error, failed, code>>
    BY <1>4, CreateStarts
  <2>2. t # "main" /\ "capture" \in Threads /\ "capture" # "main"
    BY <2>1 DEF Workers, Threads
  <2>3. pc'["capture"] = "release" <=> pc["capture"] = "release"
    BY <2>1, <2>2 DEF StartLabel
  <2>4. pc["main"] = "create" /\ pc'["main"] \in {"signal", "create"}
    BY <1>4, <2>1 DEF MainCreate
  <2>5. code = "none" /\ code' = "none"
    BY <2>1, <2>4
  <2> QED
    BY <2>1, <2>3, <2>4, <2>5
<1>5. CASE MainWaited
  <2>1. /\ code = "none" /\ started = {} /\ started' = {} /\ pc'["main"] = "deinit"
        /\ code' = (IF error = "negative" THEN "1" ELSE "0")
        /\ UNCHANGED <<error, failed>> /\ ~MainCreate
    BY <1>5 DEF MainWaited, MainCreate
  <2>2. pc["capture"] # "release"
    BY <2>1 DEF ThreadsInv, Workers
  <2> QED
    BY <2>1, <2>2
<1>6. CASE MainInit \/ MainOpen \/ MainStream \/ MainStop \/ MainStopStream \/ MainStopRaw
  BY <1>6 DEF MainInit, MainOpen, MainStream, MainStop, MainStopStream, MainStopRaw, MainCreate
<1>7. CASE MainDeinit \/ MainCloseCamera \/ MainTeardown \/ MainExit
  BY <1>7 DEF MainDeinit, MainCloseCamera, MainTeardown, MainExit, MainCreate
<1>8. CASE MainJoin
  BY <1>8 DEF MainJoin, MainCreate
<1>9. CASE MainSignal
  BY <1>9 DEF MainSignal, MainCreate
<1> QED
  BY <1>2, <1>3, <1>4, <1>5, <1>6, <1>7, <1>8, <1>9 DEF MainStep, StartFaults

StatusUnlessOsd == "osd" \notin failed => StatusInv

LEMMA StatusStays == ControlInv /\ StatusUnlessOsd /\ [Next]_vars => StatusUnlessOsd'
<1> SUFFICES ASSUME ControlInv, StatusUnlessOsd, [Next]_vars, "osd" \notin failed'
             PROVE  StatusInv'
  BY DEF StatusUnlessOsd
<1>0. TypeOK /\ ThreadsInv /\ Shapes
  BY TypesGiveShapes DEF ControlInv
<1>1. ASSUME NEW t \in Workers, Moves(t), NotesErrors, StatusInv PROVE StatusInv'
  <2>1. started # {} /\ UNCHANGED <<code, started>> /\ pc'["main"] = pc["main"]
    BY <1>0, <1>1 DEF Moves, ThreadsInv, Shapes, Threads, Workers
  <2> QED
    BY <1>1, <2>1, WorkersKeepStatus
<1>2. CASE CameraStep \/ CaptureStep
  <2>1. Moves("capture") /\ StatusInv
    BY <1>0, <1>2, CaptureMoves DEF Moves, StatusUnlessOsd
  <2>2. NotesErrors
    BY <1>0, <1>2, <2>1, CaptureNotes DEF StatusInv, PushFailed
  <2> QED
    BY <1>1, <2>1, <2>2 DEF Workers
<1>3. CASE ProcessStep
  BY <1>0, <1>1, <1>3, ProcessMoves, ProcessNotes DEF Moves, StatusUnlessOsd, Workers
<1>4. CASE EncodeStep
  BY <1>0, <1>1, <1>4, EncodeMoves, EncodeNotes DEF Moves, StatusUnlessOsd, Workers
<1>5. CASE MuxStep
  BY <1>0, <1>1, <1>5, MuxMoves, MuxNotes DEF Moves, StatusUnlessOsd, Workers
<1>6. CASE MainStep \/ MainSignal
  BY <1>0, <1>6, MainMoves, MainKeepsStatus DEF StatusUnlessOsd
<1>7. ASSUME NEW t \in Threads, CloseNext(t) PROVE StatusInv'
  <2>1. UNCHANGED <<error, pc, started, code, pushed, failed>>
    BY <1>0, <1>7, CloseControl
  <2> QED
    BY <2>1 DEF StatusUnlessOsd, StatusInv
<1>8. CASE UNCHANGED vars
  BY <1>8 DEF StatusUnlessOsd, StatusInv, vars, mainVars, captureVars
<1> QED
  BY <1>2, <1>3, <1>4, <1>5, <1>6, <1>7, <1>8 DEF Next, Terminated

\* Property ExitStatus: unless a frame processor failed, main exits with status 1 if
\* and only if some thread, or AppPipeline_Init or _Start, met an error.
THEOREM StatusIsTheError == Spec => []("osd" \notin failed => ExitStatus)
<1>1. Init => StatusUnlessOsd
  BY DEF Init, StatusUnlessOsd, StatusInv, Leaving, Threads, Workers
<1>2. ControlInv /\ StatusUnlessOsd => ("osd" \notin failed => ExitStatus)
  BY DEF StatusUnlessOsd, StatusInv, ExitStatus, ControlInv, TypeOK
<1> QED
  BY <1>1, <1>2, StatusStays, ControlHolds, PTL DEF Spec

=============================================================================
