------------------------------ MODULE Pipeline ------------------------------
(***************************************************************************)
(* app/app_pipeline.c and app/main.c: the main thread builds the           *)
(* components, starts four workers, waits for SIGINT or SIGTERM, stops the *)
(* workers, joins them and tears everything down.                          *)
(*                                                                         *)
(*   camera -> capture -> raw -> process -> enc -> encode -> pkt -> mux    *)
(*                                                                         *)
(* The three queues are the channels of BoundedChannel, which ThreadQueue  *)
(* implements.  The components behind the managers (camera, converter,     *)
(* frame processor, viewer, encoder, muxers) are external to this module:  *)
(* an operation of theirs is a choice among the results the code has a     *)
(* branch for.  Which failures are considered is the constant Faults, and  *)
(* MaxFaults bounds how many happen in one execution.                      *)
(*                                                                         *)
(* A definition introduced as a mutant is a bug the code does not have. It *)
(* is not part of the specification: some property must detect it when it  *)
(* takes the place of the definition named.                                *)
(***************************************************************************)
EXTENDS Naturals, Sequences, FiniteSets, SequencesExt

CONSTANTS Configs,       \* the command lines considered
          QueueSize,     \* IPC_QUEUE_MAX_SIZE
          WarmupFrames,  \* IPC_DROP_WARMUP_FRAMES
          CameraFrames,  \* bound on the frames the camera delivers
          EncoderDelay,  \* bound on the frames the encoder keeps back
          Faults,        \* results other than success that may occur
          MaxFaults      \* bound on how many different ones do in one execution

FaultNames ==
    {"init", "open", "stream", "thread", "get", "get_late", "get_again", "get_eof",
     "release",
     "raw_push", "raw_pop", "convert", "convert_eof", "osd", "view", "view_closed",
     "enc_push", "enc_pop", "encode", "encode_eof", "pkt_push", "flush", "pkt_pop",
     "mux_open", "mux_header", "mux_write", "mux_write_eof", "mux_trailer"}

ASSUME ConfigAssumption ==
    Configs \subseteq [record : BOOLEAN, rtsp : BOOLEAN, preview : BOOLEAN,
                       processor : BOOLEAN, max_frames : Nat]

ASSUME SizeAssumption ==
    /\ QueueSize \in Nat \ {0}
    /\ WarmupFrames \in Nat
    /\ CameraFrames \in Nat
    /\ EncoderDelay \in Nat

ASSUME FaultAssumption == Faults \subseteq FaultNames /\ MaxFaults \in Nat

Workers == {"capture", "process", "encode", "mux"}
Threads == Workers \cup {"main"}
Queues == {"raw", "enc", "pkt"}
Muxers == {"record", "rtsp"}

VARIABLES
    cfg,        \* AppPipeline.config
    stop,       \* AppPipeline.stop
    error,      \* AppPipeline.error: none, a negative code, or the positive one
    pc,         \* where each thread is
    todo,       \* queues a thread still has to close in app_pipeline_request_stop
    items,      \* what is in each queue, oldest first
    closed,     \* the queues that are closed
    ended,      \* the queues that told their reader IPC_EOF
    hold,       \* the frame or packet each worker has in hand, 0 for none
    started,    \* the ..._thread_started flags: created and not yet joined
    live,       \* the ..._inited flags: components that exist
    streaming,  \* the camera streams
    warm,       \* warmup iterations done
    taken,      \* frames the camera has delivered to the main loop
    pushed,     \* result of the capture thread's last push
    pending,    \* frames inside the encoder, oldest first
    opened,     \* muxer_opened, rtsp_muxer_opened
    header,     \* muxer_header_written, rtsp_muxer_header_written
    written,    \* what each muxer was given
    trailers,   \* WriteTrailer calls made on each muxer
    fed,        \* history: frames accepted by the encode queue
    failed,     \* history: what went wrong
    code        \* exit status of the process, once it is known

mainVars == <<started, live, streaming, code>>
chan == <<items, closed, ended>>
captureVars == <<warm, taken, pushed>>
muxVars == <<opened, header, written, trailers>>
vars == <<cfg, stop, error, pc, todo, chan, hold, mainVars, captureVars, pending,
          muxVars, fed, failed>>

-----------------------------------------------------------------------------
(* The configuration.                                                      *)

NeedEncode == cfg.record \/ cfg.rtsp

Outputs == {m \in Muxers : cfg[m]}

\* The order in which AppPipeline_Init makes the components.  The snapshot sink
\* is left out: a failure of it only logs a warning.
InitOrder ==
    <<"capture", "converter", "processor", "viewer", "encoder", "record", "rtsp",
      "raw", "enc", "pkt">>

\* The components that the configuration asks for.
Configured ==
    {"capture", "converter", "raw"} \cup Outputs
    \cup (IF NeedEncode THEN {"encoder", "enc", "pkt"} ELSE {})
    \cup (IF cfg.processor THEN {"processor"} ELSE {})
    \cup (IF cfg.preview THEN {"viewer"} ELSE {})

\* The order in which AppPipeline_Deinit destroys what was made.
TeardownOrder ==
    <<"pkt", "enc", "raw", "record", "rtsp", "encoder", "viewer", "processor",
      "converter", "capture">>

\* The order in which AppPipeline_Start creates the threads.
StartOrder == <<"mux", "encode", "process", "capture">>

\* The threads that the configuration asks for.
Wanted == IF NeedEncode THEN Workers ELSE {"process", "capture"}

\* The order in which AppPipeline_Wait and AppPipeline_Deinit join them.
JoinOrder == <<"capture", "process", "encode", "mux">>

\* The first element of s that is in S.
FirstIn(s, S) ==
    s[CHOOSE i \in 1 .. Len(s) : s[i] \in S /\ \A j \in 1 .. i - 1 : s[j] \notin S]

StartLabel ==
    [capture |-> "warmup", process |-> "loop", encode |-> "pop",
     mux |-> IF cfg.record THEN "open_record" ELSE "open_rtsp"]

-----------------------------------------------------------------------------
(* Helpers.                                                                *)

\* t stands at label and has no queue left to close.
At(t, label) == pc[t] = label /\ todo[t] = {}

Goto(t, label) == pc' = [pc EXCEPT ![t] = label]

Running(t) == pc[t] \notin {"none", "done"}

\* Mutant of CanPut: full is not full enough.
CanPutOneMore(c) == c \notin closed /\ Len(items[c]) <= QueueSize

\* Mutant of AtEnd: a queue that is only empty reports the end.
AtEndWhenEmpty(c) == items[c] = <<>>

\* Channel operations: accept, refuse, hand out, report the end, close.
CanPut(c) == c \notin closed /\ Len(items[c]) < QueueSize
Put(c, f) == items' = [items EXCEPT ![c] = Append(@, f)] /\ UNCHANGED <<closed, ended>>
CanTake(c) == items[c] # <<>>
Take(c) == items' = [items EXCEPT ![c] = Tail(@)] /\ UNCHANGED <<closed, ended>>
AtEnd(c) == c \in closed /\ items[c] = <<>>
TellEnd(c) == ended' = ended \cup {c} /\ UNCHANGED <<items, closed>>
Close(c) == closed' = closed \cup {c} /\ UNCHANGED <<items, ended>>

\* Mutants of QueuesToClose: the packet queue is forgotten; no queue is closed.
AllButPacketQueue == {"raw", "enc"} \cap live
NoQueueToClose == {}

\* app_pipeline_request_stop: the flag now, the queues that exist one by one.
QueuesToClose == Queues \cap live
RequestStop(t) ==
    /\ stop' = TRUE
    /\ todo' = [todo EXCEPT ![t] = QueuesToClose]

\* The operation named f comes out other than well.
Fault(f) ==
    /\ f \in Faults
    /\ Cardinality(failed) < MaxFaults
    /\ failed' = failed \cup {f}

\* Something failed in t: note the code, ask for a stop, go on at label.
Fails(t, f, label) ==
    /\ Fault(f)
    /\ error' = "negative"
    /\ RequestStop(t)
    /\ Goto(t, label)

NoFault == UNCHANGED <<stop, error, todo, failed>>

CloseNext(t) ==
    /\ todo[t] # {}
    /\ LET c == FirstIn(<<"raw", "enc", "pkt">>, todo[t])
       IN  Close(c) /\ todo' = [todo EXCEPT ![t] = @ \ {c}]
    /\ UNCHANGED <<cfg, stop, error, pc, hold, mainVars, captureVars, pending,
                   muxVars, fed, failed>>

-----------------------------------------------------------------------------
(* capture_thread_main.                                                    *)

CaptureFrame == <<cfg, mainVars, pending, muxVars, fed>>

\* Head of the warmup loop.
WarmupHead ==
    /\ At("capture", "warmup")
    /\ Goto("capture", IF warm < WarmupFrames /\ ~stop THEN "warm_get" ELSE "loop")
    /\ NoFault
    /\ UNCHANGED <<CaptureFrame, chan, hold, captureVars>>

\* A warmup frame, or IPC_EAGAIN, which counts as one.
WarmupGet ==
    /\ At("capture", "warm_get")
    /\ streaming
    /\ warm' = warm + 1
    /\ Goto("capture", "warmup")
    /\ NoFault
    /\ UNCHANGED <<CaptureFrame, chan, hold, taken, pushed>>

WarmupEnd ==
    /\ At("capture", "warm_get")
    /\ streaming
    /\ Fault("get_eof")
    /\ Goto("capture", "exit")
    /\ UNCHANGED <<CaptureFrame, stop, error, todo, chan, hold, captureVars>>

\* GetFrame or ReleaseFrame fails.  The stop flag is not looked at.
WarmupFails ==
    /\ At("capture", "warm_get")
    /\ streaming
    /\ Fails("capture", "get", "done") \/ Fails("capture", "release", "done")
    /\ UNCHANGED <<CaptureFrame, chan, hold, captureVars>>

\* The main thread has switched the stream off under GetFrame.
WarmupStopped ==
    /\ At("capture", "warm_get")
    /\ ~streaming
    /\ error' = "negative"
    /\ failed' = failed \cup {"stopped_in_warmup"}
    /\ RequestStop("capture")
    /\ Goto("capture", "done")
    /\ UNCHANGED <<CaptureFrame, chan, hold, captureVars>>

\* Head of the main loop.
CaptureHead ==
    /\ At("capture", "loop")
    /\ Goto("capture", IF stop THEN "exit" ELSE "get")
    /\ NoFault
    /\ UNCHANGED <<CaptureFrame, chan, hold, captureVars>>

CaptureGet ==
    /\ At("capture", "get")
    /\ streaming
    /\ taken < CameraFrames
    /\ taken' = taken + 1
    /\ hold' = [hold EXCEPT !["capture"] = taken + 1]
    /\ Goto("capture", "push")
    /\ NoFault
    /\ UNCHANGED <<CaptureFrame, chan, warm, pushed>>

CaptureAgain ==
    /\ At("capture", "get")
    /\ streaming
    /\ Fault("get_again")
    /\ Goto("capture", "loop")
    /\ UNCHANGED <<CaptureFrame, stop, error, todo, chan, hold, captureVars>>

CaptureEnd ==
    /\ At("capture", "get")
    /\ streaming
    /\ Fault("get_eof")
    /\ Goto("capture", "exit")
    /\ UNCHANGED <<CaptureFrame, stop, error, todo, chan, hold, captureVars>>

CaptureGetFails ==
    /\ At("capture", "get")
    /\ streaming
    /\ ~stop
    /\ Fails("capture", "get", "exit")
    /\ UNCHANGED <<CaptureFrame, chan, hold, captureVars>>

\* After a stop a failing GetFrame is no error; that the stream is off is what
\* makes it fail as a rule.
CaptureStopped ==
    /\ At("capture", "get")
    /\ stop
    /\ \/ ~streaming /\ NoFault
       \/ streaming /\ Fault("get_late") /\ UNCHANGED <<stop, error, todo>>
    /\ Goto("capture", "exit")
    /\ UNCHANGED <<CaptureFrame, chan, hold, captureVars>>

\* FrameQueue_Push(raw_queue): accepted, refused with IPC_EOF, or failed.
CapturePush ==
    /\ At("capture", "push")
    /\ \/ /\ CanPut("raw")
          /\ Put("raw", hold["capture"])
          /\ pushed' = "OK"
          /\ failed' = failed
       \/ /\ "raw" \in closed
          /\ pushed' = "EOF"
          /\ UNCHANGED <<chan, failed>>
       \/ /\ Fault("raw_push")
          /\ pushed' = "ERROR"
          /\ UNCHANGED chan
    /\ Goto("capture", "release")
    /\ UNCHANGED <<CaptureFrame, stop, error, todo, hold, warm, taken>>

\* CaptureManager_ReleaseFrame, and what the loop makes of the push.
CaptureRelease ==
    /\ At("capture", "release")
    /\ hold' = [hold EXCEPT !["capture"] = 0]
    /\ \/ /\ pushed = "OK"
          /\ Goto("capture", IF cfg.max_frames > 0 /\ taken >= cfg.max_frames
                             THEN "exit" ELSE "loop")
          /\ UNCHANGED <<stop, error, todo>>
       \/ /\ pushed = "EOF"
          /\ Goto("capture", "exit")
          /\ UNCHANGED <<stop, error, todo>>
       \/ /\ pushed = "ERROR"
          /\ error' = "negative"
          /\ RequestStop("capture")
          /\ Goto("capture", "exit")
    /\ UNCHANGED <<CaptureFrame, chan, captureVars, failed>>

\* A failed release comes first, whatever the push returned.
CaptureReleaseFails ==
    /\ At("capture", "release")
    /\ hold' = [hold EXCEPT !["capture"] = 0]
    /\ Fails("capture", "release", "exit")
    /\ UNCHANGED <<CaptureFrame, chan, captureVars>>

CaptureExit ==
    /\ At("capture", "exit")
    /\ Close("raw")
    /\ Goto("capture", "done")
    /\ NoFault
    /\ UNCHANGED <<CaptureFrame, hold, captureVars>>

-----------------------------------------------------------------------------
(* process_thread_main.                                                    *)

ProcessFrame == <<cfg, mainVars, captureVars, pending, muxVars>>

ProcessHead ==
    /\ At("process", "loop")
    /\ Goto("process", IF stop THEN "exit" ELSE "pop")
    /\ NoFault
    /\ UNCHANGED <<ProcessFrame, chan, hold, fed>>

ProcessPop ==
    /\ At("process", "pop")
    /\ \/ /\ CanTake("raw")
          /\ Take("raw")
          /\ hold' = [hold EXCEPT !["process"] = Head(items["raw"])]
          /\ Goto("process", "work")
       \/ /\ AtEnd("raw")
          /\ TellEnd("raw")
          /\ Goto("process", "exit")
          /\ hold' = hold
    /\ NoFault
    /\ UNCHANGED <<ProcessFrame, fed>>

ProcessPopFails ==
    /\ At("process", "pop")
    /\ Fails("process", "raw_pop", "exit")
    /\ UNCHANGED <<ProcessFrame, chan, hold, fed>>

\* Converted, overlaid, snapshot and shown as configured.
ProcessWork ==
    /\ At("process", "work")
    /\ IF NeedEncode
       THEN Goto("process", "push") /\ hold' = hold
       ELSE Goto("process", "loop") /\ hold' = [hold EXCEPT !["process"] = 0]
    /\ NoFault
    /\ UNCHANGED <<ProcessFrame, chan, fed>>

ProcessWorkFails ==
    /\ At("process", "work")
    /\ \/ Fails("process", "convert", "exit")
       \/ cfg.preview /\ Fails("process", "view", "exit")
    /\ hold' = [hold EXCEPT !["process"] = 0]
    /\ UNCHANGED <<ProcessFrame, chan, fed>>

\* A converter that reports the end of the stream stops only this thread.
ProcessWorkEnds ==
    /\ At("process", "work")
    /\ Fault("convert_eof")
    /\ Goto("process", "exit")
    /\ hold' = [hold EXCEPT !["process"] = 0]
    /\ UNCHANGED <<ProcessFrame, stop, error, todo, chan, fed>>

\* A failing frame processor leaves the positive code 1 in error.
ProcessOsdFails ==
    /\ At("process", "work")
    /\ cfg.processor
    /\ Fault("osd")
    /\ error' = "positive"
    /\ RequestStop("process")
    /\ Goto("process", "exit")
    /\ hold' = [hold EXCEPT !["process"] = 0]
    /\ UNCHANGED <<ProcessFrame, chan, fed>>

\* The user closes the preview window: a stop, and no error.
ProcessViewClosed ==
    /\ At("process", "work")
    /\ cfg.preview
    /\ Fault("view_closed")
    /\ error' = error
    /\ RequestStop("process")
    /\ Goto("process", "exit")
    /\ hold' = [hold EXCEPT !["process"] = 0]
    /\ UNCHANGED <<ProcessFrame, chan, fed>>

ProcessPush ==
    /\ At("process", "push")
    /\ \/ /\ CanPut("enc")
          /\ Put("enc", hold["process"])
          /\ fed' = Append(fed, hold["process"])
          /\ Goto("process", "loop")
       \/ /\ "enc" \in closed
          /\ Goto("process", "exit")
          /\ UNCHANGED <<chan, fed>>
    /\ hold' = [hold EXCEPT !["process"] = 0]
    /\ NoFault
    /\ UNCHANGED ProcessFrame

ProcessPushFails ==
    /\ At("process", "push")
    /\ Fails("process", "enc_push", "exit")
    /\ hold' = [hold EXCEPT !["process"] = 0]
    /\ UNCHANGED <<ProcessFrame, chan, fed>>

ProcessExit ==
    /\ At("process", "exit")
    /\ IF NeedEncode THEN Close("enc") ELSE UNCHANGED chan
    /\ Goto("process", "done")
    /\ NoFault
    /\ UNCHANGED <<ProcessFrame, hold, fed>>

-----------------------------------------------------------------------------
(* encode_thread_main.  The encoder keeps some frames back; a packet is    *)
(* named by the frame it encodes.                                          *)

EncodeFrame == <<cfg, mainVars, captureVars, muxVars, fed>>

EncodePop ==
    /\ At("encode", "pop")
    /\ \/ /\ CanTake("enc")
          /\ Take("enc")
          /\ hold' = [hold EXCEPT !["encode"] = Head(items["enc"])]
          /\ Goto("encode", "encode")
       \/ /\ AtEnd("enc")
          /\ TellEnd("enc")
          /\ Goto("encode", "flush")
          /\ hold' = hold
    /\ NoFault
    /\ UNCHANGED <<EncodeFrame, pending>>

EncodePopFails ==
    /\ At("encode", "pop")
    /\ Fails("encode", "enc_pop", "flush")
    /\ UNCHANGED <<EncodeFrame, chan, hold, pending>>

\* EncoderManager_Encode: the oldest frame inside comes out as a packet, or
\* IPC_EAGAIN while the encoder still fills up.
EncodeOne ==
    LET inside == Append(pending, hold["encode"])
    IN  /\ At("encode", "encode")
        /\ \/ /\ pending' = Tail(inside)
              /\ hold' = [hold EXCEPT !["encode"] = Head(inside)]
              /\ Goto("encode", "push")
           \/ /\ Len(inside) <= EncoderDelay
              /\ pending' = inside
              /\ hold' = [hold EXCEPT !["encode"] = 0]
              /\ Goto("encode", "pop")
        /\ NoFault
        /\ UNCHANGED <<EncodeFrame, chan>>

EncodeFails ==
    /\ At("encode", "encode")
    /\ Fails("encode", "encode", "flush")
    /\ hold' = [hold EXCEPT !["encode"] = 0]
    /\ UNCHANGED <<EncodeFrame, chan, pending>>

EncodeEnds ==
    /\ At("encode", "encode")
    /\ Fault("encode_eof")
    /\ hold' = [hold EXCEPT !["encode"] = 0]
    /\ Goto("encode", "flush")
    /\ UNCHANGED <<EncodeFrame, stop, error, todo, chan, pending>>

\* PacketQueue_Push(packet_queue), in the main loop and in the flush loop.
EncodePush ==
    \E here \in {"push", "push_flush"} :
        /\ At("encode", here)
        /\ \/ /\ CanPut("pkt")
              /\ Put("pkt", hold["encode"])
              /\ Goto("encode", IF here = "push" THEN "pop" ELSE "flush")
           \/ /\ "pkt" \in closed
              /\ Goto("encode", IF here = "push" THEN "flush" ELSE "exit")
              /\ UNCHANGED chan
        /\ hold' = [hold EXCEPT !["encode"] = 0]
        /\ NoFault
        /\ UNCHANGED <<EncodeFrame, pending>>

EncodePushFails ==
    \E here \in {"push", "push_flush"} :
        /\ At("encode", here)
        /\ Fails("encode", "pkt_push", IF here = "push" THEN "flush" ELSE "exit")
        /\ hold' = [hold EXCEPT !["encode"] = 0]
        /\ UNCHANGED <<EncodeFrame, chan, pending>>

\* EncoderManager_Flush: a packet, or IPC_EOF when the encoder is empty.
EncodeFlush ==
    /\ At("encode", "flush")
    /\ IF pending # <<>>
       THEN /\ hold' = [hold EXCEPT !["encode"] = Head(pending)]
            /\ pending' = Tail(pending)
            /\ Goto("encode", "push_flush")
       ELSE /\ Goto("encode", "exit")
            /\ UNCHANGED <<hold, pending>>
    /\ NoFault
    /\ UNCHANGED <<EncodeFrame, chan>>

EncodeFlushFails ==
    /\ At("encode", "flush")
    /\ Fails("encode", "flush", "exit")
    /\ UNCHANGED <<EncodeFrame, chan, hold, pending>>

\* Mutant of EncodeExit: the packet queue stays open.
EncodeExitOpen ==
    /\ At("encode", "exit")
    /\ Goto("encode", "done")
    /\ NoFault
    /\ UNCHANGED <<EncodeFrame, chan, hold, pending>>

EncodeExit ==
    /\ At("encode", "exit")
    /\ Close("pkt")
    /\ Goto("encode", "done")
    /\ NoFault
    /\ UNCHANGED <<EncodeFrame, hold, pending>>

-----------------------------------------------------------------------------
(* mux_thread_main.                                                        *)

MuxFrame == <<cfg, mainVars, captureVars, pending, fed>>

OpenLabel(m) == IF m = "record" THEN "open_record" ELSE "open_rtsp"
HeaderLabel(m) == IF m = "record" THEN "header_record" ELSE "header_rtsp"
WriteLabel(m) == IF m = "record" THEN "write_record" ELSE "write_rtsp"

MuxOpen(m) ==
    /\ At("mux", OpenLabel(m))
    /\ opened' = opened \cup {m}
    /\ Goto("mux", HeaderLabel(m))
    /\ NoFault
    /\ UNCHANGED <<MuxFrame, chan, hold, header, written, trailers>>

\* A file that cannot be opened ends the thread on the spot; a stream that
\* cannot be opened goes through the finish.
MuxOpenFails(m) ==
    /\ At("mux", OpenLabel(m))
    /\ Fails("mux", "mux_open", IF m = "record" THEN "done" ELSE "finish")
    /\ UNCHANGED <<MuxFrame, chan, hold, muxVars>>

MuxHeader(m) ==
    /\ At("mux", HeaderLabel(m))
    /\ header' = header \cup {m}
    /\ Goto("mux", IF m = "record" /\ cfg.rtsp THEN "open_rtsp" ELSE "pop")
    /\ NoFault
    /\ UNCHANGED <<MuxFrame, chan, hold, opened, written, trailers>>

\* Mutant of MuxHeaderFails: the thread returns and does not go to the finish.
MuxHeaderFailsReturns(m) ==
    /\ At("mux", HeaderLabel(m))
    /\ Fails("mux", "mux_header", "done")
    /\ UNCHANGED <<MuxFrame, chan, hold, muxVars>>

MuxHeaderFails(m) ==
    /\ At("mux", HeaderLabel(m))
    /\ Fails("mux", "mux_header", "finish")
    /\ UNCHANGED <<MuxFrame, chan, hold, muxVars>>

MuxPop ==
    /\ At("mux", "pop")
    /\ \/ /\ CanTake("pkt")
          /\ Take("pkt")
          /\ hold' = [hold EXCEPT !["mux"] = Head(items["pkt"])]
          /\ Goto("mux", IF cfg.record THEN "write_record" ELSE "write_rtsp")
       \/ /\ AtEnd("pkt")
          /\ TellEnd("pkt")
          /\ Goto("mux", "finish")
          /\ hold' = hold
    /\ NoFault
    /\ UNCHANGED <<MuxFrame, muxVars>>

MuxPopFails ==
    /\ At("mux", "pop")
    /\ Fails("mux", "pkt_pop", "finish")
    /\ UNCHANGED <<MuxFrame, chan, hold, muxVars>>

\* MuxerManager_WritePacket, to the file first and then to the stream.
MuxWrite(m) ==
    /\ At("mux", WriteLabel(m))
    /\ written' = [written EXCEPT ![m] = Append(@, hold["mux"])]
    /\ IF m = "record" /\ cfg.rtsp
       THEN Goto("mux", "write_rtsp") /\ hold' = hold
       ELSE Goto("mux", "pop") /\ hold' = [hold EXCEPT !["mux"] = 0]
    /\ NoFault
    /\ UNCHANGED <<MuxFrame, chan, opened, header, trailers>>

\* Mutants of MuxWriteFails: the loop goes on; the error is not noted.
MuxWriteFailsGoesOn(m) ==
    /\ At("mux", WriteLabel(m))
    /\ Fails("mux", "mux_write", "pop")
    /\ hold' = [hold EXCEPT !["mux"] = 0]
    /\ UNCHANGED <<MuxFrame, chan, muxVars>>

MuxWriteFailsSilently(m) ==
    /\ At("mux", WriteLabel(m))
    /\ Fault("mux_write")
    /\ RequestStop("mux")
    /\ Goto("mux", "finish")
    /\ hold' = [hold EXCEPT !["mux"] = 0]
    /\ UNCHANGED <<MuxFrame, error, chan, muxVars>>

MuxWriteFails(m) ==
    /\ At("mux", WriteLabel(m))
    /\ Fails("mux", "mux_write", "finish")
    /\ hold' = [hold EXCEPT !["mux"] = 0]
    /\ UNCHANGED <<MuxFrame, chan, muxVars>>

\* A muxer that reports the end of the stream stops only this thread.
MuxWriteEnds(m) ==
    /\ At("mux", WriteLabel(m))
    /\ Fault("mux_write_eof")
    /\ Goto("mux", "finish")
    /\ hold' = [hold EXCEPT !["mux"] = 0]
    /\ UNCHANGED <<MuxFrame, stop, error, todo, chan, muxVars>>

\* Mutant of MuxTrailer: a failing trailer leaves the header flag set.
MuxTrailerRetries ==
    /\ At("mux", "finish")
    /\ header # {}
    /\ LET m == FirstIn(<<"record", "rtsp">>, header)
       IN  /\ trailers' = [trailers EXCEPT ![m] = @ + 1]
           /\ \/ header' = header \ {m} /\ UNCHANGED <<error, failed>>
              \/ header' = header /\ Fault("mux_trailer") /\ error' = "negative"
    /\ UNCHANGED <<MuxFrame, stop, pc, todo, chan, hold, opened, written>>

\* Whatever brought the thread here, a muxer that has its header gets its
\* trailer.  A failing trailer is noted and nothing else.
MuxTrailer ==
    /\ At("mux", "finish")
    /\ header # {}
    /\ LET m == FirstIn(<<"record", "rtsp">>, header)
       IN  /\ header' = header \ {m}
           /\ trailers' = [trailers EXCEPT ![m] = @ + 1]
    /\ \/ UNCHANGED <<error, failed>>
       \/ Fault("mux_trailer") /\ error' = "negative"
    /\ UNCHANGED <<MuxFrame, stop, pc, todo, chan, hold, opened, written>>

MuxClose ==
    /\ At("mux", "finish")
    /\ header = {}
    /\ IF opened # {}
       THEN /\ opened' = opened \ {FirstIn(<<"record", "rtsp">>, opened)}
            /\ pc' = pc
       ELSE /\ Goto("mux", "done")
            /\ opened' = opened
    /\ NoFault
    /\ UNCHANGED <<MuxFrame, chan, hold, header, written, trailers>>

-----------------------------------------------------------------------------
(* The main thread.                                                        *)

MainFrame == <<cfg, hold, captureVars, pending, muxVars, fed>>

\* AppPipeline_Init makes the next component.
MainInit ==
    /\ At("main", "init")
    /\ live' = live \cup {FirstIn(InitOrder, Configured \ live)}
    /\ Goto("main", IF live' = Configured THEN "open" ELSE "init")
    /\ NoFault
    /\ UNCHANGED <<MainFrame, chan, started, streaming, code>>

\* AppPipeline_Init or AppPipeline_Start returns an error; main goes to Deinit.
MainGivesUp(here, f) ==
    /\ At("main", here)
    /\ Fault(f)
    /\ code' = "1"
    /\ Goto("main", "deinit")
    /\ UNCHANGED <<MainFrame, stop, error, todo, chan, started, live, streaming>>

MainOpen ==
    /\ At("main", "open")
    /\ Goto("main", "stream")
    /\ NoFault
    /\ UNCHANGED <<MainFrame, chan, mainVars>>

MainStream ==
    /\ At("main", "stream")
    /\ streaming' = TRUE
    /\ Goto("main", "create")
    /\ NoFault
    /\ UNCHANGED <<MainFrame, chan, started, live, code>>

\* AppPipeline_Start creates the next thread.
MainCreate ==
    /\ At("main", "create")
    /\ LET t == FirstIn(StartOrder, Wanted \ started)
       IN  /\ started' = started \cup {t}
           /\ pc' = [pc EXCEPT ![t] = StartLabel[t],
                               !["main"] = IF started' = Wanted THEN "signal"
                                                                ELSE "create"]
    /\ NoFault
    /\ UNCHANGED <<MainFrame, chan, live, streaming, code>>

MainCreateFails ==
    /\ At("main", "create")
    /\ Fault("thread")
    /\ code' = "1"
    /\ RequestStop("main")
    /\ Goto("main", "deinit")
    /\ UNCHANGED <<MainFrame, error, chan, started, live, streaming>>

\* Signal_Wait returns: SIGINT or SIGTERM was sent.
MainSignal ==
    /\ At("main", "signal")
    /\ Goto("main", "stop")
    /\ NoFault
    /\ UNCHANGED <<MainFrame, chan, mainVars>>

\* Mutant of MainStop: every queue is closed, not only the raw one.
MainStopAllQueues ==
    /\ At("main", "stop")
    /\ RequestStop("main")
    /\ Goto("main", "stop_stream")
    /\ UNCHANGED <<MainFrame, error, chan, mainVars, failed>>

\* AppPipeline_Stop: the flag, the stream, the raw queue.
MainStop ==
    /\ At("main", "stop")
    /\ stop' = TRUE
    /\ Goto("main", "stop_stream")
    /\ UNCHANGED <<MainFrame, error, todo, chan, mainVars, failed>>

MainStopStream ==
    /\ At("main", "stop_stream")
    /\ streaming' = FALSE
    /\ Goto("main", "stop_raw")
    /\ NoFault
    /\ UNCHANGED <<MainFrame, chan, started, live, code>>

MainStopRaw ==
    /\ At("main", "stop_raw")
    /\ Close("raw")
    /\ Goto("main", "wait")
    /\ NoFault
    /\ UNCHANGED <<MainFrame, mainVars>>

\* pthread_join of the next thread, in AppPipeline_Wait and AppPipeline_Deinit.
MainJoin ==
    \E here \in {"wait", "deinit_join"} :
        /\ At("main", here)
        /\ started # {}
        /\ LET t == FirstIn(JoinOrder, started)
           IN  /\ pc[t] = "done"
               /\ todo[t] = {}
               /\ started' = started \ {t}
        /\ NoFault
        /\ UNCHANGED <<MainFrame, pc, chan, live, streaming, code>>

\* AppPipeline_Wait returns; only a negative error makes a failure of it.
MainWaited ==
    /\ At("main", "wait")
    /\ started = {}
    /\ code' = IF error = "negative" THEN "1" ELSE "0"
    /\ Goto("main", "deinit")
    /\ NoFault
    /\ UNCHANGED <<MainFrame, chan, started, live, streaming>>

\* Mutant of MainDeinit: the threads are not joined.
MainDeinitNoJoin ==
    /\ At("main", "deinit")
    /\ RequestStop("main")
    /\ Goto("main", "teardown")
    /\ UNCHANGED <<MainFrame, error, chan, mainVars, failed>>

\* AppPipeline_Deinit.
MainDeinit ==
    /\ At("main", "deinit")
    /\ RequestStop("main")
    /\ Goto("main", "deinit_join")
    /\ UNCHANGED <<MainFrame, error, chan, mainVars, failed>>

MainCloseCamera ==
    /\ At("main", "deinit_join")
    /\ started = {}
    /\ streaming' = FALSE
    /\ Goto("main", "teardown")
    /\ NoFault
    /\ UNCHANGED <<MainFrame, chan, started, live, code>>

\* The next component is destroyed; a queue frees what is left in it.
MainTeardown ==
    /\ At("main", "teardown")
    /\ live # {}
    /\ LET x == FirstIn(TeardownOrder, live)
       IN  /\ live' = live \ {x}
           /\ items' = [c \in Queues |-> IF c = x THEN <<>> ELSE items[c]]
    /\ NoFault
    /\ UNCHANGED <<MainFrame, pc, closed, ended, started, streaming, code>>

MainExit ==
    /\ At("main", "teardown")
    /\ live = {}
    /\ Goto("main", "exited")
    /\ NoFault
    /\ UNCHANGED <<MainFrame, chan, mainVars>>

Exited == At("main", "exited")

-----------------------------------------------------------------------------
(* The system.                                                             *)

Init ==
    /\ cfg \in Configs
    /\ stop = FALSE
    /\ error = "none"
    /\ pc = [t \in Threads |-> IF t = "main" THEN "init" ELSE "none"]
    /\ todo = [t \in Threads |-> {}]
    /\ items = [c \in Queues |-> <<>>]
    /\ closed = {}
    /\ ended = {}
    /\ hold = [t \in Workers |-> 0]
    /\ started = {}
    /\ live = {}
    /\ streaming = FALSE
    /\ warm = 0
    /\ taken = 0
    /\ pushed = "none"
    /\ pending = <<>>
    /\ opened = {}
    /\ header = {}
    /\ written = [m \in Muxers |-> <<>>]
    /\ trailers = [m \in Muxers |-> 0]
    /\ fed = <<>>
    /\ failed = {}
    /\ code = "none"

\* The camera decides when, if ever, these happen.
CameraStep ==
    \/ WarmupGet \/ WarmupEnd \/ WarmupFails
    \/ CaptureGet \/ CaptureAgain \/ CaptureEnd \/ CaptureGetFails

CaptureStep ==
    \/ WarmupHead \/ WarmupStopped \/ CaptureHead \/ CaptureStopped
    \/ CapturePush \/ CaptureRelease \/ CaptureReleaseFails \/ CaptureExit

ProcessStep ==
    \/ ProcessHead \/ ProcessPop \/ ProcessPopFails \/ ProcessWork
    \/ ProcessWorkFails \/ ProcessWorkEnds \/ ProcessOsdFails
    \/ ProcessViewClosed \/ ProcessPush \/ ProcessPushFails \/ ProcessExit

EncodeStep ==
    \/ EncodePop \/ EncodePopFails \/ EncodeOne \/ EncodeFails \/ EncodeEnds
    \/ EncodePush \/ EncodePushFails \/ EncodeFlush \/ EncodeFlushFails \/ EncodeExit

MuxStep ==
    \/ \E m \in Muxers :
          \/ MuxOpen(m) \/ MuxOpenFails(m) \/ MuxHeader(m) \/ MuxHeaderFails(m)
          \/ MuxWrite(m) \/ MuxWriteFails(m) \/ MuxWriteEnds(m)
    \/ MuxPop \/ MuxPopFails \/ MuxTrailer \/ MuxClose

MainStep ==
    \/ MainInit \/ MainGivesUp("init", "init")
    \/ MainOpen \/ MainGivesUp("open", "open")
    \/ MainStream \/ MainGivesUp("stream", "stream")
    \/ MainCreate \/ MainCreateFails \/ MainStop \/ MainStopStream \/ MainStopRaw
    \/ MainJoin \/ MainWaited \/ MainDeinit \/ MainCloseCamera \/ MainTeardown
    \/ MainExit

Terminated == Exited /\ UNCHANGED vars

Next ==
    \/ CameraStep \/ CaptureStep \/ ProcessStep \/ EncodeStep \/ MuxStep
    \/ MainStep \/ MainSignal
    \/ \E t \in Threads : CloseNext(t)
    \/ Terminated

Spec == Init /\ [][Next]_vars

\* Every thread that can run is scheduled, and the calls into the components
\* return.  Nothing is assumed of the camera, which may stall for ever, nor of
\* the user, who may never send a signal.
Fairness ==
    /\ WF_vars(CaptureStep \/ CloseNext("capture"))
    /\ WF_vars(ProcessStep \/ CloseNext("process"))
    /\ WF_vars(EncodeStep \/ CloseNext("encode"))
    /\ WF_vars(MuxStep \/ CloseNext("mux"))
    /\ WF_vars(MainStep \/ CloseNext("main"))

FairSpec == Spec /\ Fairness

-----------------------------------------------------------------------------
(* Properties.                                                             *)

Labels ==
    [capture |-> {"none", "warmup", "warm_get", "loop", "get", "push", "release",
                  "exit", "done"},
     process |-> {"none", "loop", "pop", "work", "push", "exit", "done"},
     encode  |-> {"none", "pop", "encode", "push", "flush", "push_flush", "exit",
                  "done"},
     mux     |-> {"none", "open_record", "header_record", "open_rtsp",
                  "header_rtsp", "pop", "write_record", "write_rtsp", "finish",
                  "done"},
     main    |-> {"init", "open", "stream", "create", "signal", "stop",
                  "stop_stream", "stop_raw", "wait", "deinit", "deinit_join",
                  "teardown", "exited"}]

AllLabels == UNION {Labels[t] : t \in Threads}

Components ==
    Queues \cup Muxers \cup {"capture", "converter", "processor", "viewer", "encoder"}

\* The range of every variable.
TypeOK ==
    /\ cfg \in Configs
    /\ stop \in BOOLEAN
    /\ error \in {"none", "negative", "positive"}
    /\ pc \in [Threads -> AllLabels] /\ \A t \in Threads : pc[t] \in Labels[t]
    /\ todo \in [Threads -> SUBSET Queues]
    /\ items \in [Queues -> Seq(1 .. CameraFrames)]
    /\ \A c \in Queues : Len(items[c]) <= QueueSize
    /\ closed \subseteq Queues
    /\ ended \subseteq Queues
    /\ hold \in [Workers -> 0 .. CameraFrames]
    /\ started \subseteq Workers
    /\ live \subseteq Components
    /\ streaming \in BOOLEAN
    /\ warm \in 0 .. WarmupFrames
    /\ taken \in 0 .. CameraFrames
    /\ pushed \in {"none", "OK", "EOF", "ERROR"}
    /\ pending \in Seq(1 .. CameraFrames) /\ Len(pending) <= EncoderDelay
    /\ opened \subseteq Muxers
    /\ header \subseteq opened
    /\ written \in [Muxers -> Seq(1 .. CameraFrames)]
    /\ trailers \in [Muxers -> Nat]
    /\ fed \in Seq(1 .. CameraFrames)
    /\ failed \subseteq FaultNames \cup {"stopped_in_warmup"}
    /\ code \in {"none", "0", "1"}

\* What a muxer is given is, in the order of capture and without a gap or a
\* repetition, a beginning of what the process thread handed on, whatever fails
\* and whoever closes which queue when; and the stream gets exactly the packets
\* the file got, at most one of them later.
OutputInOrder ==
    /\ \A i, j \in 1 .. Len(fed) : i < j => fed[i] < fed[j]
    /\ \A m \in Muxers : IsPrefix(written[m], fed)
    /\ cfg.record /\ cfg.rtsp =>
          /\ IsPrefix(written["rtsp"], written["record"])
          /\ Len(written["record"]) <= Len(written["rtsp"]) + 1

\* When nothing failed, a frame that was accepted by the encode queue is in every
\* output by the time the mux thread is done, although the stop came at an
\* arbitrary moment and the raw queue was closed by the main thread; and when
\* the capture thread came to its end by itself, none of its frames is missing.
NothingLost ==
    failed = {} =>
        /\ pc["mux"] = "done" => \A m \in Outputs : written[m] = fed
        /\ pc["process"] = "done" /\ NeedEncode /\ ~stop =>
              fed = [i \in 1 .. taken |-> i]

\* However the mux thread comes to its end, every output that was opened is
\* closed by then, and one that has a packet, or that is open with no failure
\* on record, has its trailer.
OutputsFinished ==
    pc["mux"] = "done" =>
        /\ opened = {} /\ header = {}
        /\ \A m \in Outputs : written[m] # <<>> \/ failed = {} => trailers[m] = 1

\* Nothing is written to an output after its trailer, no output gets a second
\* trailer from the pipeline, and none is closed while its trailer is due.
NothingAfterTrailer ==
    [][\A m \in Muxers :
          /\ trailers[m] > 0 => written'[m] = written[m] /\ trailers'[m] = trailers[m]
          /\ m \in opened \ opened' => m \notin header]_vars

\* The components a running thread may touch.
Uses ==
    [capture |-> {"capture", "raw"},
     process |-> {"raw", "converter"}
                 \cup (IF NeedEncode THEN {"enc"} ELSE {})
                 \cup (IF cfg.processor THEN {"processor"} ELSE {})
                 \cup (IF cfg.preview THEN {"viewer"} ELSE {}),
     encode |-> {"enc", "encoder", "pkt"},
     mux |-> {"pkt"} \cup Outputs]

\* A component outlives every thread that uses it, and the encoder, whose
\* extradata the packets point to, outlives every packet; a queue is torn down
\* only when no thread has it on its list of queues to close.
NoUseAfterTeardown ==
    /\ \A t \in Workers : Running(t) => Uses[t] \subseteq live
    /\ \A t \in Threads : todo[t] \subseteq live
    /\ items["pkt"] # <<>> \/ hold["mux"] # 0 => "encoder" \in live

\* The faults that the code reports as errors.
Reported ==
    (FaultNames \ {"get_late", "get_again", "get_eof", "convert_eof", "encode_eof",
                   "mux_write_eof", "view_closed"}) \cup {"stopped_in_warmup"}

\* The process exits with status 1 when, and only when, some thread met an error,
\* whichever thread that was and however the stop interfered.
ExitStatus ==
    code # "none" => (code = "1" <=> failed \cap Reported # {})

\* A run that is stopped by a signal and meets no error exits with status 0.
SignalIsNoError ==
    failed \subseteq {"stopped_in_warmup"} => code # "1"

RawQueue ==
    INSTANCE BoundedChannel
    WITH Frames <- 1 .. CameraFrames, Capacity <- QueueSize,
         queue <- items["raw"], closed <- "raw" \in closed, ended <- "raw" \in ended

EncodeQueue ==
    INSTANCE BoundedChannel
    WITH Frames <- 1 .. CameraFrames, Capacity <- QueueSize,
         queue <- items["enc"], closed <- "enc" \in closed, ended <- "enc" \in ended

PacketQueue ==
    INSTANCE BoundedChannel
    WITH Frames <- 1 .. CameraFrames, Capacity <- QueueSize,
         queue <- items["pkt"], closed <- "pkt" \in closed, ended <- "pkt" \in ended

\* Each queue is used as the channel it is: nobody pushes into a full or closed
\* one, IPC_EOF is told only when nothing more can come, and none is torn down
\* before it was closed.
QueuesAreChannels == RawQueue!Spec /\ EncodeQueue!Spec /\ PacketQueue!Spec

\* Once Signal_Wait has returned the process exits: no thread is left blocked in
\* a queue that nobody will fill, empty or close, even when the camera delivers
\* nothing any more.
StopTerminates == At("main", "stop") ~> Exited

\* The threads behind the camera have come to their end.
OthersEnded == \A t \in Workers \ {"capture"} : pc[t] \in {"none", "done"}

\* When the capture thread has come to its end, for whatever reason, so do the
\* others, without any signal: IPC_EOF travels down the queues.
EndPropagates == (pc["capture"] = "done") ~> OthersEnded

\* When some thread has asked for a stop, the threads behind the camera end,
\* although the capture thread may hang in the camera and never look.
StopPropagates == stop ~> OthersEnded

=============================================================================
