------------------------------ MODULE Encoder ------------------------------
(***************************************************************************)
(* encoder/h264_ffmpeg_encoder.c and encode_thread_main, which drives it.  *)
(*                                                                         *)
(* The codec of FFmpeg is external.  It is sent one frame per call and may *)
(* keep up to delay frames back before it hands out their packets.  The    *)
(* encoder takes every packet the codec is ready to give, keeps them in    *)
(* pending, and returns one per call.  Each call is one step: the encoder  *)
(* belongs to the encode thread alone.                                     *)
(*                                                                         *)
(* Line 316, where the codec does not accept a frame for now (EAGAIN), is  *)
(* not modelled: libavcodec says so only while it has packets to give, and *)
(* each call before has received until there were none.                    *)
(***************************************************************************)
EXTENDS PacketStream

CONSTANTS PendingCount,  \* H264_PENDING_PACKET_COUNT
          Gop,           \* gop_size: at most so many frames from key to key
          Delays,        \* how many frames a codec may keep back
          MaxFrames      \* bound on the frames that are encoded

EncoderFaults == {"pop", "encode", "receive", "store", "fill", "drain", "push"}

ASSUME EncoderAssumption ==
    /\ PendingCount \in Nat \ {0}
    /\ Gop \in Nat \ {0}
    /\ Delays \subseteq Nat
    /\ MaxFrames \in Nat

VARIABLES
    epc,       \* where the encode thread is
    delay,     \* how many frames this codec keeps back at most
    sent,      \* frames taken from the encode queue
    since,     \* frames since the last key frame
    codec,     \* accepted by avcodec_send_frame, not yet received
    pending,   \* pending_packets
    out,       \* the packet the thread is about to push, if any
    flushing,  \* flushing
    efailed    \* history: what went wrong

codecVars == <<codec, pending>>
encoderVars == <<epc, delay, sent, since, codecVars, out, flushing, efailed>>

Labels == {"loop", "push", "flush", "push_flush", "exit", "done", "gone"}

EncoderInit ==
    /\ epc = "loop"
    /\ delay \in Delays
    /\ sent = 0
    /\ since = 0
    /\ codec = <<>>
    /\ pending = <<>>
    /\ out = <<>>
    /\ flushing = FALSE
    /\ efailed = {}

First(s, n) == SubSeq(s, 1, n)
From(s, n) == SubSeq(s, n + 1, Len(s))

-----------------------------------------------------------------------------
(* Failures.                                                               *)

EncoderFault(f) ==
    /\ f \in Faults \cap EncoderFaults
    /\ Cardinality(efailed) < MaxFaults
    /\ efailed' = efailed \cup {f}

\* The thread notes an error, requests a stop and goes on at label.
EncoderStops(label) ==
    /\ epc' = label
    /\ Shut

-----------------------------------------------------------------------------
(* h264_ffmpeg_receive_packets, then h264_ffmpeg_pop_packet.               *)

\* Mutant of Receive: new packets overtake the pending ones.
ReceiveFirst(inside, kept, some, none) ==
    \E n \in 0..Len(inside) :
        LET ready == First(inside, n) \o pending
        IN  /\ Len(inside) - n <= kept
            /\ Len(ready) <= PendingCount
            /\ codec' = From(inside, n)
            /\ IF ready = <<>>
               THEN epc' = none /\ UNCHANGED <<pending, out>>
               ELSE epc' = some /\ out' = <<Head(ready)>> /\ pending' = Tail(ready)
            /\ UNCHANGED <<streamVars, efailed>>

\* The frames in inside are with the codec, which gives the packets of the
\* first n and says that there is no more: EAGAIN when it keeps the others
\* back, EOF while it is flushed.  The oldest packet is returned: IPC_OK, and
\* the thread goes to some; or there is none, and it goes to none.
Receive(inside, kept, some, none) ==
    \E n \in 0..Len(inside) :
        LET ready == pending \o First(inside, n)
        IN  /\ Len(inside) - n <= kept
            /\ Len(ready) <= PendingCount
            /\ codec' = From(inside, n)
            /\ IF ready = <<>>
               THEN epc' = none /\ UNCHANGED <<pending, out>>
               ELSE epc' = some /\ out' = <<Head(ready)>> /\ pending' = Tail(ready)
            /\ UNCHANGED <<streamVars, efailed>>

\* Mutant of NoRoom: the last place is never used.
NoRoomEarly(n) == Len(pending) + n >= PendingCount

\* The n-th packet of this receive finds all the places taken.
NoRoom(n) == Len(pending) + n > PendingCount

\* The same when something fails: the codec after n packets, the reference to
\* the n-th packet, which is lost, or the copy for the caller, when the packet
\* has left pending already.  Or the n-th packet finds no room and is lost.
ReceiveFails(inside, kept, label) ==
    \E n \in 0..Len(inside) :
        /\ codec' = From(inside, n)
        /\ \/ /\ Len(pending) + n <= PendingCount
              /\ EncoderFault("receive")
              /\ pending' = pending \o First(inside, n)
           \/ /\ n > 0
              /\ Len(pending) + n <= PendingCount
              /\ EncoderFault("store")
              /\ pending' = pending \o First(inside, n - 1)
           \/ /\ Len(inside) - n <= kept
              /\ Len(pending) + n \in 1..PendingCount
              /\ EncoderFault("fill")
              /\ pending' = Tail(pending \o First(inside, n))
           \/ /\ n > 0
              /\ ~NoRoom(n - 1)
              /\ NoRoom(n)
              /\ efailed' = efailed \cup {"full"}
              /\ pending' = pending \o First(inside, n - 1)
        /\ out' = out
        /\ EncoderStops(label)

-----------------------------------------------------------------------------
(* encode_thread_main, the loop: h264_ffmpeg_encode.                       *)

\* What the codec may make of the next frame: the first one is a key frame,
\* and so is the one that would be number Gop after the last.
Coded ==
    {[frame |-> sent + 1, key |-> k] :
        k \in IF sent = 0 \/ since + 1 >= Gop THEN {TRUE} ELSE BOOLEAN}

Encode ==
    /\ epc = "loop"
    /\ sent < MaxFrames
    /\ sent' = sent + 1
    /\ \E packet \in Coded :
          /\ since' = IF packet.key THEN 0 ELSE since + 1
          /\ \/ Receive(Append(codec, packet), delay, "push", "loop")
             \/ ReceiveFails(Append(codec, packet), delay, "flush")
    /\ UNCHANGED <<delay, flushing>>

\* The frame does not fit the codec, or the codec fails to take it.
EncodeRejects ==
    /\ epc = "loop"
    /\ sent < MaxFrames
    /\ EncoderFault("encode")
    /\ sent' = sent + 1
    /\ EncoderStops("flush")
    /\ UNCHANGED <<delay, since, codecVars, out, flushing>>

\* FrameQueue_Pop(encode_queue): IPC_EOF at any time, or an error.
InputEnds ==
    /\ epc = "loop"
    /\ epc' = "flush"
    /\ UNCHANGED <<streamVars, delay, sent, since, codecVars, out, flushing, efailed>>

InputFails ==
    /\ epc = "loop"
    /\ EncoderFault("pop")
    /\ EncoderStops("flush")
    /\ UNCHANGED <<delay, sent, since, codecVars, out, flushing>>

-----------------------------------------------------------------------------
(* PacketQueue_Push, in the loop and in the flush loop.                    *)

AfterPush == IF epc = "push" THEN "loop" ELSE "flush"
AfterNoPush == IF epc = "push" THEN "flush" ELSE "exit"

PushFrame == <<delay, sent, since, codecVars, flushing>>

PushPacket ==
    /\ epc \in {"push", "push_flush"}
    /\ Accept(Head(out))
    /\ out' = <<>>
    /\ epc' = AfterPush
    /\ UNCHANGED <<PushFrame, efailed>>

\* Mutant of PushRefused: the packet is not given back.
PushRefusedKeeps ==
    /\ epc \in {"push", "push_flush"}
    /\ closed
    /\ out' = out
    /\ epc' = AfterNoPush
    /\ efailed' = efailed \cup {"refused"}
    /\ UNCHANGED <<PushFrame, streamVars>>

\* IPC_EOF: another thread has requested a stop.
PushRefused ==
    /\ epc \in {"push", "push_flush"}
    /\ closed
    /\ out' = <<>>
    /\ epc' = AfterNoPush
    /\ efailed' = efailed \cup {"refused"}
    /\ UNCHANGED <<PushFrame, streamVars>>

PushFails ==
    /\ epc \in {"push", "push_flush"}
    /\ EncoderFault("push")
    /\ out' = <<>>
    /\ EncoderStops(AfterNoPush)
    /\ UNCHANGED PushFrame

-----------------------------------------------------------------------------
(* encode_thread_main, the flush loop: h264_ffmpeg_flush.                  *)

\* Mutant of Flush: the codec is not drained, only the pending packets are.
FlushPending ==
    /\ epc = "flush"
    /\ flushing' = TRUE
    /\ Receive(<<>>, 0, "push_flush", "exit")
    /\ UNCHANGED <<delay, sent, since>>

\* The first call ends the input of the codec; each call returns one packet,
\* and IPC_EOF comes when codec and pending are empty.
Flush ==
    /\ epc = "flush"
    /\ flushing' = TRUE
    /\ Receive(codec, 0, "push_flush", "exit")
    /\ UNCHANGED <<delay, sent, since>>

FlushFails ==
    /\ epc = "flush"
    /\ \/ flushing' = TRUE /\ ReceiveFails(codec, 0, "exit")
       \/ /\ ~flushing
          /\ EncoderFault("drain")
          /\ EncoderStops("exit")
          /\ UNCHANGED <<codecVars, out, flushing>>
    /\ UNCHANGED <<delay, sent, since>>

EncoderExit ==
    /\ epc = "exit"
    /\ EncoderStops("done")
    /\ UNCHANGED <<delay, sent, since, codecVars, out, flushing, efailed>>

\* h264_ffmpeg_deinit, called by the main thread: what is left is freed.
EncoderDeinit ==
    /\ epc = "done"
    /\ epc' = "gone"
    /\ codec' = <<>>
    /\ pending' = <<>>
    /\ UNCHANGED <<streamVars, delay, sent, since, out, flushing, efailed>>

EncodeThread ==
    \/ Encode \/ EncodeRejects \/ InputEnds \/ InputFails
    \/ PushPacket \/ PushRefused \/ PushFails
    \/ Flush \/ FlushFails \/ EncoderExit

\* What other threads do to the packet queue.
Others == (TakeNext \/ Shut) /\ UNCHANGED encoderVars

EncoderNext == EncodeThread \/ EncoderDeinit \/ Others

EncoderSpec ==
    StreamInit /\ EncoderInit /\ [][EncoderNext]_<<streamVars, encoderVars>>

-----------------------------------------------------------------------------
(* Properties.                                                             *)

\* Types of the packet queue and of the encoder.
EncoderTypeOK ==
    /\ emitted \in Seq(Packets)
    /\ taken \in Nat
    /\ closed \in BOOLEAN
    /\ epc \in Labels
    /\ delay \in Delays
    /\ sent \in Nat
    /\ since \in Nat
    /\ codec \in Seq(Packets)
    /\ pending \in Seq(Packets)
    /\ Len(pending) <= PendingCount
    /\ out \in Seq(Packets)
    /\ Len(out) = IF epc \in {"push", "push_flush"} THEN 1 ELSE 0
    /\ flushing \in BOOLEAN
    /\ efailed \subseteq EncoderFaults \cup {"full", "refused"}

\* All packets, from the first one emitted to the last one in the codec.
Line == emitted \o out \o pending \o codec

\* Packets never overtake each other, whatever fails; and as long as nothing
\* has failed none is missing anywhere, and none is left when the thread ends.
PacketsInOrder ==
    /\ \A i, j \in 1..Len(Line) : i < j => Line[i].frame < Line[j].frame
    /\ epc # "gone" /\ efailed = {} =>
          /\ Len(Line) = sent
          /\ epc = "done" => Len(emitted) = sent

\* pending_packets overflows only with a codec that keeps back as many frames
\* as there are places, or more; one less is fine.  The overflow is what
\* line 91 answers with IPC_ESTATE, and a packet is lost.
PendingFits == "full" \in efailed => delay >= PendingCount

=============================================================================
