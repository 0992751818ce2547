---------------------------- MODULE V4l2Capture ----------------------------
(***************************************************************************)
(* capture/v4l2_capture.c behind capture_manager.c, and device_scanner.c:  *)
(* the camera as AppPipeline_Init, _Start, _Stop and _Deinit drive it from *)
(* the main thread while capture_thread_main takes frames from it and      *)
(* gives them back.  Nothing locks the context they share.                 *)
(*                                                                         *)
(* The driver is external: a buffer belongs to the program or is queued    *)
(* for the driver, which fills it; VIDIOC_DQBUF takes the oldest filled    *)
(* buffer, waits while there is none, and fails once the stream is off.    *)
(*                                                                         *)
(* The two loops of capture_thread_main make the same calls of the camera  *)
(* and are one loop here; Pipeline has them apart, with the queue.         *)
(***************************************************************************)
EXTENDS Naturals, Sequences, FiniteSets

CONSTANTS BufferRequest,   \* V4L2_CAPTURE_BUFFER_COUNT
          BufferLimit,     \* what the driver grants at most
          MaxFrames,       \* config.max_frames
          ImageLimit,      \* bound: images the camera makes
          NodeLists        \* what /dev/video0, 1, ... may be

ASSUME CaptureAssumption ==
    /\ BufferRequest \in Nat \ {0}
    /\ BufferLimit \in Nat /\ BufferLimit >= BufferRequest
    /\ MaxFrames \in Nat \ {0}
    /\ ImageLimit \in Nat
    /\ \A list \in NodeLists : Len(list) \in Nat

VARIABLES
    nodes, node, camera,       \* the scan: the nodes, the next one, the one found
    cmain, cthread,            \* main and capture thread
    cstop,                     \* pipeline->stop
    cpriv, cfd, streaming,     \* manager->priv exists; ctx->fd; ctx->streaming
    mapped, bufferCount,       \* buffers[i].start # NULL; ctx->buffer_count
    frameIndex,                \* ctx->frame_index
    held,                      \* the buffer frame.data[0] is in, or 0
    place, image, driverOn,    \* driver: who has each buffer, what is in it
    clock,                     \* images the camera has made
    delivered,                 \* history: the frames GetFrame returned
    cfailed                    \* history: the calls of the system that failed

scanVars == <<nodes, node, camera>>
contextVars == <<cpriv, cfd, streaming, mapped, bufferCount, frameIndex>>
driverVars == <<place, image, driverOn, clock>>
captureVars == <<scanVars, cmain, cthread, cstop, contextVars, held, driverVars,
                 delivered, cfailed>>

Buffers == 1..BufferLimit

Places == {"user", "queued", "filled"}

CaptureInit ==
    /\ nodes \in NodeLists
    /\ node = 1
    /\ camera = 0
    /\ cmain = "scan"
    /\ cthread = "none"
    /\ cstop = FALSE
    /\ cpriv = FALSE
    /\ cfd = FALSE
    /\ streaming = FALSE
    /\ mapped = {}
    /\ bufferCount = 0
    /\ frameIndex = 0
    /\ held = 0
    /\ place = [b \in Buffers |-> "user"]
    /\ image = [b \in Buffers |-> 0]
    /\ driverOn = FALSE
    /\ clock = 0
    /\ delivered = <<>>
    /\ cfailed = {}

CMainGoes(from, to) == cmain = from /\ cmain' = to
CThreadGoes(from, to) == cthread = from /\ cthread' = to
Fails(call) == cfailed' = cfailed \cup {call}

-----------------------------------------------------------------------------
(* DeviceScanner_FindFirstCamera.  A node opens or not, answers            *)
(* VIDIOC_QUERYCAP or not, and has capabilities of the whole device and,   *)
(* where "device_caps" is among them, its own.                             *)

CapsOf(n) == IF "device_caps" \in n.all THEN n.own ELSE n.all

\* device_scanner_is_camera; its third test can never fail after the first.
IsCamera(n) == n.opens /\ n.answers /\ {"capture", "streaming"} \subseteq CapsOf(n)

ScanNode ==
    /\ cmain = "scan"
    /\ node <= Len(nodes)
    /\ IF IsCamera(nodes[node])
       THEN camera' = node /\ cmain' = "init" /\ UNCHANGED node
       ELSE node' = node + 1 /\ UNCHANGED <<camera, cmain>>
    /\ UNCHANGED <<nodes, cthread, cstop, contextVars, held, driverVars, delivered, cfailed>>

\* IPC_EOPEN: there is no camera, and AppPipeline_Init fails.
ScanEnds ==
    /\ node > Len(nodes)
    /\ CMainGoes("scan", "cleanup")
    /\ UNCHANGED <<scanVars, cthread, cstop, contextVars, held, driverVars, delivered, cfailed>>

-----------------------------------------------------------------------------
(* Main thread: AppPipeline_Init and AppPipeline_Start.                    *)

CaptureManagerInit ==
    /\ \/ CMainGoes("init", "open") /\ cpriv' = TRUE /\ UNCHANGED cfailed
       \/ CMainGoes("init", "cleanup") /\ Fails("calloc") /\ UNCHANGED cpriv
    /\ UNCHANGED <<scanVars, cthread, cstop, cfd, streaming, mapped, bufferCount,
                   frameIndex, held, driverVars, delivered>>

\* v4l2_capture_open fails before it asks for the buffers' places: the device
\* does not open, S_FMT or REQBUFS fails, the driver changes the pixel format
\* or grants too few buffers, or memory is short.
OpenFailsEarly ==
    /\ CMainGoes("open", "cleanup")
    /\ \E call \in {"open", "S_FMT", "pixelformat", "REQBUFS", "few buffers", "calloc"} :
          /\ Fails(call)
          /\ cfd' = (call # "open")
    /\ UNCHANGED <<scanVars, cthread, cstop, cpriv, streaming, mapped, bufferCount,
                   frameIndex, held, driverVars, delivered>>

\* Mutant of CountWhenMapping: the count is set after the loop over the buffers.
CountAfterMapping(granted) == 0

\* What buffer_count is while the buffers are mapped one after the other.
CountWhenMapping(granted) == granted

\* It fails at buffer i: the buffers before it are mapped and queued, and i is
\* mapped when only queueing it failed.
OpenFailsAt(granted, i) ==
    /\ CMainGoes("open", "cleanup")
    /\ cfd' = TRUE
    /\ bufferCount' = CountWhenMapping(granted)
    /\ \E call \in {"QUERYBUF", "mmap", "QBUF"} :
          /\ Fails(call)
          /\ mapped' = 1..(IF call = "QBUF" THEN i ELSE i - 1)
    /\ place' = [b \in Buffers |-> IF b < i THEN "queued" ELSE "user"]
    /\ UNCHANGED <<scanVars, cthread, cstop, cpriv, streaming, frameIndex, held, image,
                   driverOn, clock, delivered>>

Open(granted) ==
    /\ CMainGoes("open", "start")
    /\ cfd' = TRUE
    /\ bufferCount' = granted
    /\ mapped' = 1..granted
    /\ place' = [b \in Buffers |-> IF b <= granted THEN "queued" ELSE "user"]
    /\ UNCHANGED <<scanVars, cthread, cstop, cpriv, streaming, frameIndex, held, image,
                   driverOn, clock, delivered, cfailed>>

\* v4l2_capture_start, then pthread_create.  The threads before it may fail to
\* start, and then this one is not started either.
Start ==
    /\ \/ /\ CMainGoes("start", "create")
          /\ driverOn' = TRUE
          /\ frameIndex' = 0
          /\ streaming' = TRUE
          /\ UNCHANGED cfailed
       \/ /\ CMainGoes("start", "cleanup")
          /\ Fails("STREAMON")
          /\ UNCHANGED <<driverOn, frameIndex, streaming>>
    /\ UNCHANGED <<scanVars, cthread, cstop, cpriv, cfd, mapped, bufferCount, held, place,
                   image, clock, delivered>>

CreateThread ==
    /\ \/ CMainGoes("create", "wait") /\ cthread' = "loop" /\ UNCHANGED cfailed
       \/ CMainGoes("create", "cleanup") /\ Fails("pthread_create") /\ UNCHANGED cthread
    /\ UNCHANGED <<scanVars, cstop, contextVars, held, driverVars, delivered>>

-----------------------------------------------------------------------------
(* Main thread: AppPipeline_Stop after the signal, then the join of        *)
(* AppPipeline_Wait.  The capture thread may run between any two lines.    *)

StopFlag ==
    /\ CMainGoes("wait", "stop")
    /\ cstop' = TRUE
    /\ UNCHANGED <<scanVars, cthread, contextVars, held, driverVars, delivered, cfailed>>

\* Mutant of StreamOff: the stop only clears the flag.
StreamOffSkipped(to) ==
    /\ cmain' = to
    /\ UNCHANGED <<place, driverOn, cfailed>>

\* VIDIOC_STREAMOFF gives every buffer back to the program; a failure is only
\* reported.
StreamOff(to) ==
    /\ cmain' = to
    /\ \/ /\ driverOn' = FALSE
          /\ place' = [b \in Buffers |-> "user"]
          /\ UNCHANGED cfailed
       \/ /\ Fails("STREAMOFF")
          /\ UNCHANGED <<place, driverOn>>

\* v4l2_capture_stop in two steps: the call of the driver and the flag.
CaptureStopDriver ==
    /\ cmain = "stop"
    /\ cfd /\ streaming
    /\ StreamOff("flag")
    /\ UNCHANGED <<scanVars, cthread, cstop, contextVars, held, image, clock, delivered>>

CaptureStopFlag ==
    /\ CMainGoes("flag", "join")
    /\ streaming' = FALSE
    /\ UNCHANGED <<scanVars, cthread, cstop, cpriv, cfd, mapped, bufferCount, frameIndex,
                   held, driverVars, delivered, cfailed>>

Join ==
    /\ cthread = "done"
    /\ CMainGoes("join", "cleanup")
    /\ UNCHANGED <<scanVars, cthread, cstop, contextVars, held, driverVars, delivered, cfailed>>

-----------------------------------------------------------------------------
(* Main thread: AppPipeline_Deinit, with no thread left.                   *)

\* request_stop, and v4l2_capture_stop once more: it does nothing unless the
\* stream is on, which it is only when a thread could not be created.
CleanupStop ==
    /\ cmain = "cleanup"
    /\ cstop' = TRUE
    /\ IF cfd /\ streaming
       THEN StreamOff("close") /\ streaming' = FALSE
       ELSE cmain' = "close" /\ UNCHANGED <<streaming, place, driverOn, cfailed>>
    /\ UNCHANGED <<scanVars, cthread, cpriv, cfd, mapped, bufferCount, frameIndex, held,
                   image, clock, delivered>>

\* v4l2_capture_close, called only when Open had succeeded; v4l2_capture_deinit
\* unmaps what is mapped and closes what is still open.  The last close ends
\* the stream.
CaptureDeinit ==
    /\ CMainGoes("close", "exit")
    /\ mapped' = {b \in mapped : b > bufferCount}
    /\ cfd' = FALSE
    /\ cpriv' = FALSE
    /\ driverOn' = FALSE
    /\ place' = [b \in Buffers |-> "user"]
    /\ UNCHANGED <<scanVars, cthread, cstop, streaming, bufferCount, frameIndex, held, image,
                   clock, delivered, cfailed>>

-----------------------------------------------------------------------------
(* capture_thread_main.                                                    *)

\* while (!pipeline->stop), and the test at the head of
\* v4l2_capture_get_frame, which fails with IPC_ESTATE.
GetFrame ==
    /\ cthread = "loop"
    /\ cthread' = IF cstop \/ ~cfd \/ ~streaming THEN "done" ELSE "dqbuf"
    /\ UNCHANGED <<scanVars, cmain, cstop, contextVars, held, driverVars, delivered, cfailed>>

\* The filled buffer with the oldest image.
Oldest(b) ==
    /\ place[b] = "filled"
    /\ \A c \in Buffers : place[c] = "filled" => image[b] <= image[c]

\* The frame that get_frame makes of buffer b, without a copy.
FrameIn(b) == [image |-> image[b], pts |-> frameIndex]

\* Mutant of AfterDequeue: the driver has the buffer again at once.
RequeuedAtOnce(b) == [place EXCEPT ![b] = "queued"]

AfterDequeue(b) == [place EXCEPT ![b] = "user"]

Dequeue(b) ==
    /\ driverOn
    /\ Oldest(b)
    /\ CThreadGoes("dqbuf", "push")
    /\ place' = AfterDequeue(b)
    /\ held' = b
    /\ delivered' = Append(delivered, FrameIn(b))
    /\ frameIndex' = frameIndex + 1
    /\ UNCHANGED <<scanVars, cmain, cstop, cpriv, cfd, streaming, mapped, bufferCount, image,
                   driverOn, clock, cfailed>>

\* VIDIOC_DQBUF fails by itself: with EAGAIN the thread tries again, with any
\* other error it stops the pipeline.
DequeueFails ==
    /\ driverOn
    /\ \/ CThreadGoes("dqbuf", "loop") /\ UNCHANGED <<cfailed, cstop>>
       \/ CThreadGoes("dqbuf", "done") /\ Fails("DQBUF") /\ cstop' = TRUE
    /\ UNCHANGED <<scanVars, cmain, contextVars, held, driverVars, delivered>>

\* It fails because the stream is off.
DequeueEnds ==
    /\ ~driverOn
    /\ CThreadGoes("dqbuf", "done")
    /\ cstop' = TRUE
    /\ UNCHANGED <<scanVars, cmain, contextVars, held, driverVars, delivered, cfailed>>

\* FrameQueue_Push copies the frame; it may wait for room.
Push ==
    /\ CThreadGoes("push", "release")
    /\ UNCHANGED <<scanVars, cmain, cstop, contextVars, held, driverVars, delivered, cfailed>>

\* buffers[i].start = frame->data[0], for an i below buffer_count.
IsBufferOf(b) == b \in 1..bufferCount /\ held = b

\* v4l2_capture_release_frame: the buffer is queued again, or VIDIOC_QBUF
\* fails and the thread stops the pipeline.
Release ==
    /\ cthread = "release"
    /\ held' = 0
    /\ \/ /\ place' = [b \in Buffers |-> IF IsBufferOf(b) THEN "queued" ELSE place[b]]
          /\ cthread' = IF Len(delivered) >= MaxFrames THEN "done" ELSE "loop"
          /\ UNCHANGED <<cstop, cfailed>>
       \/ /\ cthread' = "done"
          /\ Fails("QBUF")
          /\ cstop' = TRUE
          /\ UNCHANGED place
    /\ UNCHANGED <<scanVars, cmain, contextVars, image, driverOn, clock, delivered>>

-----------------------------------------------------------------------------
(* External: the driver, and the other threads.                            *)

\* An image goes into a queued buffer, or is lost when there is none.
CameraFrame ==
    /\ driverOn
    /\ clock < ImageLimit
    /\ clock' = clock + 1
    /\ \/ \E b \in Buffers :
             /\ place[b] = "queued"
             /\ place' = [place EXCEPT ![b] = "filled"]
             /\ image' = [image EXCEPT ![b] = clock + 1]
       \/ /\ \A b \in Buffers : place[b] # "queued"
          /\ UNCHANGED <<place, image>>
    /\ UNCHANGED <<scanVars, cmain, cthread, cstop, contextVars, held, driverOn, delivered,
                   cfailed>>

\* Another thread fails and requests a stop, which does not reach the camera.
OtherThreadStops ==
    /\ cmain \in {"wait", "stop", "flag", "join"}
    /\ ~cstop
    /\ cstop' = TRUE
    /\ UNCHANGED <<scanVars, cmain, cthread, contextVars, held, driverVars, delivered, cfailed>>

CMainStep ==
    \/ ScanNode \/ ScanEnds \/ CaptureManagerInit
    \/ OpenFailsEarly
    \/ \E granted \in BufferRequest..BufferLimit :
          \/ Open(granted)
          \/ \E i \in 1..granted : OpenFailsAt(granted, i)
    \/ Start \/ CreateThread
    \/ CaptureStopDriver \/ CaptureStopFlag \/ Join \/ CleanupStop \/ CaptureDeinit

CaptureThreadStep ==
    \/ GetFrame
    \/ \E b \in Buffers : Dequeue(b)
    \/ DequeueEnds \/ Push \/ Release

CaptureNext ==
    \/ CMainStep \/ StopFlag \/ CaptureThreadStep
    \/ DequeueFails \/ CameraFrame \/ OtherThreadStops

\* The scheduler runs both threads.  The camera need not make another image,
\* and the signal that StopFlag answers need not come.  Only what a thread
\* does by itself is in its fairness: DequeueFails is the driver's choice.  That
\* Push returns after a stop is what Pipeline's StopPropagates shows.
CaptureFairness ==
    /\ WF_captureVars(CMainStep)
    /\ WF_captureVars(CaptureThreadStep)

CaptureSpec == CaptureInit /\ [][CaptureNext]_captureVars

-----------------------------------------------------------------------------
(* Properties.                                                             *)

PlacesInCode ==
    /\ nodes \in NodeLists /\ node \in Nat /\ camera \in Nat
    /\ cmain \in {"scan", "init", "open", "start", "create", "wait", "stop", "flag",
                  "join", "cleanup", "close", "exit"}
    /\ cthread \in {"none", "loop", "dqbuf", "push", "release", "done"}
    /\ cstop \in BOOLEAN

ContextOK ==
    /\ cpriv \in BOOLEAN /\ cfd \in BOOLEAN /\ streaming \in BOOLEAN
    /\ mapped \subseteq Buffers
    /\ bufferCount \in 0..BufferLimit
    /\ frameIndex \in Nat
    /\ held \in 0..BufferLimit

DriverOK ==
    /\ place \in [Buffers -> Places]
    /\ image \in [Buffers -> Nat]
    /\ driverOn \in BOOLEAN
    /\ clock \in Nat
    /\ delivered \in Seq([image : Nat, pts : Nat])

\* Every variable stays in its range.
CaptureTypeOK == PlacesInCode /\ ContextOK /\ DriverOK

\* A frame points into the driver's memory until it is released.  While the
\* thread has one, its buffer stays mapped and is the program's, whatever main
\* does to the stream, and holds the image that GetFrame returned.
HeldIsStable ==
    held # 0 =>
        /\ held \in mapped
        /\ place[held] = "user"
        /\ Len(delivered) > 0
        /\ image[held] = delivered[Len(delivered)].image

\* While the stream is on and the thread takes frames, the driver has every
\* buffer but the one the thread holds.
NoBufferLost ==
    driverOn /\ cthread \in {"loop", "dqbuf", "push", "release"} =>
        \A b \in 1..bufferCount : b = held <=> place[b] = "user"

\* No buffer is with two owners or with none: the driver never fills the frame
\* that the thread is copying, and no release forgets a buffer, after which
\* the stream would slow down and stop.
BuffersAccountedFor == HeldIsStable /\ NoBufferLost

\* Wherever v4l2_capture_open failed, AppPipeline_Deinit gives everything back.
NothingLeftBehind ==
    cmain = "exit" => mapped = {} /\ ~cfd /\ ~cpriv /\ ~driverOn

\* DeviceScanner_FindFirstCamera chooses the first node that can capture and
\* stream by itself; the metadata node of a camera beside it, which has the
\* device's capabilities, is passed over.
FirstCamera ==
    LET Capable(n) == /\ nodes[n].opens /\ nodes[n].answers
                      /\ {"capture", "streaming"} \subseteq
                            (IF nodes[n].all \cap {"device_caps"} = {} THEN nodes[n].all
                             ELSE nodes[n].own)
    IN  cmain # "scan" =>
            IF camera = 0 THEN \A n \in 1..Len(nodes) : ~Capable(n)
            ELSE Capable(camera) /\ \A n \in 1..(camera - 1) : ~Capable(n)

\* AppPipeline_Stop ends a VIDIOC_DQBUF that waits for a camera which makes no
\* more images, so that the join returns, unless STREAMOFF itself fails.
StopEndsCapture ==
    (cmain = "join" /\ "STREAMOFF" \notin cfailed) ~> (cmain = "exit")

=============================================================================
