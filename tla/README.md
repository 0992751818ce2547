# IPC recorder: specifications and proofs

TLA+ models of the video recorder in this repository, the TLC runs that check
them, and TLAPS proofs. The code is the reference; the documents under `docs/` are
used only for what they claim about it.

## The system

`ipc_recorder` reads frames from a camera and records, streams and previews them.
One process, five threads, three queues:

```
camera -> capture -> raw_queue -> process -> encode_queue -> encode -> packet_queue -> mux -> mp4/segment, rtsp
                                     |-> snapshot JPEG (file), SDL preview (own thread)
main: Init, Start, wait for SIGINT/SIGTERM, Stop, Wait (join), Deinit
```

| part | state | operations | meets the others through |
|---|---|---|---|
| queues, `core/thread_queue.c` | ring, indices, counter, `closed`, mutex, two condition variables | Init, Push, Pop, Close, Deinit | called by every thread |
| pipeline, `app/app_pipeline.c`, `app/main.c` | `stop`, `error`, `..._inited`, `..._started`, `..._opened`, `..._header_written` flags | Init, Start, Wait, Stop, Deinit, four thread functions, `request_stop` | flags read without a lock, queues, joins |
| capture, `capture/` | V4L2 fd, mmap buffers, `streaming` | scan, Open, Start, GetFrame, ReleaseFrame, Stop, Close | capture thread and main (Stop) at once |
| converter and processor, `converter/`, `frame_processor/` | one output frame | Convert, Process | process thread only |
| encoder, `encoder/` | FFmpeg context, ring of 16 pending packets | Encode, Flush | encode thread; packets point to its extradata |
| muxers, `muxer/` | format context, header and trailer flags, segment counters | Open, WriteHeader, WritePacket, WriteTrailer, Close, Deinit | mux thread, then main (Deinit) |
| snapshot sink, `sink/` | frame counter, temporary and final file | write | process thread; an external reader of the file |
| viewer, `viewer/` | frame buffer, `running`, `error_result` | Init, Display, Deinit | process thread and the SDL thread |
| registries, `modules/`, `*_manager.c` | tables of 16 operation records | Register, Find | Init only |
| configuration, `app/app_config.c` | one struct | SetDefault, ParseArgs | read by all, written before the threads start |
| detector, `yolov5/` | RKNN context, initialised flag, labels | init, infer, release | two test programs; the recorder does not call it yet |
| `build_ipc/`, `docs/` | - | - | nothing that runs |

What makes each of them correct:

- **Queues.** First in first out; the bound holds; no wakeup is lost; a close
  releases every sleeper and is final; a closed queue is drained before it reports
  the end; each clone has one owner and is freed once.
- **Pipeline.** On a signal every accepted frame reaches every output; each output
  gets header, packets, one trailer, close; a failure anywhere ends all threads;
  nothing is used after its teardown; the exit status tells.
- **Capture.** A buffer is with the driver or with the thread, and goes back.
- **Encoder.** Packets come out in order and all of them, also from a flush.
- **Muxers.** Every packet in every output, in order; one trailer per file and
  nothing after it; a segment starts with a keyframe and has its length.
- **Snapshot.** A reader sees a whole picture, across crashes.
- **Viewer.** Display never blocks, and Deinit ends the SDL thread.
- **Registries.** A name finds the last record registered under it.
- **Configuration and Init.** The configuration is what the command line means;
  what Init made before it failed is freed, once.
- **Pictures.** Each byte ends where its pixel belongs, through five copies.
- **Detector.** The best boxes are reported and nothing is kept that a call made.

Hard to test are: the interleaving of five threads over three bounded queues,
the order in which queues are closed on a stop and on an error, a signal that
arrives at an awkward moment (during start-up frames, while every queue is full),
one of several steps failing, teardown after a partial start, a camera buffer or a
viewer that two threads use without a lock, and a kill in the middle of a
snapshot. `PROJECT.json` lists them at their lines.

## Modules

| module | what it models |
|---|---|
| `BoundedChannel` | what a queue promises: a bounded FIFO that can be closed. Abstract; every operation is one step |
| `ThreadQueue` | `thread_queue.c` step by step: lock, test, wait, store or take, signal, unlock; close; teardown; and the buffers |
| `ThreadQueueProofs` | theorems about `ThreadQueue`, for all values of its constants |
| `Pipeline` | `app_pipeline.c` and `main.c`: the five threads over three channels |
| `PipelineProofs` | theorems about `Pipeline`: types, threads and components, outputs, exit status, the queues as channels |
| `PipelineOrderProofs` | the order of the frames in `Pipeline`, and that none is lost |
| `PacketStream` | the packet queue as the next two modules see it: all it ever accepted, and how much was taken |
| `Encoder` | `h264_ffmpeg_encoder.c` with `encode_thread_main` |
| `EncoderProofs` | theorems about `Encoder` |
| `Muxers` | `mp4_muxer.c`, `segment_muxer.c`, `rtsp_muxer.c` with `mux_thread_main` and their teardown |
| `Recording` | `Encoder` and `Muxers` over one `PacketStream`, up to and including `AppPipeline_Deinit` |
| `RecordingProofs` | `Recording` runs `Encoder`, so the theorems carry over; then theorems about the muxers and their outputs |
| `V4l2Capture` | `v4l2_capture.c`, `device_scanner.c`: the camera's context and buffers under main and the capture thread |
| `Viewer` | `sdl_display_sdl.c`: main, the process thread and the viewer's thread over one context |
| `Snapshot` | `snapshot_jpeg_sink.c` beside a reader, with kills and restarts |
| `Startup` | `app_config.c`, `main.c`, `AppPipeline_Init` and `_Deinit` with the Init and Deinit of each plug-in |
| `PluginTable` | what a manager promises of its plug-ins. Abstract |
| `Registry` | Register and Find, of which seven managers have a copy |
| `Frames` | the bytes of a picture: clones, `yuyv_to_yuv420_converter.c`, `osd_processor.c`, the viewer's copy, NV12 |
| `Vision` | the arithmetic of `postprocess.cc` and `image_utils.c` |
| `Detector` | `rknn_yolo_wrapper.cpp`, the media adapter, `yolov5.cc`, `postprocess.cc`, the readers of `image_utils.c` and `file_utils.c` |
| `EdgeProofs` | theorems about `V4l2Capture`, `Viewer` and `Snapshot` |
| `DetectorProofs` | theorems about `Detector` |
| `ProgramProofs` | theorems about `Registry`, `Vision`, `Startup` and `Frames` |
| `MCThreadQueue`, `MCPipeline`, `MCRecording`, `MCParts` | small instances for TLC |

`Pipeline` composes its threads over three instances of `BoundedChannel`
(`RawQueue`, `EncodeQueue`, `PacketQueue`); `ThreadQueue` refines the same module
by the mapping `Channel`. That is the argument for using one-step queue operations
in `Pipeline`. It covers the safety of the queue; that a blocked operation
eventually proceeds is `CloseReleasesAll` and `AcceptedIsPopped` on the one side
and an enabled action under fairness on the other.

### ThreadQueue

`pc[t]` is the place of a thread in push, pop or close; `push_wait` and `pop_wait`
are the wait sets of `not_full` and `not_empty`, and `..._woken` is a thread that was
woken and has to take the mutex again. `heap` is the set of buffers allocated and
not freed, `frame[t]` the one a thread has in hand (its clone, or what it popped).
`FrameQueue` and `PacketQueue` are the same code over two types, so the module
stands for both. A failing clone, lock or wait and a spurious wakeup are in
`Faults`. Callers behave like the workers: a producer closes the queue when it
leaves, a consumer leaves on `IPC_EOF` or on the stop flag, main tears down when all
are done. Not modelled: what is in a frame (`frame_data_size`, plane pointers),
failures of the allocation in Init (the queue does not exist then), and a failing
lock inside Close, whose result the code ignores.

### Pipeline

`pc[t]` is the place of a thread, `todo[t]` the set of queues it still has to close
inside `app_pipeline_request_stop`: the flag is set in one step and each queue is closed
in a later step of its own, in the order of the code, so other threads run in
between. `items`, `closed` and `ended` are the queues: what is in each, which are closed, and
which have told their reader `IPC_EOF`. `started`, `live`, `opened` and `header` are the
groups of flags of the struct; `Wanted` is the threads and `Configured` the components that the
configuration asks for. `failed` and `fed` are
history. An operation of a component behind a manager (camera, converter,
encoder, muxer, viewer) is external: its result is a choice, and the constant `Faults`
says which results other than success are considered. `stopped_in_warmup` in
`failed` marks the one failure the environment does not choose: `GetFrame` failing
because main switched the stream off.

Simplifications, each with its reason:

- `AppPipeline_Init` makes one component per step and stops at the first failure;
  what a component makes and frees is in `Startup`, the device scan in `V4l2Capture`.
- The snapshot sink is left out here: its failures are logged and change nothing
  (`Snapshot` has it).
- Convert, overlay and display are one step of the process thread, since nothing
  else sees what happens between them; each of their results is a branch.
- A converter that answers `IPC_EAGAIN` (none does) would skip a frame; left out.
- A packet is named by the frame it encodes. The encoder keeps up to
  `EncoderDelay` frames back. A `Flush` that answers `IPC_EAGAIN` is retried by the
  code at once and is not a step.
- Once the stream is off, `GetFrame` fails. `v4l2_capture_get_frame` tests its
  `streaming` flag, and a thread already in `VIDIOC_DQBUF` is released by
  `VIDIOC_STREAMOFF`; the latter is the driver's promise, as
  `docs/changes/2026-07-17_engineering_refactor.md` also notes.
- `stop` is a plain volatile int and `error` a plain int. A read sees the latest
  write in the model. `stop` is only ever set, so a late read is a read at a later
  loop head, which the interleavings contain; `error` is read after the joins.

### Encoder, Muxers and Recording

`Pipeline` takes encoder and muxers as plug-ins with any answer; these modules look
inside. `Recording` has only the two threads that use them, the packet queue
between the two, and a stop request from outside; the frames come from the
encode queue, which may end or fail at any moment.

In `Encoder` a packet is named by its frame. `codec` is what libavcodec has
accepted and not handed out: it may keep up to `delay` frames back (external; the
options of the code ask for none, `delay = 0`). `Receive` is one call with its receive
loop, `pending_packets` and the packet that is returned; `ReceiveFails` is the same
call when the codec, the reference to a packet, the copy for the caller or the
room in `pending_packets` fails, with what is lost in each case. The last of these
is not chosen by the environment: it follows from `NoRoom`. `delay` is a variable
that never changes, so that one run has several codecs.

In `Muxers` `ctx[m]` holds the flags of a muxer's context and `outputs[m]` what
libavformat was told for each file: header, samples, trailers, close. Calls are
single steps, because a muxer belongs to the mux thread and after the joins to main.
The last segment is closed by the trailer, the stream when its context is freed.
`MuxersAssumption` says which muxers can serve a role: a recording is an mp4 file or
segments, and the mux thread exists only for at least one output.
`SegmentFrames` stands for `segment_time * fps`, whose width `Startup` has. Not
modelled: extradata, transport options, the mapping of FFmpeg's error numbers, the
file system's own state when a file cannot be opened, and the store to `error`,
which `Pipeline` has.

### V4l2Capture, Viewer and Snapshot

The camera, the window and the snapshot are where the pipeline meets the outside.
They share no state with each other.

In `V4l2Capture` `place[b]` says who has a buffer (the program, the driver's queue, or
filled and waiting) and `image[b]` what is in it. Main goes through scan, init, open,
start, create, wait, stop, flag, join, cleanup and close, the thread through
loop, dqbuf, push and release; each ioctl is a step, so `VIDIOC_STREAMOFF` comes at
any place of the thread. Any call may fail, and the names of those that did are in
`cfailed`. The code has no lock here. What keeps it right is that the mapping outlives
the thread, which the join guarantees, and that `STREAMOFF` does not touch the memory.
The two loops of `capture_thread_main` make the same calls and are one here.

In `Viewer` the flags `running`, `ready` and `error_result` are written and read without the
mutex, each in a step of its own; copying a frame and updating the texture take
two steps each, so an overlap would show. The flags are `volatile` and the
configured build is for x86-64 without optimisation, so writes are seen in their
order; on another machine the C standard promises less, and `EofOnlyWhenClosed`
depends on it.

In `Snapshot` a name leads to a file and a reader keeps the file it opened, as on any
POSIX file system. A kill may come at any step and the next run starts from what
lies there, a temporary file included. What a killed process has written is
kept; a power failure is another matter, since the code does not `fsync`.

### Startup, Registry, Frames and Detector

These have one thread each. `Startup` takes a command line through the parser, the
registration and `AppPipeline_Init`. Each allocation is a step (`Allocate`) which may
fail (`InitPartFails`); `InitOf` and `FreedBy` translate the init and deinit of each
plug-in into what it refuses, makes and frees. A plug-in that fails in init is never
deinitialised, so its own error path must free what it has: `Undone`. The ints have
`IntSpan` values, and `Wrapped` is what gcc's build does with an overflow. The parser goes
from left to right; the property it is held against, `Meaning`, reads the line as a whole:
`IsOption` says which words are options without going through the words before, and of
each option the last one counts.

`Registry` is one module for seven files that differ in names only; `map` names a
different copy for each definition. The same holds for the managers' Init in
`Startup` and for the three quantised forms of `process_...` in `Vision`.

In `Frames` a byte is a term that says which byte of the camera it is, or the mean of
two, or the overlay's ink. Each step computes the offsets the code computes, for
source and destination, and `outside` records an access out of bounds. There are two
sizes, the one that was asked for (`shape.asked`, which the converter and the viewer keep) and
the one the driver gave, which the frames of the camera have; where they differ the
converter refuses the picture (`ConvertRefuses`) and the process thread ends with an error.

`Detector` has the wrapper's flag, what is allocated (`allocated`) and what nobody has a
pointer to any more (`lost`). The network is external: it sees any list of cells, which
the decoder goes through one by one. `post_process` is modelled loop by loop, in
place, on `objProbs` and `indexArray`: each `while` of the quicksort is an action
(`SeekDown`, `SeekUp`), the recursive calls still to make are a stack (`ranges`), and a
suppressed candidate has the order 0 where the code writes -1. `DetectionsAreGreedy` says
what all of it is for. Floats are exact rationals.

## Runs

| run | what it shows |
|---|---|
| `queue_safety` | 2 producers, 2 consumers, 1 closer, 2 slots, 3 frames, every fault: ring, ownership, no leak, no lost wakeup, refinement of `BoundedChannel` |
| `queue_liveness` | 2 producers, 1 consumer, 1 closer, 2 slots, 4 frames, no fault and no spurious wakeup: close releases everybody, accepted frames are popped |
| `pipeline_shutdown` | 4 command lines, 3 frames, a signal at any moment or none, and the failures the other runs do not have (plug-in answers, warmup, flush, processor): unless something failed, every frame the encode queue accepted is in every output, in order |
| `pipeline_faults` | each fallible operation fails, once per execution: types, finished outputs, teardown, exit status, queues used as channels |
| `pipeline_liveness` | one failure of each worker, full queues, a camera that stalls: a signal ends the process, and an ended capture thread or a stop ends the other workers |
| `recording_all` | 3 pairs of outputs, 5 frames, codecs that keep back nothing, as much as fits and one more, a stop at any moment, one failure in each thread: packets in order and all of them, overflow only where it must be, whole files, segments that begin with a key frame and have their length, and a teardown that writes only a trailer that failed |
| `parts` | the parts beside the pipeline, one in each behaviour. Camera: 3 lists of device nodes, up to 3 buffers, 5 images, 4 frames, any failure; viewer: 4 frames, any failure of SDL, the user closing; snapshot: 6 frames, any failure, kills, restarts and a reader: buffer ownership, release of everything, whole frames and snapshots, and that stop, viewer start and viewer end return. 22 command lines with a failure at every step of Init; pictures of 6 sizes, given as asked or in another of 15 sizes, with and without padding and overlay; the detector with 3 calls in any order on 6 pictures and all lists of up to 4 of 4 cells; a table of 2 places for 3 names |
| `osd_exit_status` | violation, see below |
| `warmup_exit_status` | violation, see below |
| `deinit_writes` | violation, see below |
| `empty_recording` | violation, see below |
| `segment_wrap` | violation, see below |

**Bounds.** Queues hold one or two items instead of 8: full and empty are then
reached at once, and the ring wraps after two frames. A pipeline with queues of one
and three frames has every thread blocked on a full queue at some moment: one
frame in the encode queue, one with the encode thread, one with the process
thread. One warmup frame instead of 10 has the same branches. `pipeline_faults` and
`pipeline_liveness` leave out the warmup and the delay of the encoder to stay
small; `pipeline_shutdown` has them.
`recording_all` has two places in `pending_packets` instead of 16 and codecs on
both sides of that limit; five frames with a key frame at least every second one
fill two segments of two frames and begin a third, at every position of the key
frames. In `parts` the camera grants two or three buffers, so that the queue of the driver runs
empty while the thread holds one; four frames let a frame be accepted while an
earlier one is drawn; six frames at an interval of two are three snapshots, so one
is replaced, killed over and replaced again. Each of the seven parts runs in behaviours
of its own: they share no variable, and no property would tell their interleavings apart.
An int has 14 bits, so that 100 * 100 wraps to a negative number and 200 * 100
to a positive one; pictures have two to six columns and two to four rows, with and without
padding, where each offset formula already differs from its neighbours, and the driver
gives any size in that range for any that is asked for; a list of
four cells over two classes (`CellLimit`) has chains of overlap, ties and more boxes than the
limit of two results, and sends the quicksort into both halves; three calls are an init,
a detection and a release, or a detection that fails between two others; a table of two places is full after two of three names.
`MaxFrames`, `CameraFrames`, `MaxFaults`, `ImageLimit`, `ShownFrames`, `FrameLimit`, `CellLimit`
and `CallLimit` are the bounds that make the instances finite, and they are guards of the actions
that would pass them.

**Deadlock** is checked in `queue_safety`, `queue_liveness`, `pipeline_faults`,
`pipeline_liveness` and `recording_all`; `Terminated` is the step of a finished system. It is
not checked in `pipeline_shutdown`, where the answers only a plug-in would give do
leave threads blocked (see the limits below), nor in `parts`, where every part
ends; there `StopEndsCapture` and `ViewerReturns` say what may not get stuck.

**Fairness.** Weak fairness of each thread: the operating system schedules what
can run, and calls into FFmpeg, SDL and the driver return. None for the camera:
`CameraStep` holds the results of a `GetFrame` that delivers, so a stalled camera is an
allowed execution. None for the signal, for spurious wakeups or for faults. In `parts`
main, the capture thread, the process thread in Display and the viewer's thread
have it; the camera and the user have not. A
muxer that blocks for ever on the network is outside this assumption; the code
has no timeout for it, and `AppPipeline_Wait` would then not return.

**Mutants.** Next to the definitions stand mutants: bugs the code does not have,
for example a close that wakes only one of the wait sets or a stop that closes all
queues. Each property fails when one of them takes the place of its definition.

### Where code and documents disagree

- `osd_exit_status`: a failing frame processor stores the positive `error = 1`
  (`app_pipeline.c:190`). `AppPipeline_Wait` returns negative errors only, so the
  process exits 0. `docs/project/interview_overview.md:297` promises 1.
- `warmup_exit_status`: the warmup loop does not look at the stop flag when
  `GetFrame` fails (`app_pipeline.c:76`), so a signal in the first frames makes the
  process exit 1. `docs/changes/2026-07-14_engineering_refactor.md:269` says such
  a failure is a normal exit.
- `deinit_writes`: when the trailer of the stream fails, `rtsp_muxer_deinit` writes it
  again (`rtsp_muxer.c:147`), from the main thread.
  `docs/architecture/app_pipeline.md:227` says the design keeps `AppPipeline_Deinit`
  from writing to an `AVFormatContext`. `DeinitOnlyRetries` shows that this is the only
  case.
- `empty_recording`: the mp4 file is created at once, its header and trailer wait for
  the first packet (`mp4_muxer.c:306`). A Ctrl+C before that leaves a file that
  cannot be played; `docs/architecture/pipeline_overview.md:200` promises the trailer.
  A recording in segments leaves no file then.
- `segment_wrap`: `segment_muxer.c:199` counts the frames of a segment in an int and refuses
  a product that wraps to a negative number or 0, but not one that wraps to a positive one:
  `--segment-time 143165577` at 30 frames a second means 14 frames.
  `docs/changes/2026-07-14_engineering_refactor.md:421` says a file is changed after
  `segment_time * fps` frames.

### Known limits

What the properties leave out, in their premise or in the set of faults, because the
code does not provide for it:

- `IPC_EOF` from an encoder in the middle of a recording (`app_pipeline.c:290`; 173 and
  402 are alike) ends one thread and leaves those before it blocked on full
  queues that `AppPipeline_Stop` does not close. No plug-in here answers that.
- A `STREAMOFF` that fails (`v4l2_capture.c:322`) leaves the thread in `DQBUF` and main in the join.
- A driver that pads its rows (`v4l2_capture.c:370`): `get_frame` does not look at
  `bytesperline`. A short frame (`bytesused`) is copied whole. A driver that changes the
  size is no limit: `Frames` has it, and the converter refuses the picture.
- `width * height * 3 / 2` of a very large size (`yuyv_to_yuv420_converter.c:41`); the other
  product, `segment_time * fps`, is the finding `segment_wrap`.
- Scaling NV12 on the CPU (`image_utils.c:385`) halves the sizes and the crop for the chroma pass,
  but not the destination box: it walks the whole box over the half-size plane, so the colour
  is twice as large as the brightness, and a box that goes below the middle is written behind the
  plane (`ChromaWritesInside`). The programs here never come there: their target is RGB, and
  the CPU does not change formats.
- Six failures of the detector forget what they hold (`Forgotten` in `Detector`), a
  model that cannot be read leaves a pointer uninitialised (`yolov5.cc:42`), and a
  JPEG that cannot be opened is read all the same; both are the step to
  `"crashed"`, from which `Detector` goes nowhere.
- A detector picture in NV12 or RGBA whose width is no multiple of 16 can never be
  converted (`image_utils.c:686`): RGA does not take it and the CPU does not change
  formats.
- Boxes are clamped to the network's square and not to the picture in it
  (`postprocess.cc:545`): of a padded picture a box may reach over the edge.
- The float outputs compare class and confidence with the threshold one by one, the
  quantised ones their product (`postprocess.cc:431`); `IsCandidate` has both.
- Scaling a source of one row or column reads outside it (`image_utils.c:335`);
  `ScalingReadsInside` needs two.

## Proofs

`ThreadQueueProofs` proves for any number of threads, any capacity, any number of
frames and any set of faults:

- `TypeCorrect`, `QueueCorrect`, `LeakFree`: the invariants of `queue_safety`. The
  inductive invariant is `IInv == TypeOK /\ QueueInv /\ NoLeak`. No part is inductive
  alone: that a take finds a frame (`HoldInv`) needs the slots between the indices to
  be exactly the occupied ones (`RingInv`), which needs one thread at a time in a
  critical section (`LockInv`); that `IPC_EOF` is final (`ShutInv`) needs the same;
  that nothing leaks needs one owner per buffer (`OwnedOnce`). The proof has one
  lemma per conjunct and in it one step per action. Modulo arithmetic is in
  `ModSmall` to `OffsetOfPlace`.
- `QueueImplementsChannel`: `Contents`, the slots from the read index round the
  ring, is the abstract queue. A store appends (`StoreAppends`), a take drops the head
  (`TakeDropsOldest`), every other step leaves it alone (`Quiet`).
- `NoWakeupIsLost`: a sleeper always has a thread awake on its behalf. It counts
  items plus pushers and poppers under way, with `IInv` as the other hypothesis.

The assumptions are those of `ThreadQueue`: disjoint sets of threads with at least
one producer, a capacity that is a positive natural, a natural bound on frames.

`PipelineProofs` proves for any set of configurations, any size of the queues, any number of
warmup frames, camera frames and frames kept back by the encoder, and any set of
faults, any number of which may happen:

- `PipelineTypes`, `ComponentsOutlive`, `OutputsAreFinished`: `TypeOK`, `NoUseAfterTeardown`
  and `OutputsFinished`. The inductive invariant `ControlInv` is the types with six
  more parts: which threads can exist where main is (`ThreadsInv`), what is made by then
  and that a queue somebody still has to close is there (`ComponentsInv`), that packets need
  the encoder they point into (`ExtradataInv`), that a worker has a frame in
  hand exactly where it works on one (`WorkersInv`), how far the outputs have got at each place of
  the mux thread (`OutputsInv`), and that trailers come at the finish only, to each output
  that needs one (`TrailersInv`). The teardown is the reason for most of it: that a
  component is not used when it is gone rests on the joins, and these on `started`.
- `TrailersAreLast`: `NothingAfterTrailer`, from the same invariant.
- `StatusIsTheError`: the exit status, in all executions in which no frame processor fails.
  That one failure stores a positive `error` and is the finding `osd_exit_status`, so without the
  premise the formula is false. `StatusInv` says what `error` and `code` owe to the
  failures so far; the store of a failed push comes after the release of the
  frame, which is the one moment when a failure has no `error` yet.
- `PipelineUsesChannels`: each queue goes from its empty state through steps of `BoundedChannel`. By
  `OperationIsChannelStep` a step of a thread is one operation of one queue or leaves the
  queues alone.

The steps are sorted first: `CaptureMoves`, `ProcessMoves`, `EncodeMoves`, `MuxMoves` and `MainMoves`
say which variables the steps of a thread can change, so a part of the invariant is
argued for only where it is disturbed. A worker's close of a queue (`CloseNext`)
and a stutter have lemmas of their own. `NextToClose` to `NextToTearDown` are facts about the
orders in which main and the workers go through their lists.

`PipelineOrderProofs` extends it, under the same assumptions:

- `OutputIsInOrder`: `OutputInOrder`. The frames in a queue, in the encoder and in an output
  have the numbers that follow on what is further down (`Numbered`): `WrittenInv` for the
  outputs, `PacketsInv` for the packet queue, `EncoderInv` for the encoder and the encode
  queue, `FedInv` for the raw queue and the camera. Each of them ends with the threads
  that read: a failure may drop a frame, and then the thread that dropped it takes no other,
  or the queue behind it closes. So the parts have conditions (`MuxGoesOn`, `EncodeGoesOn`,
  `TakenDown`), and what they say after the condition fails, the outputs do not get to
  see. A frame that meets a closed queue leaves no gap: the queue takes no
  later one either.
- `NoFrameIsLost`: `NothingLost`. Without a failure only the writer of a queue closes it, and only when it
  has nothing more to write (`ClosedByWriter`); a reader leaves only when its queue is closed and
  empty (`EndsEmpty`); so the counts along the pipeline stay equal to the number
  of frames accepted (`NothingMissing`). The invariant, `LosslessInv`, is about the
  executions without a failure and has the two others as hypotheses.

The assumptions are those of `Pipeline` (`ConfigAssumption`, `SizeAssumption`,
`FaultAssumption`): configurations are records of the type of `AppPipelineConfig`, sizes are naturals and
queues have a place, faults are among those named.

`EncoderProofs` proves for any number of places in `pending_packets`, any set of
delays, any number of frames and any set of faults:

- `EncoderTypeCorrect`: types, with `Len(pending) <= PendingCount`.
- `PendingNeverOverflows`: a packet is refused only with `delay >= PendingCount`. The
  argument is `Bound`: between two frames codec and `pending_packets` together hold at
  most `delay` packets, after a failure one more; so a receive meets at most `delay + 1`
  of them, one of which it returns.
- `EncoderKeepsOrder`: the invariant of the run, `PacketsInOrder`. It follows from
  `Order`, which says that emitted, in hand and waiting packets ascend group after
  group up to the last frame taken, and `Count`, which says that without a failure
  they are all there. Both rest on `ReceiveMoves` and `ReceiveFailsMoves`: whatever a
  receive does, what is left in `pending` and `codec` are two parts, one after the
  other, of what was there (`Part`, `Parts`).
- `EmittedIsStreamed`: what reaches the packet queue are the frames 1, 2, 3 and so on, whatever
  fails, with a key frame among any `Gop` of them. While the queue is open the row of
  all packets from the first emitted to the last in the codec (`Packed`) has no gap, and
  `since` counts back to its last key frame; every failure closes the queue, so what is
  lost comes after all that was emitted. This is what the muxers rely on.

`RecordingRunsEncoder` shows that every execution of `Recording` is one of
`EncoderSpec`: a step of the mux thread takes a packet, closes the queue or leaves it
alone. `RecordingKeepsOrder` and `RecordingPendingFits` are the invariants of
`recording_all` for every value of the constants.

The other theorems of `RecordingProofs` are about the outputs, for any pairs of muxers, any
length of the segments and any distance of key frames, any number of frames and any
faults, with a stop at any moment. Their inductive invariant is `OutputsInv`:

- `MuxInv`, the types with `ControlInv` and `MuxerInv`: which muxers are opened, announced and
  inited at each place of the mux thread, and how the flags of a context and the state
  of its files go together (`SegmentInv` for the segment muxer, `WholeInv` for the mp4 file
  and the stream). A file has its trailer and its close by different calls, made
  because of different flags, `..._header_written`, `..._opened` and `..._inited`; so what
  a file owes can be said only by the flags that are still set, also where the thread
  stopped in the middle of opening its muxers. It gives `RecordingTypes`, `RecordingFinishesFiles`,
  `RecordingClosedIsFinal` and `RecordingDeinitOnlyRetries`.
- `ContentInv`: the files of a muxer hold the frames 1 to n one after the other (`Holds`),
  where n is `Due`: all that was taken, without the packet that the muxer has not
  come to yet. After a failed write it stays one behind. Across a rotation the order needs that the
  last file, unless it is empty, ends with frame n (`EndsWith`). It gives `RecordingKeepsStream` and,
  as the thread finishes by itself only at the end of the queue, `RecordingReachesOutputs`.
- `FitsInv`: after `SegmentFrames` packets a segment has no key frame any more, since the next one
  would have ended it. As a file holds consecutive frames (`Placed`) and the encoder puts a key
  frame among any `Gop` of them (`EmittedIsStreamed`), it cannot reach
  `SegmentFrames + Gop`: `RecordingSegmentsFit`.

Each call has a lemma about what it makes of the files of one muxer (`PacketFile` to
`DeinitKeeps`), in terms of three relations between the files before and after:
`Same` (no sample comes or goes), `Grown` (one comes at the end) and `Frozen` (what is closed stays).
The lemmas about contents and lengths use these relations only. The assumptions are
`StreamAssumption`, `EncoderAssumption` and `MuxersAssumption`: sizes are positive naturals, delays naturals,
and the muxers are ones that the options can choose.

`EdgeProofs`. The camera, for any number of buffers, frames, images and nodes and every
failure: `CaptureInv` adds to the types where main and the thread can be together
(`ThreadInv`), that a buffer which is not the program's is mapped and below
`buffer_count` (`BufferInv`), and what the scan has passed over (`ScanInv`). None of it is
inductive alone: that `munmap` meets no held buffer needs the join, and that a
release finds its buffer needs the mapping. From it follow `BuffersAlwaysAccountedFor`,
`NothingEverLeftBehind` and, about a property no run needs, `ScanFindsFirst`.

The viewer, for any number of frames: `ViewerInv` is `LifeInv` (who is where while main
is where it is), `ReasonInv` (running is only cleared by the user, by main, or after
`error_result` is set), `MutexInv` (in which places the mutex is held) and `PictureInv` (what
buffer, texture and window have between two pictures). From it `ContextOutlivesThreads`, `EofMeansClosed` and `WindowShowsFrames`.

The snapshot, for any interval, any number of frames, failures and kills: the sink
writes only to the file that the temporary name leads to (`WriterInv`), and that file
is neither the snapshot (`OutputInv`) nor what the reader has open (`ReaderInv`), both of
which are whole. From it `ReaderAlwaysGetsWhole`, `SnapshotAlwaysStays` and
`TmpIsAlwaysRemoved`.

`DetectorProofs`, for any set of cells, pictures and sizes, any limit of results and any number of
candidates and calls:

- `DetectionsStayGreedy`: `DetectionsAreGreedy`, what sort, suppression and the result loop are for.
  The inductive invariant `PostInv` (theorem `PostProcessing`) has one part for each loop. In the
  sort (`SortInv`): what lies outside the ranges still to sort is in its place (`SortedSoFar`), and
  the call in hand has passed only what belongs to its side of the key (`Split`); while the
  key is out of the array both are about the array with the key put back (`Filled`), as
  the place it came from holds a copy. In `nms` (`Thinned`): a candidate that has lost its place
  was close to a better one that still has its own, and no two that stand are close as far as the loop
  has come. In the result loop (`Reported`): what is passed over finds the list full of better ones.
  Overlap must be mutual, which is `OverlapIsMutual`. The lemmas about the steps are
  about the values of the arrays, so that they name no variable.
- `DetectorStaysBalanced`: `DetectorBalances`, from `HeldInv`: what may be held at each place of the call.

`ProgramProofs`. The registry, for any size of table and all names: `RegistryIsTable` is the refinement
of `PluginTable` with the entries below the counter as the set. It needs that names
are unique and that the counter is the size of the set, so that the full array is
the full set.

The arithmetic of `Vision`, for all sizes, scales and zero points: the quantised shortcut leaves out
no candidate (`FastTestIsSound`), overlap is symmetric (`OverlapIsMutual`), the letterboxed picture
fits (`LetterboxFits`), scaling reads inside (`ScalingReadsInside`). The chroma pass of NV12, with
the destination box as it is and the halves of the rest, reads inside too (`ChromaReadsInside`);
where it writes inside its plane is `ChromaWritesInside`, by the length of the rows (`RowsInside`).

Start and end of the program, for any command lines, any reading of numbers, any width of int and
every failure: `StartupStaysConsistent`. The invariant `StartupInv` has four parts.

- `LineInv`: the argument at hand is an option, and the configuration is what the arguments before
  it mean. That the parser and `IsOption` agree is `OptionAfterFlag`, `ValueIsNoOption` and
  `OptionAfterValue`, by the run of words that take a value before an argument, so no
  induction over the line is needed; `ValuesFollow` carries each field over an option.
- `PartsInv`: initialised is what is passed and needed, but for the snapshot sink; what
  `ConverterInit` and `SegmentInit` refuse does not hold of what is initialised.
- `OwnedInv`: what is held belongs to an initialised part or to the one in hand, and its deinit
  frees it (`MadeIsFreed`).
- `StatusInv`: where a 0 can come from.

The bytes of a picture, for every even size asked for, every size given instead, every overlay and
every way through the pipeline: `PicturesSurvive`. `FramesInv` says for each stage what every byte
is: of the camera's size until it is converted (`PackedIs`), and of the size asked for after that
(`PlanarIs`, `Nv12Is`), which the converter's test of the size is needed for. The lemmas are about
offsets: a place in a plane has one offset (`GridUnique`, `GridInside`), the planes of a buffer do not
meet (`PlanesInside`), so a set of writes that has each place once (`WritesAre`) gives the picture
(`PlanesHold`). As in the run, the driver's rows have no padding.

Every safety and action property of the passing runs is thus a theorem about all values of the
constants. Only model-checked are the liveness properties (`StopTerminates`, `EndPropagates`,
`StopPropagates`, `CloseReleasesAll`, `AcceptedIsPopped`, `StopEndsCapture`, `ViewerReturns`): they
need fairness, and with it ENABLED, which the prover cannot treat.

## Not modelled, and what could come next

- FFmpeg, SDL, V4L2, RKNN, RGA, libjpeg and stb themselves: external, a call works or
  fails.
- `image_drawing.c` and `font.h` (boxes and letters for the test programs), `write_image`
  and the label texts: pixels and strings without control.
- The fake plug-ins: registered, and chosen by no configuration.
- `media_packet.c`'s byte copies, `ipc_error.c`, `ipc_log.h`, usage and log texts.
- A converter that answers `IPC_EAGAIN`.
- `build_ipc/`, CMake, documents: nothing that runs.

Next: that `Pipeline` takes from encoder and muxers what `Recording` shows they give, as a
refinement between the two; and ranking functions for the loops of the sort and of main, the part of
their termination that needs no fairness.
