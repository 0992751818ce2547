------------------------------- MODULE Startup -------------------------------
(***************************************************************************)
(* main up to the threads, and back: AppConfig_ParseArgs (app_config.c),   *)
(* main.c, Signal_Init, RegisterAllModules, AppPipeline_Init with the Init *)
(* of every manager and plug-in it calls, and AppPipeline_Deinit.  One     *)
(* thread runs; what is hard is that every step may fail and that a        *)
(* plug-in whose init fails is never deinitialised.  The threads and their *)
(* end are Pipeline's, the tables Registry's.                              *)
(*                                                                         *)
(* A string is a value, cut to its field only where it is longer, which    *)
(* none here is; a number is a value that Numeral reads.  int has IntSpan  *)
(* values, -IntSpan/2 .. IntSpan/2-1.                                      *)
(***************************************************************************)
EXTENDS Integers, Sequences, FiniteSets

CONSTANTS ArgLists,         \* the command lines, without the program's name
          Numeral,          \* the texts that are numbers, and the numbers
          IntSpan,          \* 2^32
          ViewerBuilt       \* ENABLE_VIEWER

ASSUME StartupAssumption ==
    /\ \A args \in ArgLists : Len(args) \in Nat
    /\ IntSpan \in Nat \ {0} /\ IntSpan % 2 = 0
    /\ ViewerBuilt \in BOOLEAN

VARIABLES
    args, next,         \* argv and i
    config,             \* AppConfig
    smain,              \* where main is
    registered,         \* how many of Modules are registered
    step,               \* how many of Parts are passed
    made,               \* what the part in hand has allocated
    inited,             \* the *_inited flags of the pipeline
    owned,              \* history: what each part has made and not freed
    segmentFrames,      \* the segment muxer's max_frames_per_segment
    status              \* exit status, or -1

startupVars == <<args, next, config, smain, registered, step, made, inited, owned,
                 segmentFrames, status>>

IntMax == IntSpan \div 2 - 1

\* Where an int ends up that does not fit (signed overflow; gcc wraps it).
Wrapped(n) == ((n + IntSpan \div 2) % IntSpan) - IntSpan \div 2

-----------------------------------------------------------------------------
(* AppConfig_SetDefault and AppConfig_ParseArgs.                           *)

Defaults ==
    [device |-> "", width |-> 640, height |-> 480, fps |-> 30,
     preview |-> FALSE, record |-> FALSE, rtsp |-> FALSE, processor |-> FALSE,
     segment |-> FALSE,
     output_path |-> "output/record.mp4", rtsp_url |-> "rtsp://127.0.0.1:8554/live",
     processor_name |-> "osd", max_frames |-> 0, segment_time |-> 60]

WithText == {"--device", "--record", "--rtsp", "--processor"}
WithNumber == {"--width", "--height", "--fps", "--segment-time", "--frames"}
Alone == {"--preview", "--no-processor"}
TakesValue == WithText \cup WithNumber

\* app_config_parse_int and the test after it: only --frames may be 0.
IsValid(option, value) ==
    option \in WithNumber =>
        /\ value \in DOMAIN Numeral
        /\ Numeral[value] \in 0..IntMax
        /\ option # "--frames" => Numeral[value] > 0

HasGoodValue == next < Len(args) /\ IsValid(args[next], args[next + 1])

\* The configuration after an option.
After(option, value) ==
    CASE option = "--device" -> [config EXCEPT !.device = value]
      [] option = "--width" -> [config EXCEPT !.width = Numeral[value]]
      [] option = "--height" -> [config EXCEPT !.height = Numeral[value]]
      [] option = "--fps" -> [config EXCEPT !.fps = Numeral[value]]
      [] option = "--preview" -> [config EXCEPT !.preview = TRUE]
      [] option = "--record" -> [config EXCEPT !.record = TRUE, !.output_path = value]
      [] option = "--segment-time" ->
            [config EXCEPT !.record = TRUE, !.segment = TRUE, !.segment_time = Numeral[value]]
      [] option = "--rtsp" -> [config EXCEPT !.rtsp = TRUE, !.rtsp_url = value]
      [] option = "--processor" ->
            [config EXCEPT !.processor = TRUE, !.processor_name = value]
      [] option = "--no-processor" -> [config EXCEPT !.processor = FALSE]
      [] option = "--frames" -> [config EXCEPT !.max_frames = Numeral[value]]

StartupInit ==
    /\ args \in ArgLists
    /\ next = 1
    /\ config = Defaults
    /\ smain = "parse"
    /\ registered = 0
    /\ step = 0
    /\ made = 0
    /\ inited = {}
    /\ owned = {}
    /\ segmentFrames = 0
    /\ status = -1

SMainGoes(from, to) == smain = from /\ smain' = to
Exits(code) == status' = code

parseRest == <<args, registered, step, made, inited, owned, segmentFrames>>

\* Mutant of Consumed: the value is looked at as an option as well.
ConsumedAlone(option) == 1

\* How many arguments an option takes up.
Consumed(option) == IF option \in TakesValue THEN 2 ELSE 1

ParseOption ==
    /\ smain = "parse"
    /\ next <= Len(args)
    /\ args[next] \in TakesValue \cup Alone
    /\ args[next] \in TakesValue => HasGoodValue
    /\ config' = After(args[next], IF args[next] \in TakesValue THEN args[next + 1] ELSE "")
    /\ next' = next + Consumed(args[next])
    /\ UNCHANGED <<parseRest, smain, status>>

\* IPC_EOF, and main returns 0.
ParseHelp ==
    /\ next <= Len(args)
    /\ args[next] = "--help"
    /\ SMainGoes("parse", "exit")
    /\ Exits(0)
    /\ UNCHANGED <<parseRest, next, config>>

\* An unknown option, no value or a bad one: IPC_EINVAL.
ParseFails ==
    /\ next <= Len(args)
    /\ args[next] \notin Alone \cup {"--help"}
    /\ args[next] \in TakesValue => ~HasGoodValue
    /\ SMainGoes("parse", "exit")
    /\ Exits(1)
    /\ UNCHANGED <<parseRest, next, config>>

-----------------------------------------------------------------------------
(* main: outputs, signals, the tables.                                     *)

NeedOutput == config.preview \/ config.record \/ config.rtsp

ParseEnds ==
    /\ next > Len(args)
    /\ \/ SMainGoes("parse", "register") /\ NeedOutput /\ UNCHANGED status
       \/ SMainGoes("parse", "exit") /\ Exits(1)     \* no output, or Signal_Init fails
    /\ UNCHANGED <<parseRest, next, config>>

\* RegisterAllModules, in its order; no table is ever full here.
Modules ==
    <<<<"capture", "fake_capture">>, <<"capture", "v4l2">>,
      <<"converter", "fake_converter">>, <<"converter", "yuyv_to_yuv420">>,
      <<"encoder", "fake_encoder">>, <<"encoder", "h264_ffmpeg">>,
      <<"processor", "osd">>,
      <<"muxer", "fake_muxer">>, <<"muxer", "mp4">>, <<"muxer", "rtsp">>,
      <<"muxer", "segment">>>>
    \o (IF ViewerBuilt THEN <<<<"viewer", "sdl">>>> ELSE <<>>)
    \o <<<<"sink", "snapshot_jpeg">>>>

RegisterModule ==
    /\ smain = "register"
    /\ registered < Len(Modules)
    /\ registered' = registered + 1
    /\ UNCHANGED <<args, next, config, smain, step, made, inited, owned, segmentFrames,
                   status>>

RegisterEnds ==
    /\ registered = Len(Modules)
    /\ SMainGoes("register", "init")
    /\ UNCHANGED <<args, next, config, registered, step, made, inited, owned, segmentFrames,
                   status>>

Found(kind, name) == \E i \in 1..registered : Modules[i] = <<kind, name>>

-----------------------------------------------------------------------------
(* AppPipeline_Init.  Parts in the order they are initialised.             *)

Parts == <<"scan", "capture", "converter", "snapshot", "processor", "viewer", "encoder",
           "muxer", "rtsp", "raw_queue", "encode_queue", "packet_queue">>

NeedEncode == config.record \/ config.rtsp

Needed(part) ==
    /\ part = "scan" => config.device = ""
    /\ part = "processor" => config.processor
    /\ part = "viewer" => config.preview
    /\ part \in {"encoder", "encode_queue", "packet_queue"} => NeedEncode
    /\ part = "muxer" => config.record
    /\ part = "rtsp" => config.rtsp

\* The plug-in that its manager is asked for.
PluginOf(part) ==
    CASE part = "capture" -> <<"capture", "v4l2">>
      [] part = "converter" -> <<"converter", "yuyv_to_yuv420">>
      [] part = "processor" -> <<"processor", config.processor_name>>
      [] part = "viewer" -> <<"viewer", "sdl">>
      [] part = "encoder" -> <<"encoder", "h264_ffmpeg">>
      [] part = "muxer" -> <<"muxer", IF config.segment THEN "segment" ELSE "mp4">>
      [] part = "rtsp" -> <<"muxer", "rtsp">>

HasPlugin == {"capture", "converter", "processor", "viewer", "encoder", "muxer", "rtsp"}

-----------------------------------------------------------------------------
(* The plug-ins of these parts: what an init refuses whatever the system   *)
(* does, what it makes, one after the other, and what a deinit frees.      *)

PluginInit(refuses, makes) == [refuses |-> refuses, makes |-> makes]

V4l2Init == PluginInit(FALSE, <<"context">>)

V4l2Deinit == {"context"}

\* What has no half has no chroma of its own.
ConverterInit ==
    PluginInit(config.width % 2 # 0 \/ config.height % 2 # 0, <<"context", "buffer">>)

ConverterDeinit == {"buffer", "context"}

SnapshotSinkInit == PluginInit(FALSE, <<"context">>)

SnapshotSinkDeinit == {"context"}

\* Its buffer is made with the first frame.
OsdInit == PluginInit(FALSE, <<"context">>)

OsdDeinit == {"buffer", "context"}

SdlInit == PluginInit(FALSE, <<"context", "mutex", "thread">>)

SdlDeinit == {"thread", "mutex", "frame", "context"}

H264Init == PluginInit(FALSE, <<"context", "codec", "packet", "extradata">>)

H264Deinit == {"pending", "extradata", "packet", "codec", "context"}

Mp4Init == PluginInit(config.output_path = "", <<"context">>)

Mp4Deinit == {"format", "context"}

FramesPerSegment == Wrapped(config.segment_time * config.fps)

\* Mutant of SegmentInit: the product is not looked at.
SegmentInitUnchecked == PluginInit(config.output_path = "", <<"context">>)

\* max_frames_per_segment may not fit into an int.
SegmentInit == PluginInit(config.output_path = "" \/ FramesPerSegment <= 0, <<"context">>)

SegmentDeinit == {"format", "context"}

RtspInit == PluginInit(config.rtsp_url = "", <<"context">>)

RtspDeinit == {"format", "context"}

QueueInit == PluginInit(FALSE, <<"items", "sync">>)

QueueDeinit == {"items", "sync"}

\* Device nodes are only looked at.
ScanInit == PluginInit(FALSE, <<>>)

InitOf(part) ==
    CASE part = "scan" -> ScanInit
      [] part = "capture" -> V4l2Init
      [] part = "converter" -> ConverterInit
      [] part = "snapshot" -> SnapshotSinkInit
      [] part = "processor" -> OsdInit
      [] part = "viewer" -> SdlInit
      [] part = "encoder" -> H264Init
      [] part = "muxer" -> IF config.segment THEN SegmentInit ELSE Mp4Init
      [] part = "rtsp" -> RtspInit
      [] OTHER -> QueueInit

FreedBy(part) ==
    CASE part = "capture" -> V4l2Deinit
      [] part = "converter" -> ConverterDeinit
      [] part = "snapshot" -> SnapshotSinkDeinit
      [] part = "processor" -> OsdDeinit
      [] part = "viewer" -> SdlDeinit
      [] part = "encoder" -> H264Deinit
      [] part = "muxer" -> IF config.segment THEN SegmentDeinit ELSE Mp4Deinit
      [] part = "rtsp" -> RtspDeinit
      [] OTHER -> QueueDeinit

\* What the threads may leave to Deinit.
LeftByRun ==
    {<<"processor", "buffer">>, <<"viewer", "frame">>, <<"encoder", "pending">>,
     <<"muxer", "format">>, <<"rtsp", "format">>}

\* A manager that does not know the name returns IPC_ESTATE.
Rejects(part) ==
    \/ part \in HasPlugin /\ ~Found(PluginOf(part)[1], PluginOf(part)[2])
    \/ InitOf(part).refuses

Allocations(part) == Len(InitOf(part).makes)

initRest == <<args, next, config, registered>>

Part == Parts[step + 1]

SkipPart ==
    /\ smain = "init"
    /\ step < Len(Parts)
    /\ ~Needed(Part)
    /\ step' = step + 1
    /\ UNCHANGED <<initRest, smain, made, inited, owned, segmentFrames, status>>

Allocate ==
    /\ smain = "init"
    /\ step < Len(Parts)
    /\ Needed(Part) /\ ~Rejects(Part)
    /\ made < Allocations(Part)
    /\ made' = made + 1
    /\ owned' = owned \cup {<<Part, InitOf(Part).makes[made + 1]>>}
    /\ UNCHANGED <<initRest, smain, step, inited, segmentFrames, status>>

InitPart ==
    /\ smain = "init"
    /\ step < Len(Parts)
    /\ Needed(Part) /\ ~Rejects(Part)
    /\ made = Allocations(Part)
    /\ made' = 0
    /\ step' = step + 1
    /\ inited' = (inited \cup {Part}) \ {"scan"}
    /\ segmentFrames' =
          IF Part = "muxer" /\ config.segment THEN FramesPerSegment ELSE segmentFrames
    /\ UNCHANGED <<initRest, smain, owned, status>>

\* Mutant of Undone: the context stays.
UndoneButContext == {o \in owned : o[1] # Part \/ (o[2] = "context" /\ made > 1)}

\* A failing init frees what it has, as nobody calls its deinit.
Undone == {o \in owned : o[1] # Part}

\* It is refused, or its next allocation fails.  A snapshot sink that fails is
\* only a warning; after any other part main calls Deinit and returns 1.
InitPartFails ==
    /\ smain = "init"
    /\ step < Len(Parts)
    /\ Needed(Part)
    /\ Rejects(Part) \/ made < Allocations(Part) \/ Part = "scan"
    /\ owned' = Undone
    /\ made' = 0
    /\ IF Part = "snapshot"
       THEN step' = step + 1 /\ UNCHANGED <<smain, status>>
       ELSE smain' = "deinit" /\ Exits(1) /\ UNCHANGED step
    /\ UNCHANGED <<initRest, inited, segmentFrames>>

InitEnds ==
    /\ step = Len(Parts)
    /\ SMainGoes("init", "run")
    /\ UNCHANGED <<initRest, step, made, inited, owned, segmentFrames, status>>

\* AppPipeline_Start to AppPipeline_Wait, with any result.
RunPipeline ==
    /\ SMainGoes("run", "deinit")
    /\ \E code \in {0, 1} : Exits(code)
    /\ \/ owned' = owned \cup {o \in LeftByRun : o[1] \in inited}
       \/ UNCHANGED owned
    /\ UNCHANGED <<initRest, step, made, inited, segmentFrames>>

DeinitOrder == <<"packet_queue", "encode_queue", "raw_queue", "muxer", "rtsp", "encoder",
                 "viewer", "snapshot", "processor", "converter", "capture">>

\* AppPipeline_Deinit: the next part in its order that is initialised.
DeinitPart ==
    /\ smain = "deinit"
    /\ \E i \in 1..Len(DeinitOrder) :
          /\ DeinitOrder[i] \in inited
          /\ \A j \in 1..(i - 1) : DeinitOrder[j] \notin inited
          /\ inited' = inited \ {DeinitOrder[i]}
          /\ owned' = owned \ {<<DeinitOrder[i], t>> : t \in FreedBy(DeinitOrder[i])}
    /\ UNCHANGED <<initRest, smain, step, made, segmentFrames, status>>

DeinitEnds ==
    /\ inited = {}
    /\ SMainGoes("deinit", "exit")
    /\ UNCHANGED <<initRest, step, made, inited, owned, segmentFrames, status>>

StartupNext ==
    \/ ParseOption \/ ParseHelp \/ ParseFails \/ ParseEnds
    \/ RegisterModule \/ RegisterEnds
    \/ SkipPart \/ Allocate \/ InitPart \/ InitPartFails \/ InitEnds
    \/ RunPipeline \/ DeinitPart \/ DeinitEnds

StartupSpec == StartupInit /\ [][StartupNext]_startupVars

-----------------------------------------------------------------------------
(* Properties.                                                             *)

\* An argument is an option unless the option before it takes it as its value:
\* of the words right before it that take a value, every second one is a value
\* itself, so that it is an option if there is an even number of them.
IsOption(i) ==
    \E j \in 0..(i - 1) :
        /\ (i - 1 - j) % 2 = 0
        /\ j = 0 \/ args[j] \notin TakesValue
        /\ \A k \in (j + 1)..(i - 1) : args[k] \in TakesValue

\* What a command line means, read as a whole: of each option the last counts.
Meaning ==
    LET Given(o) == {i \in 1..Len(args) : IsOption(i) /\ args[i] = o}
        Last(o) == CHOOSE i \in Given(o) : \A j \in Given(o) : j <= i
        Text(o, default) == IF Given(o) = {} THEN default ELSE args[Last(o) + 1]
        Number(o, default) == IF Given(o) = {} THEN default ELSE Numeral[args[Last(o) + 1]]
    IN  [device |-> Text("--device", ""),
         width |-> Number("--width", 640),
         height |-> Number("--height", 480),
         fps |-> Number("--fps", 30),
         preview |-> Given("--preview") # {},
         record |-> Given("--record") \cup Given("--segment-time") # {},
         rtsp |-> Given("--rtsp") # {},
         processor |-> \E i \in Given("--processor") :
                          \A j \in Given("--no-processor") : j < i,
         segment |-> Given("--segment-time") # {},
         output_path |-> Text("--record", "output/record.mp4"),
         rtsp_url |-> Text("--rtsp", "rtsp://127.0.0.1:8554/live"),
         processor_name |-> Text("--processor", "osd"),
         max_frames |-> Number("--frames", 0),
         segment_time |-> Number("--segment-time", 60)]

\* A command line that is accepted gives the configuration it means.
ConfigIsMeant == smain \notin {"parse", "exit"} => config = Meaning

\* When the threads start, every part that the outputs ask for is there, with a
\* picture the converter can halve and segments of at least one frame, and no
\* other part is.
ReadyAsAsked ==
    smain = "run" =>
        /\ inited \cup {"snapshot"} =
              {"capture", "converter", "snapshot", "raw_queue"}
              \cup (IF config.processor THEN {"processor"} ELSE {})
              \cup (IF config.preview THEN {"viewer"} ELSE {})
              \cup (IF config.record \/ config.rtsp
                    THEN {"encoder", "encode_queue", "packet_queue"} ELSE {})
              \cup (IF config.record THEN {"muxer"} ELSE {})
              \cup (IF config.rtsp THEN {"rtsp"} ELSE {})
        /\ config.width % 2 = 0 /\ config.height % 2 = 0
        /\ config.segment => segmentFrames > 0

\* A segment has as many frames as its time takes, and at a key frame soon after
\* them comes the next.  This is what the project's notes on segments say; the
\* int in which segment_muxer_init counts them may wrap.
SegmentsAsLongAsAsked ==
    smain = "run" /\ config.segment => segmentFrames = config.segment_time * config.fps

\* However far Init came, at the end nothing is held, and main has returned 1
\* if it did not come to the end of Init.
CleanExit ==
    smain = "exit" =>
        /\ owned = {}
        /\ status \in {0, 1}
        /\ step < Len(Parts) /\ status = 0 => \E i \in 1..Len(args) : args[i] = "--help"

\* Options, parts and resources agree, on every command line and with every
\* failure of the system.
StartupConsistent == ConfigIsMeant /\ ReadyAsAsked /\ CleanExit

=============================================================================
