------------------------------ MODULE MCParts ------------------------------
(* The parts that stand beside the pipeline - camera, viewer, snapshot,    *)
(* plug-in table, the start of main, the bytes of a picture, the detector  *)
(* - for TLC.  They share no variable and meet only through the pipeline,  *)
(* so one of them runs in each behaviour and the others rest in one of     *)
(* their initial states: the product would add interleavings that none of  *)
(* the properties tells apart.                                             *)
EXTENDS V4l2Capture, Viewer, Snapshot, Registry, Startup, Frames, Detector, TLC

VARIABLE part    \* the part that runs

vars == <<part, captureVars, viewerVars, snapshotVars, registryVars, startupVars, framesVars,
          detectorVars>>

\* Device nodes: a camera and the metadata node that comes with it, one that
\* is not there, one that does not answer, and devices without capabilities of
\* their own, a camera and an output.
CameraNode == [opens |-> TRUE, answers |-> TRUE,
               all |-> {"capture", "streaming", "device_caps"},
               own |-> {"capture", "streaming"}]
MetadataNode == [CameraNode EXCEPT !.own = {"streaming"}]
AbsentNode == [CameraNode EXCEPT !.opens = FALSE]
MuteNode == [CameraNode EXCEPT !.answers = FALSE]
PlainCamera == [CameraNode EXCEPT !.all = {"capture", "streaming"}, !.own = {}]
OutputNode == [PlainCamera EXCEPT !.all = {"streaming"}]

SomeNodes == {<<AbsentNode, MuteNode, MetadataNode, CameraNode>>,
              <<OutputNode, PlainCamera, CameraNode>>,
              <<MetadataNode>>}

\* int as if it had 14 bits: 100 * 100 wraps to a negative number and
\* 200 * 100 to a positive one.
SmallInt == 16384

Numbers == ("0" :> 0) @@ ("1" :> 1) @@ ("30" :> 30) @@ ("100" :> 100) @@ ("200" :> 200)
           @@ ("320" :> 320) @@ ("641" :> 641) @@ ("9000" :> 9000)

\* Every option, alone and with others: twice, a switch and its contrary, a
\* value that is an option, no value, a bad one; no output; odd sizes; an
\* unknown processor; a product of segment time and rate at either overflow.
Lines ==
    {<<>>, <<"--help">>, <<"--verbose">>, <<"--preview">>, <<"--preview", "--fps">>,
     <<"--record">>, <<"--record", "--preview">>, <<"--record", "">>, <<"--rtsp", "">>,
     <<"--record", "--help", "--record", "f">>,
     <<"--rtsp", "u", "--width", "320", "--height", "320", "--width", "30">>,
     <<"--rtsp", "u", "--processor", "osd", "--no-processor">>,
     <<"--rtsp", "u", "--no-processor", "--processor", "osd", "--frames", "0">>,
     <<"--rtsp", "u", "--processor", "face">>,
     <<"--width", "641", "--preview">>, <<"--width", "0">>, <<"--fps", "x">>,
     <<"--height", "9000", "--preview">>,
     <<"--record", "f", "--segment-time", "30", "--fps", "30">>,
     <<"--segment-time", "100", "--fps", "30", "--fps", "100">>,
     <<"--segment-time", "200", "--fps", "100">>,
     <<"--preview", "--width", "320", "--device", "d", "--rtsp", "u", "--record", "f",
       "--processor", "osd">>}

\* Pictures of one square of pixels and more, as asked for or not, with and
\* without padded rows, and an overlay that reaches over the edges of the small
\* ones.
SomeShapes == {[asked |-> [width |-> a, height |-> b],
                width |-> w, height |-> h, pitch |-> 2 * w + p] :
                  a \in {2, 4, 6}, b \in {2, 4}, w \in 2..6, h \in 2..4, p \in {0, 2}}
OverlayBox == [x |-> 1, y |-> 1, width |-> 4, height |-> 2]
Ink == {<<0, 1>>, <<1, 2>>}

\* What libjpeg, stb and a raw file give, of widths that RGA takes and not.
Picture(w, h, f) == [width |-> w, height |-> h, format |-> f, there |-> TRUE]
SomePictures == {Picture(32, 24, "RGB888"), Picture(20, 36, "RGB888"),
                 Picture(32, 24, "NV12"), Picture(20, 24, "NV12"),
                 Picture(32, 24, "RGBA8888"), Picture(0, 0, "GRAY8")}

\* Boxes that overlap their neighbours only, of two classes, with a score that
\* is too low in one kind of output.
Cell(conf, one, two, left) ==
    [conf |-> conf, probs |-> <<one, two>>, box |-> [x |-> left, y |-> 4, w |-> 7, h |-> 7]]
SomeCells == {Cell(200, 200, 10, 0), Cell(210, 190, 10, 3), Cell(100, 100, 10, 6),
              Cell(200, 10, 200, 3)}

\* Part p makes a step.
Runs(p) ==
    /\ part = p /\ UNCHANGED part
    /\ p # "camera" => UNCHANGED captureVars
    /\ p # "viewer" => UNCHANGED viewerVars
    /\ p # "snapshot" => UNCHANGED snapshotVars
    /\ p # "registry" => UNCHANGED registryVars
    /\ p # "startup" => UNCHANGED startupVars
    /\ p # "frames" => UNCHANGED framesVars
    /\ p # "detector" => UNCHANGED detectorVars

Init ==
    /\ part \in {"camera", "viewer", "snapshot", "registry", "startup", "frames", "detector"}
    /\ CaptureInit
    /\ part # "camera" => nodes = <<MetadataNode>>
    /\ ViewerInit
    /\ SnapshotInit
    /\ RegistryInit
    /\ StartupInit
    /\ part # "startup" => args = <<>>
    /\ FramesInit
    /\ part # "frames" => /\ shape = [asked |-> [width |-> 2, height |-> 2],
                                       width |-> 2, height |-> 2, pitch |-> 4]
                           /\ ~osd
    /\ DetectorInit
    /\ part # "detector" => kind = "i8"

Next ==
    \/ Runs("camera") /\ CaptureNext
    \/ Runs("viewer") /\ ViewerNext
    \/ Runs("snapshot") /\ SnapshotNext
    \/ Runs("registry") /\ RegistryNext
    \/ Runs("startup") /\ StartupNext
    \/ Runs("frames") /\ FramesNext
    \/ Runs("detector") /\ DetectorNext

\* The fairness of the camera's and the viewer's threads.
Fairness ==
    /\ WF_captureVars(part = "camera" /\ CMainStep)
    /\ WF_captureVars(part = "camera" /\ CaptureThreadStep)
    /\ WF_viewerVars(part = "viewer" /\ ViewerMainStep)
    /\ WF_viewerVars(part = "viewer" /\ DisplayStep)
    /\ WF_viewerVars(part = "viewer" /\ ViewerThreadStep)

Spec == Init /\ [][Next]_vars /\ Fairness

=============================================================================
