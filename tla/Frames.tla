-------------------------------- MODULE Frames --------------------------------
(***************************************************************************)
(* The bytes of one picture from the camera to whoever sees it: the copy   *)
(* of the queues (frame_clone), yuyv_to_yuv420_convert, osd_processor, the *)
(* copy of the viewer and the NV12 picture that the detector is given.     *)
(* Each of them walks planes with offsets of its own.                      *)
(*                                                                         *)
(* A byte is a term that says which byte of the camera it comes from, so   *)
(* that a byte in a wrong place, mixed from wrong rows, or never written,  *)
(* differs from the right one.  A step writes pairs of an offset and a     *)
(* byte.  External: the driver, which may give another size than asked for *)
(* and lays a row out in pitch bytes.                                      *)
(***************************************************************************)
EXTENDS Naturals, FiniteSets

CONSTANTS Shapes,      \* the size asked for; width, height and pitch of what comes
          OsdArea,     \* the box of overlay_datetime: x, y, width, height
          OsdInk       \* the pixels of its text, of those relative to the box

ASSUME FramesAssumption ==
    /\ \A s \in Shapes : /\ s.asked.width \in Nat \ {0} /\ s.asked.height \in Nat \ {0}
                         /\ s.asked.width % 2 = 0 /\ s.asked.height % 2 = 0
                         /\ s.width \in Nat \ {0} /\ s.height \in Nat \ {0}
                         /\ s.pitch \in Nat /\ s.pitch >= 2 * s.width
    /\ OsdArea.x \in Nat /\ OsdArea.y \in Nat
    /\ OsdArea.width \in Nat \ {0} /\ OsdArea.height \in Nat \ {0}

VARIABLES
    shape,        \* the picture asked for, and the camera's
    osd,          \* config.enable_processor
    stage,        \* what was done last
    picture,      \* where the picture is: its bytes, their offset plane by plane
    outside       \* history: a step read or wrote outside its buffer

framesVars == <<shape, osd, stage, picture, outside>>

\* The size of the configuration, which the converter and the viewer keep.
W == shape.asked.width
H == shape.asked.height

Rows == 0..(H - 1)
Cols == 0..(W - 1)
HalfRows == 0..(H \div 2 - 1)
HalfCols == 0..(W \div 2 - 1)

\* The size of the capture context, which the driver decides.
GivenRows == 0..(shape.height - 1)
GivenBytes == 0..(2 * shape.width - 1)

\* Bytes: of the camera, the mean of two, of the overlay, and never written.
Camera(kind, row, col) == <<kind, row, col>>
Mean(a, b) == <<"mean", a, b>>
White == <<"white">>
Black == <<"black">>
Unwritten == <<"unwritten">>

\* YUYV: four bytes for two pixels.
Yuyv(row, byte) ==
    CASE byte % 4 \in {0, 2} -> Camera("Y", row, byte \div 2)
      [] byte % 4 = 1 -> Camera("U", row, byte \div 4)
      [] byte % 4 = 3 -> Camera("V", row, byte \div 4)

Padding == <<"padding">>

FramesInit ==
    /\ shape \in Shapes
    /\ osd \in BOOLEAN
    /\ stage = "captured"
    /\ picture = [at |-> <<0>>, linesize |-> <<2 * shape.width>>,
                  bytes |-> [i \in 0..(shape.pitch * shape.height - 1) |->
                                IF i % shape.pitch < 2 * shape.width
                                THEN Yuyv(i \div shape.pitch, i % shape.pitch)
                                ELSE Padding]]
    /\ outside = FALSE

\* A byte of a plane, counted from the first plane's.
Byte(plane, row, col) ==
    LET i == picture.at[plane] + row * picture.linesize[plane] + col
    IN  IF i \in DOMAIN picture.bytes THEN picture.bytes[i] ELSE Unwritten

\* A new buffer after the writes.
Written(size, writes) ==
    [i \in 0..(size - 1) |->
        IF \E w \in writes : w[1] = i THEN (CHOOSE w \in writes : w[1] = i)[2]
        ELSE Unwritten]

LumaSize == W * H
ChromaSize == LumaSize \div 4
Yuv420Size == (LumaSize * 3) \div 2

\* Planes one after the other: y, u = y + w * h, v = u + w * h / 4.
PlanesOf(writes) ==
    [at |-> <<0, LumaSize, LumaSize + ChromaSize>>,
     linesize |-> <<W, W \div 2, W \div 2>>,
     bytes |-> Written(Yuv420Size, writes)]

Overruns(size, writes) ==
    \/ outside
    \/ \E w \in writes : w[1] \notin 0..(size - 1) \/ w[2] = Unwritten

StageGoes(from, to) == stage = from /\ stage' = to

-----------------------------------------------------------------------------

\* frame_clone of a YUYV frame: height rows of linesize bytes.
CloneYuyv ==
    /\ StageGoes("captured", "queued")
    /\ LET size == picture.linesize[1] * shape.height
           writes == {<<row * picture.linesize[1] + col, Byte(1, row, col)>> :
                         row \in GivenRows, col \in 0..(picture.linesize[1] - 1)}
       IN  /\ picture' = [picture EXCEPT !.bytes = Written(size, writes)]
           /\ outside' = Overruns(size, writes)
    /\ UNCHANGED <<shape, osd>>

Luma == {<<row * W + col, Byte(1, row, 2 * col)>> : row \in Rows, col \in Cols}

\* Mutant of ChromaRow: both halves of the mean come from the upper row.
ChromaRowUpper(row) == {row}

\* The two rows that share a row of chroma.
ChromaRow(row) == {row, row + 1}

\* Byte k of every four, of rows row and row + 1.
Chroma(row, col, k) ==
    LET lower == CHOOSE r \in ChromaRow(row) : \A x \in ChromaRow(row) : x <= r
    IN  Mean(Byte(1, row, 2 * col + k), Byte(1, lower, 2 * col + k))

\* Mutant of SizeAsAsked: a picture with long enough rows is converted.
LinesizeIsEnough == picture.linesize[1] >= 2 * W

\* The driver gave what the converter was made for.
SizeAsAsked ==
    /\ shape.width = W /\ shape.height = H
    /\ picture.linesize[1] >= 2 * W

\* IPC_EINVAL: the process thread ends with an error and the picture is dropped.
ConvertRefuses ==
    /\ ~SizeAsAsked
    /\ StageGoes("queued", "refused")
    /\ UNCHANGED <<shape, osd, picture, outside>>

Convert ==
    /\ SizeAsAsked
    /\ StageGoes("queued", "converted")
    /\ LET u == LumaSize
           v == u + ChromaSize
           writes == Luma
               \cup {<<u + r * (W \div 2) + c, Chroma(2 * r, 2 * c, 1)>> :
                        r \in HalfRows, c \in HalfCols}
               \cup {<<v + r * (W \div 2) + c, Chroma(2 * r, 2 * c, 3)>> :
                        r \in HalfRows, c \in HalfCols}
       IN  picture' = PlanesOf(writes) /\ outside' = Overruns(Yuv420Size, writes)
    /\ UNCHANGED <<shape, osd>>

\* The rows of three planes, into a buffer of their own without gaps: the
\* queues, the viewer and the processor all copy so.
Copied ==
    {<<r * W + c, Byte(1, r, c)>> : r \in Rows, c \in Cols}
    \cup {<<LumaSize + r * (W \div 2) + c, Byte(2, r, c)>> : r \in HalfRows, c \in HalfCols}
    \cup {<<LumaSize + ChromaSize + r * (W \div 2) + c, Byte(3, r, c)>> :
             r \in HalfRows, c \in HalfCols}

\* Mutant of Clipped: a box that reaches over the right edge is drawn.
ClippedBelow(row, col) == row < H

\* draw_rect_y ends the box at the edges of the picture.
Clipped(row, col) == row < H /\ col < W

BoxRows == OsdArea.y..(OsdArea.y + OsdArea.height - 1)
BoxCols == OsdArea.x..(OsdArea.x + OsdArea.width - 1)

\* The luma that overlay_datetime draws over: its box, and the text in it.
Overlay ==
    {<<p[1] * W + p[2],
       IF <<p[1] - OsdArea.y, p[2] - OsdArea.x>> \in OsdInk THEN White ELSE Black>> :
        p \in {p \in BoxRows \X BoxCols : Clipped(p[1], p[2])}}

\* osd_processor_process: a copy, and the overlay on it.
Process ==
    /\ osd
    /\ StageGoes("converted", "processed")
    /\ LET under == {w \in Copied : \A o \in Overlay : o[1] # w[1]}
       IN  /\ picture' = PlanesOf(under \cup Overlay)
           /\ outside' = Overruns(Yuv420Size, under \cup Overlay)
    /\ UNCHANGED <<shape, osd>>

SkipProcess ==
    /\ ~osd
    /\ StageGoes("converted", "processed")
    /\ UNCHANGED <<shape, osd, picture, outside>>

\* frame_clone for the encoder, or sdl_display_copy_frame for the viewer.
CloneYuv420 ==
    /\ \/ StageGoes("processed", "encoder")
       \/ StageGoes("processed", "viewer")
    /\ picture' = PlanesOf(Copied)
    /\ outside' = Overruns(Yuv420Size, Copied)
    /\ UNCHANGED <<shape, osd>>

\* media_frame_yuv420p_to_nv12: U and V in turn after Y.
ToNv12 ==
    /\ StageGoes("processed", "detector")
    /\ LET writes ==
               {<<r * W + c, Byte(1, r, c)>> : r \in Rows, c \in Cols}
               \cup {<<LumaSize + r * W + 2 * c, Byte(2, r, c)>> : r \in HalfRows, c \in HalfCols}
               \cup {<<LumaSize + r * W + 2 * c + 1, Byte(3, r, c)>> :
                        r \in HalfRows, c \in HalfCols}
       IN  /\ picture' = [at |-> <<0, LumaSize>>, linesize |-> <<W, W>>,
                          bytes |-> Written(Yuv420Size, writes)]
           /\ outside' = Overruns(Yuv420Size, writes)
    /\ UNCHANGED <<shape, osd>>

FramesNext ==
    \/ CloneYuyv \/ Convert \/ ConvertRefuses
    \/ Process \/ SkipProcess \/ CloneYuv420 \/ ToNv12

FramesSpec == FramesInit /\ [][FramesNext]_framesVars

-----------------------------------------------------------------------------
(* Properties.                                                             *)

\* Before the converter the picture is the camera's.
Raw == {"captured", "queued", "refused"}

\* The colour of a square of four pixels, wherever the picture is.
ChromaAt(plane, row, col) ==
    IF stage = "detector" THEN Byte(2, row, 2 * col + plane - 2)
    ELSE Byte(plane, row, col)

InOverlay(row, col) ==
    /\ osd /\ stage \in {"processed", "encoder", "viewer", "detector"}
    /\ row \in BoxRows /\ col \in BoxCols

\* Whoever gets the picture gets one of the size asked for, and sees at every
\* place the camera's brightness of that place, or the overlay where there is
\* one, and the mean colour of the square of four pixels it is in; until it is
\* converted it has the camera's bytes, whatever size the driver chose; nothing
\* is read or written outside a buffer.  It holds as long as the driver lays the
\* rows out without padding: get_frame never looks at bytesperline.
PixelsSurvive ==
    shape.pitch = 2 * shape.width =>
        /\ ~outside
        /\ stage \in Raw =>
              \A row \in GivenRows, k \in GivenBytes : Byte(1, row, k) = Yuyv(row, k)
        /\ stage \notin Raw =>
              /\ shape.width = W /\ shape.height = H
              /\ \A row \in Rows, col \in Cols :
                    Byte(1, row, col) =
                        IF InOverlay(row, col)
                        THEN IF <<row - OsdArea.y, col - OsdArea.x>> \in OsdInk
                             THEN White ELSE Black
                        ELSE Camera("Y", row, col)
              /\ \A r \in HalfRows, c \in HalfCols :
                    /\ ChromaAt(2, r, c) = Mean(Camera("U", 2 * r, c), Camera("U", 2 * r + 1, c))
                    /\ ChromaAt(3, r, c) = Mean(Camera("V", 2 * r, c), Camera("V", 2 * r + 1, c))

=============================================================================
