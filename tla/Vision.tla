-------------------------------- MODULE Vision --------------------------------
(***************************************************************************)
(* The arithmetic of the detector (yolov5/inference/postprocess.cc and     *)
(* yolov5/utils/image_utils.c): which boxes of the network's output are    *)
(* candidates, when two boxes overlap too much, and where a picture lies   *)
(* in the square that the network is given.                                *)
(*                                                                         *)
(* Floats are exact rationals here.  A confidence or a probability is a    *)
(* level, so many steps of 1 / One; the quantised outputs hold the level   *)
(* plus a zero point.                                                      *)
(***************************************************************************)
EXTENDS Integers

CONSTANTS One,           \* steps of a unit: 1 / scale of the output tensor
          BoxThresh,     \* BOX_THRESH in hundredths
          NmsThresh      \* NMS_THRESH in hundredths

ASSUME VisionAssumption ==
    /\ One \in Nat \ {0}
    /\ BoxThresh \in Nat
    /\ NmsThresh \in Nat

Levels == 0..One

-----------------------------------------------------------------------------
(* Candidates.  process_i8 and process_fp32 are what is built; process_u8  *)
(* and process_i8_rv1106 are for other chips.                              *)

Kinds == {"i8", "u8", "fp32", "rv1106"}
Quantised == Kinds \ {"fp32"}

LeastQuant(kind) == IF kind = "u8" THEN 0 ELSE -128
GreatestQuant(kind) == IF kind = "u8" THEN 255 ELSE 127

\* A quotient as a cast to int truncates it.
Truncated(a, b) == IF a >= 0 THEN a \div b ELSE -((-a) \div b)

\* __clip, which truncates what it does not clip.
Clip(kind, a, b) ==
    IF a <= b * LeastQuant(kind) THEN LeastQuant(kind)
    ELSE IF a >= b * GreatestQuant(kind) THEN GreatestQuant(kind)
    ELSE Truncated(a, b)

\* qnt_f32_to_affine and _u8 of the threshold, for a zero point.
QuantThreshold(kind, zp) == Clip(kind, BoxThresh * One + 100 * zp, 100)

\* The test on the box confidence alone, before the classes are looked at.
FastTest(kind, zp, conf) ==
    IF kind = "fp32" THEN 100 * conf >= BoxThresh * One
    ELSE conf + zp >= QuantThreshold(kind, zp)

\* The test on confidence and best class: of their product, but process_fp32
\* compares the class alone.
ScoreTest(kind, conf, prob) ==
    CASE kind \in {"i8", "u8"} -> 100 * (conf * prob) >= BoxThresh * (One * One)
      [] kind = "rv1106" -> 100 * (conf * prob) > BoxThresh * (One * One)
      [] kind = "fp32" -> 100 * prob > BoxThresh * One

IsCandidate(kind, zp, conf, prob) == FastTest(kind, zp, conf) /\ ScoreTest(kind, conf, prob)

-----------------------------------------------------------------------------
(* CalculateOverlap, and the test of nms.  A box is x, y, w, h.            *)

Least(a, b) == IF a <= b THEN a ELSE b
Greatest(a, b) == IF a <= b THEN b ELSE a

Common(x0, w0, x1, w1) == Greatest(0, Least(x0 + w0, x1 + w1) - Greatest(x0, x1) + 1)

Area(box) == (box.w + 1) * (box.h + 1)

CommonArea(a, b) == Common(a.x, a.w, b.x, b.w) * Common(a.y, a.h, b.y, b.h)

\* iou > threshold, where iou is 0 if the union is not positive.
TooMuch(common, both) ==
    both - common > 0 /\ 100 * common > NmsThresh * (both - common)

Overlap(a, b) == TooMuch(CommonArea(a, b), Area(a) + Area(b))

-----------------------------------------------------------------------------
(* convert_image_with_letterbox: a picture of sw times sh in one of dw     *)
(* times dh, with the same scale both ways.                                *)

WidthDecides(sw, sh, dw, dh) == dw * sh < dh * sw

\* n without its remainder: resize_w % 4, resize_h % 2, the offsets % 2.
Aligned(n, a) == n - (n % a)

ResizeW(sw, sh, dw, dh) ==
    Aligned(IF WidthDecides(sw, sh, dw, dh) THEN dw ELSE (sw * dh) \div sh, 4)

ResizeH(sw, sh, dw, dh) ==
    Aligned(IF WidthDecides(sw, sh, dw, dh) THEN (sh * dw) \div sw ELSE dh, 2)

\* dst_box.  Only the side with padding is computed anew.
DstBox(sw, sh, dw, dh) ==
    LET w == ResizeW(sw, sh, dw, dh)
        h == ResizeH(sw, sh, dw, dh)
        top == Aligned((dh - h) \div 2, 2)
        left == Aligned((dw - w) \div 2, 2)
    IN  IF WidthDecides(sw, sh, dw, dh)
        THEN [left |-> 0, right |-> dw - 1, top |-> top, bottom |-> top + h - 1]
        ELSE [left |-> left, right |-> left + w - 1, top |-> 0, bottom |-> dh - 1]

-----------------------------------------------------------------------------
(* crop_and_scale_image_c, along one side of the picture.                  *)

\* Where pixel n of a box is taken from: a crop of the source.
SourceAt(n, start, crop, box) == start + (n * crop) \div box

\* The pixel it is mixed with is the next one, or at the edge the one before.
Neighbour(p, size) == IF p = size - 1 THEN p - 1 ELSE p + 1

\* Where pixel (x, y) of a picture goes, in pixels from its start.
PixelAt(x, y, width) == y * width + x

Half(n) == n \div 2

\* crop_and_scale_image_yuv420sp, its second pass: pairs of bytes, with half the
\* source, the crop and the destination, but with the box as it is.
ChromaSourceAt(n, start, crop, box) == SourceAt(n, Half(start), Half(crop), box)
ChromaPixelAt(x, y, dw) == PixelAt(x, y, Half(dw))

=============================================================================
