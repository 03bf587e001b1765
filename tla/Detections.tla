------------------------------ MODULE Detections ------------------------------
(***************************************************************************)
(* Boxes, their overlap and the class filter (core/detection/               *)
(* bounding_box.cpp, nms.cpp; restoreBox of core/image/preprocess.cpp) on    *)
(* integer coordinates; confidences and thresholds are in percent.           *)
(***************************************************************************)
EXTENDS Integers, Sequences, FiniteSets, SequencesExt, Functions, Subsequences

CONSTANT NaN   \* the number that stands for a float that is not finite

ASSUME NaNAssumption == NaN \in Int

Larger(a, b) == IF a > b THEN a ELSE b
Smaller(a, b) == IF a < b THEN a ELSE b

Corners(box) == {box.x1, box.y1, box.x2, box.y2}
Valid(box) == NaN \notin Corners(box) /\ box.x2 > box.x1 /\ box.y2 > box.y1
NoBox == [x1 |-> 0, y1 |-> 0, x2 |-> 0, y2 |-> 0]

ClampTo(value, limit) == IF value = NaN THEN NaN ELSE Larger(0, Smaller(value, limit))
Clamped(box, width, height) ==
    IF width <= 0 \/ height <= 0 THEN NoBox
    ELSE [x1 |-> ClampTo(box.x1, width), y1 |-> ClampTo(box.y1, height),
          x2 |-> ClampTo(box.x2, width), y2 |-> ClampTo(box.y2, height)]

\* A coordinate of the network back in the image; inverse is one over the scale of the resize.
Back(value, pad, inverse) == IF value = NaN THEN NaN ELSE (value - pad) * inverse
RestoreBox(box, t) ==
    Clamped([x1 |-> Back(box.x1, t.padX, t.inverse), y1 |-> Back(box.y1, t.padY, t.inverse),
             x2 |-> Back(box.x2, t.padX, t.inverse), y2 |-> Back(box.y2, t.padY, t.inverse)], t.width, t.height)

Area(box) == Larger(0, box.x2 - box.x1) * Larger(0, box.y2 - box.y1)
Intersection(a, b) ==
    [x1 |-> Larger(a.x1, b.x1), y1 |-> Larger(a.y1, b.y1), x2 |-> Smaller(a.x2, b.x2), y2 |-> Smaller(a.y2, b.y2)]
\* intersectionOverUnion(a, b) > threshold
Overlaps(a, b, threshold) ==
    /\ Valid(a) /\ Valid(b)
    /\ LET common == Area(Intersection(a, b)) IN 100 * common > threshold * (Area(a) + Area(b) - common)

FilterSelectedClasses(detections, selected) ==
    IF selected = <<>> THEN detections ELSE KeepIn(detections, {d \in Range(detections) : d.classId \in Range(selected)})

\* resize() down to the maximum
Capped(detections, maximum) == IF Len(detections) > maximum THEN SubSeq(detections, 1, maximum) ELSE detections
=============================================================================
