----------------------------- MODULE Preprocess -----------------------------
(***************************************************************************)
(* preprocessImage() and restoreBox() (core/image/preprocess.cpp): an image *)
(* is resized into the input of a network, letterboxed or stretched, pixel  *)
(* by pixel, and a box comes back.  Coordinates are exact: a position on an *)
(* axis of the image is a numerator over twice the resized size of that     *)
(* axis, because padding comes in halves of a pixel.                        *)
(***************************************************************************)
EXTENDS Integers, FiniteSets

CONSTANT Requests    \* images with the input specification of a model

\* What the types of the code say of a call.
RequestOK(r) ==
    /\ r.width \in Int /\ r.height \in Int /\ r.payload \in Nat /\ r.inWidth \in Int /\ r.inHeight \in Int
    /\ r.letterbox \in BOOLEAN /\ r.format \in {"RGB", "BGR"} /\ r.colorOrder \in {"RGB", "BGR"}

ASSUME RequestsAssumption == \A r \in Requests : RequestOK(r)

VARIABLES
    request,     \* image, input and configuration
    stage,       \* "check", "resize", "fill", "done" or "error"
    transform,   \* [width |-> axis, height |-> axis]
    cursor,      \* the pixel of the tensor to be written next
    sampled      \* the pixels of the tensor that were not padded

preVars == <<request, stage, transform, cursor, sampled>>

Larger(a, b) == IF a > b THEN a ELSE b
Smaller(a, b) == IF a < b THEN a ELSE b
Between(low, value, high) == Larger(low, Smaller(value, high))

\* std::round of n / d; where it is half-way a float may have been rounded to either side before.
Rounded(n, d) == {(2 * n + d) \div (2 * d)} \cup (IF (2 * n + d) % (2 * d) = 0 THEN {(2 * n + d) \div (2 * d) - 1} ELSE {})

\* One axis of the transform: pixels of the image, of the input, and of the resized image within it.
Axis(original, network, resized) == [original |-> original, network |-> network, resized |-> resized]
Stretched(original, network) == Axis(original, network, network)
NoTransform == [width |-> Axis(1, 1, 1), height |-> Axis(1, 1, 1)]
TwicePad(a) == a.network - a.resized

PreInit ==
    /\ request \in Requests
    /\ stage = "check" /\ transform = NoTransform /\ cursor = 0 /\ sampled = {}

\* Image::validate() and the checks on the input and the configuration.
ImageValid == request.width > 0 /\ request.height > 0 /\ request.payload = request.width * request.height * 3
LargestInput == 16384
InputValid ==
    /\ request.inWidth \in 1..LargestInput /\ request.inHeight \in 1..LargestInput
    /\ request.layout = "CHW" /\ request.dataType = "FP32"
    /\ request.deviation \notin {"zero", "nan"} /\ request.scale = "finite"

Check ==
    /\ stage = "check"
    /\ stage' = IF ImageValid /\ InputValid THEN "resize" ELSE "error"
    /\ UNCHANGED <<request, transform, cursor, sampled>>

\* A faulty variant: the letterboxed image is stretched over the input.
ResizeWithoutRatio ==
    /\ stage = "resize" /\ stage' = "fill"
    /\ transform' = [width |-> Axis(request.width, request.inWidth, request.inWidth),
                     height |-> Axis(request.height, request.inHeight, Smaller(request.height, request.inHeight))]
    /\ UNCHANGED <<request, cursor, sampled>>

\* The smaller of the two ratios scales both axes, and no axis vanishes.
Resize ==
    /\ stage = "resize" /\ stage' = "fill"
    /\ LET w == request.width  h == request.height
           inW == request.inWidth  inH == request.inHeight
           n == IF inW * h <= inH * w THEN inW ELSE inH
           d == IF inW * h <= inH * w THEN w ELSE h
       IN IF request.letterbox
            THEN \E rw \in Rounded(w * n, d), rh \in Rounded(h * n, d) :
                    transform' = [width |-> Axis(w, inW, Larger(1, rw)), height |-> Axis(h, inH, Larger(1, rh))]
            ELSE transform' = [width |-> Stretched(w, inW), height |-> Stretched(h, inH)]
    /\ UNCHANGED <<request, cursor, sampled>>

\* A position of the input is padded, or it is somewhere in the resized image.
Padded(a, x) == 2 * x - TwicePad(a) < 0 \/ 2 * x - TwicePad(a) >= 2 * a.resized
\* (x - pad + 0.5) / scale - 0.5
Source(a, x) == (2 * x - TwicePad(a) + 1) * a.original - a.resized
\* bilinearSample(): the two neighbours of a position that was clamped into the image.
Clamped(a, x) == Between(0, Source(a, x), 2 * a.resized * (a.original - 1))

Neighbours(a, x) ==
    LET first == Clamped(a, x) \div (2 * a.resized) IN {first, Smaller(first + 1, a.original - 1)}

\* The channel of the image that a channel of the tensor is read from.
SourceForOutput(channel) ==
    IF request.colorOrder = "BGR" /\ request.format = "RGB" THEN 2 - channel
    ELSE IF request.colorOrder = "RGB" /\ request.format = "BGR" THEN 2 - channel ELSE channel

Column == cursor % request.inWidth
Row == cursor \div request.inWidth
\* The bytes of the image the pixel under the cursor is made of.
BytesRead ==
    IF Padded(transform.width, Column) \/ Padded(transform.height, Row) THEN {}
    ELSE {(row * request.width + column) * 3 + SourceForOutput(channel) :
            row \in Neighbours(transform.height, Row), column \in Neighbours(transform.width, Column), channel \in 0..2}

Fill ==
    /\ stage = "fill" /\ cursor < request.inWidth * request.inHeight
    /\ sampled' = IF BytesRead = {} THEN sampled ELSE sampled \cup {<<Column, Row>>}
    /\ cursor' = cursor + 1
    /\ UNCHANGED <<request, stage, transform>>

Filled ==
    /\ stage = "fill" /\ cursor = request.inWidth * request.inHeight
    /\ stage' = "done"
    /\ UNCHANGED <<request, transform, cursor, sampled>>

PreNext == Check \/ Resize \/ Fill \/ Filled
PreSpec == PreInit /\ [][PreNext]_preVars

\* A faulty variant: the padding is not subtracted.
RestoredWithPad(a, x) == Between(0, 2 * x * a.original, 2 * a.resized * a.original)

\* restoreBox() on one axis: a coordinate of the network in the image, clamped to it.
Restored(a, x) == Between(0, (2 * x - TwicePad(a)) * a.original, 2 * a.resized * a.original)

-----------------------------------------------------------------------------
Axes == {transform.width, transform.height}
Resized == stage \in {"fill", "done"}

\* Letterboxing keeps the ratio to half a pixel, but for an axis that would vanish; the resized image
\* fits into the input and fills one axis, and as many pixels are taken from the image as it has.
RatioKept ==
    /\ \A a \in Axes : a.resized \in 1..a.network
    /\ stage = "done" => Cardinality(sampled) = transform.width.resized * transform.height.resized
    /\ Resized /\ request.letterbox =>
        \E a \in Axes :
            /\ a.resized = a.network
            /\ \A b \in Axes :
                  b.resized = 1 \/ 2 * a.original * b.resized - 2 * b.original * a.resized \in -a.original..a.original

\* Sampling stays in the payload of the image and takes the colours in the order the model asks for.
Colour(order, channel) == IF order = "RGB" THEN <<"R", "G", "B">>[channel + 1] ELSE <<"B", "G", "R">>[channel + 1]
SamplesTheImage ==
    /\ stage = "fill" /\ cursor < request.inWidth * request.inHeight => BytesRead \subseteq 0..(request.payload - 1)
    /\ \A channel \in 0..2 : Colour(request.format, SourceForOutput(channel)) = Colour(request.colorOrder, channel)

\* Restoring undoes sampling: a sampled pixel comes back as a part of the image with the position it was
\* sampled at in its middle, and a pixel wholly in the padding comes back as nothing.
RestoreUndoesSampling ==
    /\ SamplesTheImage
    /\ Resized =>
        \A a \in Axes : \A x \in 0..(a.network - 1) :
            IF Padded(a, x)
              THEN 2 * x + 2 <= TwicePad(a) \/ 2 * x >= TwicePad(a) + 2 * a.resized => Restored(a, x) = Restored(a, x + 1)
              ELSE /\ Restored(a, x) < Restored(a, x + 1)
                   /\ Source(a, x) + a.resized \in Restored(a, x)..Restored(a, x + 1)
=============================================================================
