---------------------------- MODULE PostProcessing ----------------------------
(***************************************************************************)
(* From the output tensor of a graph to the detections of a result: the      *)
(* decoding loops of the four formats (yolo26_adapter.cpp, nanodet_adapter.   *)
(* cpp, picodet_adapter.cpp), non-maximum suppression (nms.cpp) and the end   *)
(* of DetectorPipeline::detect.  A row is a prediction: [scores, classId,     *)
(* exact, confidence, box]; the graph-integrated formats use its class and    *)
(* confidence, the others its scores; box is in network coordinates.          *)
(***************************************************************************)
EXTENDS Detections

CONSTANT Requests   \* outputs, specifications and options to be decoded

Boxes == [x1 : Int, y1 : Int, x2 : Int, y2 : Int]

\* What the types of the code and the shape of the tensor say of a call: a row has a score for each class,
\* the tensor of PicoDet as many rows as its first dimension says.
RequestOK(r) ==
    /\ r.classCount \in Nat \ {0} /\ r.maximum \in Nat /\ r.confidence \in Int /\ r.count \in Int /\ r.outputs \in Nat
    /\ r.transform.width \in Int /\ r.transform.height \in Int
    /\ r.transform.padX \in Int /\ r.transform.padY \in Int /\ r.transform.inverse \in Int
    /\ r.rows \in Seq([scores : Seq(Int), classId : Int, exact : BOOLEAN, confidence : Int, box : Boxes])
    /\ r.shape \in Seq(Nat) /\ r.selected \in Seq(Int)
    /\ \A i \in DOMAIN r.rows : Len(r.rows[i].scores) = r.classCount
    /\ r.mode = "picodet_paddle_bbox_original" /\ Len(r.shape) = 2 /\ r.shape[1] > 0 => Len(r.rows) = r.shape[1]

ASSUME RequestsAssumption == \A r \in Requests : RequestOK(r)

VARIABLES
    request,     \* the arguments of postprocess(): output, transform, spec and options
    stage,       \* "check", "decode", "suppress", "select", "done" or "error"
    row,         \* index of the prediction or candidate the loop is at
    candidates,  \* what the decoding loop has pushed: [box, classId, confidence, row]
    detections   \* kept of the suppression, and then the result

postVars == <<request, stage, row, candidates, detections>>

Init ==
    /\ request \in Requests
    /\ stage = "check" /\ row = 1 /\ candidates = <<>> /\ detections = <<>>

Suppressing == request.mode \in {"nanodet_plus_dfl", "yolo26_one_to_many"}
Dimensions(r) == IF Len(r.shape) = 3 /\ r.shape[1] = 1 THEN Tail(r.shape) ELSE r.shape

\* Tensor::validate(): positive dimensions and a payload of their product.
TensorValid(r) == r.shape # <<>> /\ (\A i \in DOMAIN r.shape : r.shape[i] > 0) /\ r.payloadFits

Points(r) == FoldLeft(LAMBDA sum, stride : sum + (r.network.width \div stride) * (r.network.height \div stride), 0, r.strides)

\* The contracts of the decoders on the number of outputs, their shape, the metadata and PicoDet's bbox_num.
EndToEndAccepts(r) == r.outputs = 1 /\ Len(Dimensions(r)) = 2 /\ Dimensions(r)[2] = 6 /\ ~r.requiresNms
OneToManyAccepts(r) == r.outputs = 1 /\ Len(Dimensions(r)) = 2 /\ Dimensions(r)[1] = r.classCount + 4 /\ r.requiresNms
NanoDetContract(r) ==
    /\ r.requiresNms /\ r.regressionMax \in 1..32 /\ r.strides # <<>>
    /\ \A stride \in Range(r.strides) : stride > 0 /\ r.network.width % stride = 0 /\ r.network.height % stride = 0
NanoDetAccepts(r) ==
    /\ r.outputs = 1 /\ NanoDetContract(r)
    /\ Len(Dimensions(r)) = 2
    /\ Dimensions(r)[2] = r.classCount + 4 * (r.regressionMax + 1)
    /\ Dimensions(r)[1] = Points(r)
PicoDetAccepts(r) ==
    /\ ~r.requiresNms /\ r.outputs \in 1..2
    /\ Len(r.shape) = 2 /\ r.shape[2] = 6
    /\ r.outputs = 2 => r.count \in 0..r.shape[1]
Accepts(r) ==
    /\ TensorValid(r)
    /\ CASE r.mode = "yolo26_end2end" -> EndToEndAccepts(r)
         [] r.mode = "yolo26_one_to_many" -> OneToManyAccepts(r)
         [] r.mode = "nanodet_plus_dfl" -> NanoDetAccepts(r)
         [] r.mode = "picodet_paddle_bbox_original" -> PicoDetAccepts(r)

Check ==
    /\ stage = "check"
    /\ stage' = IF Accepts(request) THEN "decode" ELSE "error"
    /\ UNCHANGED <<request, row, candidates, detections>>

RowCount ==
    IF request.mode = "picodet_paddle_bbox_original" /\ request.outputs = 2 THEN request.count ELSE Len(request.rows)
Prediction == request.rows[row]

Push(box, classId, confidence) ==
    candidates' = IF Valid(box)
                    THEN Append(candidates, [box |-> box, classId |-> classId, confidence |-> confidence, row |-> row])
                    ELSE candidates
NextRow == row' = row + 1 /\ UNCHANGED <<request, stage, detections>>
Skip == NextRow /\ UNCHANGED candidates
Fails == stage' = "error" /\ UNCHANGED <<request, row, candidates, detections>>
Decoding(mode) == stage = "decode" /\ request.mode = mode /\ row <= RowCount

RowFinite == NaN \notin Corners(Prediction.box) \cup {Prediction.confidence, Prediction.classId}
ClassInRange == Prediction.exact /\ Prediction.classId \in 0..(request.classCount - 1)
\* The loops over graph-integrated detections stop as soon as they have pushed maxDetections.
PushUpToMaximum(box) ==
    /\ Push(box, Prediction.classId, Prediction.confidence)
    /\ row' = IF Len(candidates') >= request.maximum THEN RowCount + 1 ELSE row + 1
    /\ UNCHANGED <<request, stage, detections>>

DecodeEndToEnd ==
    /\ Decoding("yolo26_end2end")
    /\ IF ~RowFinite \/ Prediction.confidence \notin 0..100 THEN Fails
       ELSE IF Prediction.confidence < request.confidence THEN Skip
       ELSE IF ~ClassInRange THEN Fails
       ELSE PushUpToMaximum(RestoreBox(Prediction.box, request.transform))

DecodePicoDet ==
    /\ Decoding("picodet_paddle_bbox_original")
    /\ IF ~RowFinite \/ ~ClassInRange \/ Prediction.confidence \notin 0..100 THEN Fails
       ELSE IF Prediction.confidence < request.confidence THEN Skip
       ELSE PushUpToMaximum(Clamped(Prediction.box, request.transform.width, request.transform.height))

\* The class with the best score, the first of them on a tie.
BestScore == CHOOSE best \in Range(Prediction.scores) : \A score \in Range(Prediction.scores) : score <= best

\* A faulty variant: the last of the best classes.
LastBestClass ==
    (CHOOSE i \in DOMAIN Prediction.scores :
        /\ Prediction.scores[i] = BestScore
        /\ \A j \in (i + 1)..Len(Prediction.scores) : Prediction.scores[j] # BestScore) - 1

BestClass == (CHOOSE i \in DOMAIN Prediction.scores :
                 /\ Prediction.scores[i] = BestScore
                 /\ \A j \in 1..(i - 1) : Prediction.scores[j] # BestScore) - 1

ScoresValid == Range(Prediction.scores) \subseteq 0..100

DecodeOneToMany ==
    /\ Decoding("yolo26_one_to_many")
    /\ IF ~ScoresValid THEN Fails
       ELSE IF BestScore < request.confidence \/ ~Valid(Prediction.box) THEN Skip
       ELSE Push(RestoreBox(Prediction.box, request.transform), BestClass, BestScore) /\ NextRow

\* A distribution that is not finite makes a corner NaN and ends the decoding.
DecodeNanoDet ==
    /\ Decoding("nanodet_plus_dfl")
    /\ IF ~ScoresValid THEN Fails
       ELSE IF BestScore < request.confidence THEN Skip
       ELSE IF NaN \in Corners(Prediction.box) THEN Fails
       ELSE Push(RestoreBox(Prediction.box, request.transform), BestClass, BestScore) /\ NextRow

Decoded ==
    /\ stage = "decode" /\ row > RowCount
    /\ row' = 1
    /\ IF Suppressing THEN stage' = "suppress" /\ UNCHANGED detections
                      ELSE stage' = "select" /\ detections' = candidates
    /\ UNCHANGED <<request, candidates>>

\* The candidates by falling confidence, equal ones in the order of the input.
Order(list) == SortedPlaces([i \in DOMAIN list |-> -list[i].confidence])
Candidate == candidates[Order(candidates)[row]]
Suppresses(accepted, candidate) ==
    /\ request.agnostic \/ accepted.classId = candidate.classId
    /\ Overlaps(accepted.box, candidate.box, request.iou)

\* A faulty variant: a candidate is compared with the last detection kept.
SuppressNextByLast ==
    /\ stage = "suppress" /\ row <= Len(candidates) /\ Len(detections) < request.maximum
    /\ row' = row + 1
    /\ detections' = IF detections # <<>> /\ Suppresses(Last(detections), Candidate) THEN detections ELSE Append(detections, Candidate)
    /\ UNCHANGED <<request, stage, candidates>>

SuppressNext ==
    /\ stage = "suppress" /\ row <= Len(candidates) /\ Len(detections) < request.maximum
    /\ row' = row + 1
    /\ detections' = IF \E d \in Range(detections) : Suppresses(d, Candidate) THEN detections ELSE Append(detections, Candidate)
    /\ UNCHANGED <<request, stage, candidates>>

Suppressed ==
    /\ stage = "suppress" /\ (row > Len(candidates) \/ Len(detections) >= request.maximum)
    /\ stage' = "select"
    /\ UNCHANGED <<request, row, candidates, detections>>

\* detect() after postprocess()
Select ==
    /\ stage = "select"
    /\ detections' = Capped(FilterSelectedClasses(detections, request.selected), request.maximum)
    /\ stage' = "done"
    /\ UNCHANGED <<request, row, candidates>>

Next ==
    \/ Check \/ DecodeEndToEnd \/ DecodePicoDet \/ DecodeOneToMany \/ DecodeNanoDet \/ Decoded
    \/ SuppressNext \/ Suppressed \/ Select

Spec == Init /\ [][Next]_postVars /\ WF_postVars(Next)

-----------------------------------------------------------------------------
\* The contract on the tensor holds, and no score or class the decoding looked at is out of range.
WellFormed ==
    /\ Accepts(request)
    /\ Suppressing => \A r \in Range(request.rows) : Range(r.scores) \subseteq 0..100
    /\ ~Suppressing /\ Len(candidates) < request.maximum =>
          \A i \in 1..RowCount : request.rows[i].confidence >= request.confidence =>
              request.rows[i].exact /\ request.rows[i].classId \in 0..(request.classCount - 1)

\* A detection has the class and the confidence of its row, lies in the image and is as confident as asked.
OfItsRow(d) ==
    /\ Valid(d.box) /\ d.classId \in 0..(request.classCount - 1)
    /\ d.confidence >= request.confidence
    /\ d.box.x2 <= request.transform.width /\ d.box.y2 <= request.transform.height /\ d.box.x1 >= 0 /\ d.box.y1 >= 0
    /\ d.row \in DOMAIN request.rows
    /\ LET source == request.rows[d.row] IN
       IF Suppressing
         THEN source.scores[d.classId + 1] = d.confidence /\ \A i \in 1..d.classId : source.scores[i] < d.confidence
         ELSE source.classId = d.classId /\ source.confidence = d.confidence

\* Nothing is invented: every detection is one row, used once, whose class and confidence it has, in the
\* image and at least as confident as asked.  A result has no more of them than asked, of no other class,
\* and none at all comes from an output that is malformed.
NothingInvented ==
    /\ \A d \in Range(detections) : OfItsRow(d)
    /\ \A i, j \in DOMAIN detections : i # j => detections[i].row # detections[j].row
    /\ stage = "done" =>
          /\ Len(detections) <= request.maximum
          /\ request.selected # <<>> => \A d \in Range(detections) : d.classId \in Range(request.selected)
          /\ WellFormed

\* What suppression keeps never overlaps, comes best first, and whatever it has passed over is overlapped
\* by something at least as confident.
SuppressionIsRight ==
    Suppressing /\ stage \in {"suppress", "select"} =>
        /\ \A i, j \in DOMAIN detections : i < j =>
              /\ detections[i].confidence >= detections[j].confidence
              /\ ~Suppresses(detections[i], detections[j])
        /\ \A i \in 1..(row - 1) :
              LET candidate == candidates[Order(candidates)[i]] IN
              \/ candidate \in Range(detections)
              \/ \E d \in Range(detections) : d.confidence >= candidate.confidence /\ Suppresses(d, candidate)
        /\ stage = "select" => row > Len(candidates) \/ Len(detections) = request.maximum
=============================================================================
