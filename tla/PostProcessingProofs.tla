------------------------ MODULE PostProcessingProofs ------------------------
(***************************************************************************)
(* Decoding and suppression, for outputs of any number of rows and classes. *)
(* The argument: a candidate is the row the loop was at, so candidates have  *)
(* rising rows; Order visits every candidate once, best first; what is kept  *)
(* is among those visited, hence at least as confident as what comes.        *)
(***************************************************************************)
EXTENDS PostProcessing, SubsequencesProofs

CandidateType == [box : Boxes, classId : Int, confidence : Int, row : Nat]

-----------------------------------------------------------------------------
(* The order of the suppression *)

LEMMA ListFacts ==
  ASSUME NEW list \in Seq(CandidateType)
  PROVE  /\ DOMAIN list = 1..Len(list) /\ Len(list) \in Nat
         /\ \A i \in DOMAIN list : list[i] \in CandidateType
         /\ \A i \in DOMAIN list : list[i].confidence \in Int
         /\ IsFiniteSet(DOMAIN list) /\ Cardinality(DOMAIN list) = Len(list)
<1>1. /\ DOMAIN list = 1..Len(list) /\ Len(list) \in Nat
      /\ \A i \in DOMAIN list : list[i] \in CandidateType
  OBVIOUS
<1>2. \A c \in CandidateType : c.confidence \in Int
  BY DEF CandidateType
<1>3. \A m \in Nat : IsFiniteSet(1..m) /\ Cardinality(1..m) = m
  BY FS_Interval
<1>4. IsFiniteSet(DOMAIN list) /\ Cardinality(DOMAIN list) = Len(list)
  BY <1>1, <1>3
<1> QED BY <1>1, <1>2, <1>4

\* Order visits candidates, none twice, and confidence never rises.
LEMMA OrderFalls ==
  ASSUME NEW list \in Seq(CandidateType)
  PROVE  /\ \A k \in 1..Len(list) : Order(list)[k] \in DOMAIN list
         /\ \A k, l \in 1..Len(list) : k < l =>
               /\ Order(list)[k] # Order(list)[l]
               /\ list[Order(list)[k]].confidence >= list[Order(list)[l]].confidence
<1> DEFINE n == Len(list)
           key == [i \in DOMAIN list |-> -list[i].confidence]
           order == Order(list)
<1>1. DOMAIN list = 1..n /\ n \in Nat /\ \A i \in 1..n : list[i].confidence \in Int
  BY ListFacts
<1>2. key \in [1..n -> Int] /\ \A i \in 1..n : key[i] = -list[i].confidence
  BY <1>1
<1>3. order = SortedPlaces(key)
  BY DEF Order
<1> HIDE DEF n, key, order
<1>4. /\ order \in [1..n -> 1..n]
      /\ \A k, l \in 1..n : k < l => order[k] # order[l] /\ key[order[k]] <= key[order[l]]
  <2>1. /\ SortedPlaces(key) \in [1..n -> 1..n]
        /\ \A k, l \in 1..n : k < l =>
              /\ SortedPlaces(key)[k] # SortedPlaces(key)[l]
              /\ key[SortedPlaces(key)[k]] <= key[SortedPlaces(key)[l]]
    <3>1. n \in Nat /\ key \in [1..n -> Int]
      BY <1>1, <1>2
    <3> QED BY <3>1, SortedPlacesRise, Zenon
  <2> QED BY <2>1, <1>3, Zenon
<1>5. ASSUME NEW k \in 1..n, NEW l \in 1..n, k < l
      PROVE  list[order[k]].confidence >= list[order[l]].confidence
  <2> DEFINE a == order[k]
             b == order[l]
  <2>1. a \in 1..n /\ b \in 1..n /\ key[a] <= key[b]
    BY <1>4, <1>5
  <2> HIDE DEF a, b
  <2>2. list[a].confidence >= list[b].confidence
    BY <1>1, <1>2, <2>1
  <2> QED BY <2>2 DEF a, b
<1> QED BY <1>1, <1>4, <1>5 DEF n, order

-----------------------------------------------------------------------------
(* Boxes, scores and requests *)

\* A clipped box that is valid lies in the image.
LEMMA ClampedInImage ==
  ASSUME NEW box \in Boxes, NEW width \in Int, NEW height \in Int, Valid(Clamped(box, width, height))
  PROVE  /\ Clamped(box, width, height) \in Boxes
         /\ Clamped(box, width, height).x1 >= 0 /\ Clamped(box, width, height).y1 >= 0
         /\ Clamped(box, width, height).x2 <= width /\ Clamped(box, width, height).y2 <= height
<1>1. width > 0 /\ height > 0
  BY DEF Valid, Clamped, NoBox
<1>2. ASSUME NEW value \in Int, NEW limit \in Int, limit > 0
      PROVE  /\ ClampTo(value, limit) \in Int
             /\ ClampTo(value, limit) # NaN => ClampTo(value, limit) >= 0 /\ ClampTo(value, limit) <= limit
  BY <1>2, NaNAssumption DEF ClampTo, Larger, Smaller
<1>3. box.x1 \in Int /\ box.y1 \in Int /\ box.x2 \in Int /\ box.y2 \in Int
  BY DEF Boxes
<1>4. Clamped(box, width, height) = [x1 |-> ClampTo(box.x1, width), y1 |-> ClampTo(box.y1, height),
                                     x2 |-> ClampTo(box.x2, width), y2 |-> ClampTo(box.y2, height)]
  BY <1>1 DEF Clamped
<1>5. /\ ClampTo(box.x1, width) # NaN /\ ClampTo(box.y1, height) # NaN
      /\ ClampTo(box.x2, width) # NaN /\ ClampTo(box.y2, height) # NaN
  BY <1>4 DEF Valid, Corners
<1> QED BY <1>1, <1>2, <1>3, <1>4, <1>5 DEF Boxes

\* So does a restored box that is valid.
LEMMA RestoredInImage ==
  ASSUME NEW box \in Boxes, NEW t, t.width \in Int, t.height \in Int,
         t.padX \in Int, t.padY \in Int, t.inverse \in Int, Valid(RestoreBox(box, t))
  PROVE  /\ RestoreBox(box, t) \in Boxes
         /\ RestoreBox(box, t).x1 >= 0 /\ RestoreBox(box, t).y1 >= 0
         /\ RestoreBox(box, t).x2 <= t.width /\ RestoreBox(box, t).y2 <= t.height
<1> DEFINE back == [x1 |-> Back(box.x1, t.padX, t.inverse), y1 |-> Back(box.y1, t.padY, t.inverse),
                    x2 |-> Back(box.x2, t.padX, t.inverse), y2 |-> Back(box.y2, t.padY, t.inverse)]
<1>1. \A value, pad, inverse \in Int : Back(value, pad, inverse) \in Int
  BY NaNAssumption DEF Back
<1>2. box.x1 \in Int /\ box.y1 \in Int /\ box.x2 \in Int /\ box.y2 \in Int
  BY DEF Boxes
<1>3. back \in Boxes
  BY <1>1, <1>2 DEF Boxes
<1>4. RestoreBox(box, t) = Clamped(back, t.width, t.height)
  BY DEF RestoreBox
<1> HIDE DEF back
<1> QED BY <1>3, <1>4, ClampedInImage

\* Bounded scores have a best one, and a first place of it.
LEMMA BestExists ==
  ASSUME NEW scores, NEW n \in Nat \ {0}, NEW limit \in Nat,
         DOMAIN scores = 1..n, \A i \in 1..n : scores[i] \in 0..limit
  PROVE  \E i \in 1..n : /\ \A k \in 1..n : scores[k] <= scores[i]
                         /\ \A j \in 1..(i - 1) : scores[j] # scores[i]
<1>1. 1 \in 1..n
  OBVIOUS
<1>2. PICK best \in 1..n : \A k \in 1..n : scores[k] <= scores[best]
  <2> DEFINE Short == {limit - scores[i] : i \in 1..n}
  <2>1. Short \in SUBSET Nat
    OBVIOUS
  <2>2. limit - scores[1] \in Short
    BY <1>1
  <2>3. PICK least \in Short : \A other \in Short : least <= other
    <3> HIDE DEF Short
    <3> QED BY <2>1, <2>2, LeastElement
  <2>4. PICK best \in 1..n : least = limit - scores[best]
    OBVIOUS
  <2>5. ASSUME NEW k \in 1..n PROVE scores[k] <= scores[best]
    <3>1. limit - scores[k] \in Short
      OBVIOUS
    <3>2. limit - scores[best] <= limit - scores[k]
      BY <2>3, <2>4, <3>1
    <3>3. scores[k] \in Int /\ scores[best] \in Int
      OBVIOUS
    <3> HIDE DEF Short
    <3> QED BY <3>2, <3>3
  <2> QED BY <2>5
<1>3. PICK first \in 1..n : /\ scores[first] = scores[best]
                            /\ \A j \in 1..n : scores[j] = scores[best] => first <= j
  <2> DEFINE Places == {i \in 1..n : scores[i] = scores[best]}
  <2>1. Places \in SUBSET Nat /\ best \in Places
    OBVIOUS
  <2>2. PICK first \in Places : \A other \in Places : first <= other
    <3> HIDE DEF Places
    <3> QED BY <2>1, LeastElement
  <2> QED BY <2>2
<1>4. ASSUME NEW j \in 1..(first - 1) PROVE scores[j] # scores[first]
  BY <1>3, <1>4
<1> QED BY <1>2, <1>3, <1>4

\* BestClass is the first place of the best score of the row at hand.
LEMMA BestIsFirst ==
  ASSUME Prediction.scores \in Seq(Int), request.classCount \in Nat \ {0},
         Len(Prediction.scores) = request.classCount, ScoresValid
  PROVE  /\ BestScore \in Int /\ BestClass \in 0..(request.classCount - 1)
         /\ Prediction.scores[BestClass + 1] = BestScore
         /\ \A i \in 1..BestClass : Prediction.scores[i] < BestScore
<1> DEFINE scores == Prediction.scores
           n == request.classCount
           limit == 100
<1>1. DOMAIN scores = 1..n /\ n \in Nat \ {0} /\ \A i \in 1..n : scores[i] \in Int
  OBVIOUS
<1>2. \A i \in 1..n : scores[i] \in Range(scores)
  BY <1>1 DEF Range
<1>3. limit \in Nat /\ \A i \in 1..n : scores[i] \in 0..limit
  BY <1>2 DEF ScoresValid
<1>4. \A s \in Range(scores) : \E i \in 1..n : s = scores[i]
  BY <1>1 DEF Range
<1>5. PICK top \in 1..n : /\ \A k \in 1..n : scores[k] <= scores[top]
                          /\ \A j \in 1..(top - 1) : scores[j] # scores[top]
  <2> HIDE DEF scores, n, limit
  <2> QED BY <1>1, <1>3, BestExists
<1>6. BestScore \in Range(scores) /\ \A s \in Range(scores) : s <= BestScore
  <2>1. scores[top] \in Range(scores) /\ \A s \in Range(scores) : s <= scores[top]
    BY <1>2, <1>4, <1>5
  <2> QED BY <2>1 DEF BestScore
<1>7. BestScore = scores[top]
  <2>1. BestScore \in Int /\ BestScore <= scores[top] /\ scores[top] <= BestScore
    BY <1>1, <1>2, <1>4, <1>5, <1>6
  <2> QED BY <1>1, <2>1
<1>8. PICK first \in 1..n :
         /\ BestClass = first - 1
         /\ scores[first] = BestScore /\ \A j \in 1..(first - 1) : scores[j] # BestScore
  BY <1>1, <1>5, <1>7 DEF BestClass
<1> HIDE DEF scores, n
<1>9. ASSUME NEW i \in 1..(first - 1) PROVE scores[i] < BestScore
  <2>1. i \in 1..n /\ scores[i] # BestScore
    BY <1>1, <1>8
  <2> QED BY <1>1, <1>2, <1>6, <1>7, <2>1
<1>10. /\ BestScore \in Int /\ BestClass \in 0..(n - 1) /\ BestClass + 1 = first
       /\ 1..BestClass = 1..(first - 1)
  BY <1>1, <1>7, <1>8
<1>11. /\ BestScore \in Int /\ BestClass \in 0..(n - 1)
       /\ scores[BestClass + 1] = BestScore
       /\ \A i \in 1..BestClass : scores[i] < BestScore
  BY <1>8, <1>9, <1>10
<1> QED BY <1>11 DEF scores, n

-----------------------------------------------------------------------------
(* The inductive invariant *)

PostTypeOK ==
    /\ request \in Requests
    /\ stage \in {"check", "decode", "suppress", "select", "done", "error"}
    /\ row \in Nat \ {0}
    /\ candidates \in Seq(CandidateType) /\ detections \in Seq(CandidateType)

\* A candidate is the row the loop was at, which it never goes back to.
CandidatesOK ==
    /\ \A i \in DOMAIN candidates : OfItsRow(candidates[i])
    /\ \A i, j \in DOMAIN candidates : i < j => candidates[i].row < candidates[j].row
    /\ stage = "decode" => \A i \in DOMAIN candidates : candidates[i].row < row
    /\ stage = "check" => candidates = <<>>

\* What the decoding loop has looked at was well-formed, or the call has ended with an error.
RowKnown(r) ==
    r.confidence >= request.confidence => r.exact /\ r.classId \in 0..(request.classCount - 1)
LookedAt ==
    /\ stage = "check" => row = 1
    /\ stage = "decode" =>
          /\ Accepts(request)
          /\ Suppressing => \A i \in 1..(row - 1) : Range(request.rows[i].scores) \subseteq 0..100
          /\ ~Suppressing /\ Len(candidates) < request.maximum => \A i \in 1..(row - 1) : RowKnown(request.rows[i])
    /\ stage = "suppress" => Suppressing
    /\ stage \in {"suppress", "select", "done"} => WellFormed

\* Detections are candidates, none twice; while they are suppressed, of those visited.
DetectionsOK ==
    /\ stage \in {"check", "decode", "error"} => detections = <<>>
    /\ Range(detections) \subseteq Range(candidates)
    /\ \A i, j \in DOMAIN detections : i # j => detections[i].row # detections[j].row
    /\ stage = "suppress" =>
          /\ Len(detections) <= request.maximum
          /\ \A i \in DOMAIN detections :
                \E k \in 1..(row - 1) : k <= Len(candidates) /\ detections[i] = candidates[Order(candidates)[k]]
    /\ stage = "done" =>
          /\ Len(detections) <= request.maximum
          /\ request.selected # <<>> => \A d \in Range(detections) : d.classId \in Range(request.selected)

IInv == PostTypeOK /\ CandidatesOK /\ LookedAt /\ DetectionsOK /\ SuppressionIsRight

RowType == [scores : Seq(Int), classId : Int, exact : BOOLEAN, confidence : Int, box : Boxes]

\* What the assumption on requests says of the one at hand.
LEMMA RequestFacts ==
  ASSUME PostTypeOK
  PROVE  /\ request.classCount \in Nat \ {0} /\ request.maximum \in Nat /\ request.confidence \in Int
         /\ request.transform.width \in Int /\ request.transform.height \in Int
         /\ request.transform.padX \in Int /\ request.transform.padY \in Int /\ request.transform.inverse \in Int
         /\ request.rows \in Seq(RowType) /\ request.count \in Int /\ request.selected \in Seq(Int)
         /\ \A i \in DOMAIN request.rows : Len(request.rows[i].scores) = request.classCount
<1>1. RequestOK(request)
  BY RequestsAssumption DEF PostTypeOK
<1> QED BY <1>1 DEF RequestOK, RowType

\* The loops stay within the rows of an output that was accepted.
LEMMA RowsFit ==
  ASSUME PostTypeOK, Accepts(request)
  PROVE  RowCount \in Int /\ RowCount <= Len(request.rows) /\ (Suppressing => RowCount = Len(request.rows))
<1>1. RequestOK(request)
  BY RequestsAssumption DEF PostTypeOK
<1>2. Len(request.rows) \in Nat
  BY RequestFacts
<1>3. CASE request.mode = "picodet_paddle_bbox_original"
  <2>1. PicoDetAccepts(request) /\ TensorValid(request)
    BY <1>3 DEF Accepts
  <2>2. request.shape[1] > 0
    BY <1>1, <2>1 DEF PicoDetAccepts, TensorValid, RequestOK
  <2>3. Len(request.rows) = request.shape[1]
    BY <1>1, <1>3, <2>1, <2>2 DEF PicoDetAccepts, RequestOK
  <2>4. request.outputs = 2 => request.count \in 0..Len(request.rows)
    BY <2>1, <2>3 DEF PicoDetAccepts
  <2>5. ~Suppressing
    BY <1>3 DEF Suppressing
  <2> QED BY <1>2, <2>4, <2>5 DEF RowCount
<1>4. CASE request.mode # "picodet_paddle_bbox_original"
  BY <1>2, <1>4 DEF RowCount
<1> QED BY <1>3, <1>4

\* The row at hand is one of the output and has its types.
LEMMA RowAtHand ==
  ASSUME PostTypeOK, Accepts(request), row <= RowCount
  PROVE  /\ row \in DOMAIN request.rows /\ Prediction \in RowType
         /\ Prediction.scores \in Seq(Int) /\ Prediction.classId \in Int
         /\ Prediction.confidence \in Int /\ Prediction.box \in Boxes
         /\ Len(Prediction.scores) = request.classCount
<1>1. request.rows \in Seq(RowType) /\ Len(request.rows) \in Nat
  BY RequestFacts
<1>2. row \in 1..Len(request.rows)
  BY <1>1, RowsFit DEF PostTypeOK
<1>3. row \in DOMAIN request.rows /\ Prediction \in RowType
  BY <1>1, <1>2 DEF Prediction
<1>4. Len(Prediction.scores) = request.classCount
  BY <1>3, RequestFacts DEF Prediction
<1> QED BY <1>3, <1>4 DEF RowType

\* What is said of a detection and of the tensor depends on the request alone.
LEMMA SameRequest ==
  ASSUME request' = request
  PROVE  /\ \A d : OfItsRow(d)' <=> OfItsRow(d)
         /\ \A r : RowKnown(r)' <=> RowKnown(r)
         /\ Suppressing' <=> Suppressing
         /\ RowCount' = RowCount
<1>1. Suppressing' <=> Suppressing
  BY DEF Suppressing
<1>2. RowCount' = RowCount
  BY DEF RowCount
<1>3. ASSUME NEW d PROVE OfItsRow(d)' <=> OfItsRow(d)
  BY <1>1 DEF OfItsRow
<1>4. ASSUME NEW r PROVE RowKnown(r)' <=> RowKnown(r)
  BY DEF RowKnown
<1> QED BY <1>1, <1>2, <1>3, <1>4

LEMMA WellFormedStays ==
  ASSUME request' = request, candidates' = candidates, WellFormed
  PROVE  WellFormed'
<1>1. (Suppressing' <=> Suppressing) /\ RowCount' = RowCount
  BY SameRequest
<1>2. Accepts(request)'
  BY DEF WellFormed
<1>3. (Suppressing => \A r \in Range(request.rows) : Range(r.scores) \subseteq 0..100)'
  BY <1>1 DEF WellFormed
<1>4. (~Suppressing /\ Len(candidates) < request.maximum =>
          \A i \in 1..RowCount : request.rows[i].confidence >= request.confidence =>
              request.rows[i].exact /\ request.rows[i].classId \in 0..(request.classCount - 1))'
  BY <1>1 DEF WellFormed
<1> QED BY <1>2, <1>3, <1>4 DEF WellFormed

\* A step that leaves the candidates alone leaves them in order.
LEMMA CandidatesStay ==
  ASSUME IInv, request' = request, candidates' = candidates, row' \in Nat \ {0},
         stage' \in {"decode", "suppress", "select", "done", "error"},
         stage' = "decode" => row' >= row /\ stage \in {"check", "decode"}
  PROVE  CandidatesOK'
<1>1. \A i \in DOMAIN candidates : OfItsRow(candidates[i])'
  BY SameRequest DEF IInv, CandidatesOK
<1>2. ASSUME stage' = "decode", NEW i \in DOMAIN candidates PROVE candidates[i].row < row'
  <2>1. stage = "decode"
    BY <1>2 DEF IInv, CandidatesOK
  <2>2. candidates[i] \in CandidateType
    BY DEF IInv, PostTypeOK
  <2>3. candidates[i].row \in Nat
    BY <2>2 DEF CandidateType
  <2> QED BY <1>2, <2>1, <2>3 DEF IInv, CandidatesOK, PostTypeOK
<1>3. \A i, j \in DOMAIN candidates : i < j => candidates[i].row < candidates[j].row
  BY DEF IInv, CandidatesOK
<1> QED BY <1>1, <1>2, <1>3 DEF CandidatesOK

\* While the loop decodes there are no detections.
LEMMA NoDetectionsYet ==
  ASSUME stage' \in {"check", "decode", "error"}, detections' = <<>>
  PROVE  DetectionsOK' /\ SuppressionIsRight'
<1>1. DOMAIN detections' = {} /\ Range(detections') = {}
  BY DEF Range
<1> QED BY <1>1 DEF DetectionsOK, SuppressionIsRight

\* A push appends the row at hand, or nothing.
LEMMA PushKeeps ==
  ASSUME IInv, stage = "decode", NEW box, NEW classId \in Int, NEW confidence \in Int,
         Valid(box) => box \in Boxes, Push(box, classId, confidence), request' = request, row' \in Nat \ {0}, row' > row,
         Valid(box) => OfItsRow([box |-> box, classId |-> classId, confidence |-> confidence, row |-> row])
  PROVE  /\ candidates' \in Seq(CandidateType) /\ Len(candidates') >= Len(candidates)
         /\ Len(candidates) \in Nat /\ Len(candidates') \in Nat
         /\ stage' = "decode" => CandidatesOK'
<1> DEFINE c == [box |-> box, classId |-> classId, confidence |-> confidence, row |-> row]
<1>1. candidates \in Seq(CandidateType) /\ Len(candidates) \in Nat
  BY DEF IInv, PostTypeOK
<1>2. (Valid(box) => c \in CandidateType) /\ c.row = row /\ row \in Nat
  BY DEF IInv, PostTypeOK, CandidateType
<1>3. CASE ~Valid(box)
  <2>1. candidates' = candidates
    BY <1>3 DEF Push
  <2>2. stage' = "decode" => CandidatesOK'
    <3>1. row' >= row
      BY <1>2
    <3> QED BY <2>1, <3>1, CandidatesStay
  <2> QED BY <1>1, <2>1, <2>2
<1>4. CASE Valid(box)
  <2>1. candidates' = Append(candidates, c) /\ OfItsRow(c) /\ c \in CandidateType
    BY <1>2, <1>4 DEF Push
  <2> HIDE DEF c
  <2>2. /\ candidates' \in Seq(CandidateType) /\ Len(candidates') = Len(candidates) + 1
        /\ DOMAIN candidates' = 1..(Len(candidates) + 1)
        /\ candidates'[Len(candidates) + 1] = c
        /\ \A i \in 1..Len(candidates) : candidates'[i] = candidates[i]
    BY <1>1, <2>1
  <2>3. DOMAIN candidates = 1..Len(candidates) /\ \A i \in 1..Len(candidates) : candidates[i].row \in Nat
    <3>1. \A d \in CandidateType : d.row \in Nat
      BY DEF CandidateType
    <3> QED BY <1>1, <3>1
  <2>4. \A i \in 1..Len(candidates) : OfItsRow(candidates[i]) /\ candidates[i].row < row
    BY <2>3 DEF IInv, CandidatesOK
  <2>5. \A i, j \in 1..Len(candidates) : i < j => candidates[i].row < candidates[j].row
    BY <2>3 DEF IInv, CandidatesOK
  <2>6. ASSUME NEW i \in DOMAIN candidates' PROVE OfItsRow(candidates[i])' /\ candidates'[i].row <= row
    <3> DEFINE d == candidates'[i]
    <3>0. (\A e : OfItsRow(e)' <=> OfItsRow(e)) => (OfItsRow(candidates[i])' <=> OfItsRow(d))
      BY DEF OfItsRow, Suppressing
    <3> HIDE DEF d
    <3>1. CASE i \in 1..Len(candidates)
      <4>1. d = candidates[i]
        BY <2>2, <3>1 DEF d
      <4> QED BY <1>2, <2>3, <2>4, <3>0, <3>1, <4>1, SameRequest DEF d
    <3>2. CASE i = Len(candidates) + 1
      <4>1. d = c
        BY <2>2, <3>2 DEF d
      <4> QED BY <1>2, <2>1, <3>0, <4>1, SameRequest DEF d
    <3> QED BY <1>1, <2>2, <3>1, <3>2
  <2>7. ASSUME NEW i \in DOMAIN candidates', NEW j \in DOMAIN candidates', i < j
        PROVE  candidates'[i].row < candidates'[j].row
    <3>1. i \in 1..Len(candidates)
      BY <1>1, <2>2, <2>7
    <3>2. CASE j \in 1..Len(candidates)
      BY <2>2, <2>5, <2>7, <3>1, <3>2
    <3>3. CASE j = Len(candidates) + 1
      BY <1>2, <2>2, <2>4, <3>1, <3>3
    <3> QED BY <1>1, <2>2, <3>2, <3>3
  <2>8. \A i \in DOMAIN candidates' : candidates'[i].row < row'
    <3>1. \A i \in DOMAIN candidates' : candidates'[i].row \in Nat
      <4>1. \A d \in CandidateType : d.row \in Nat
        BY DEF CandidateType
      <4> QED BY <2>2, <4>1
    <3> QED BY <1>2, <2>6, <3>1
  <2>9. stage' = "decode" => CandidatesOK'
    <3>1. (\A i \in DOMAIN candidates : OfItsRow(candidates[i]))'
      BY <2>6
    <3> QED BY <2>7, <2>8, <3>1 DEF CandidatesOK
  <2> QED BY <1>1, <2>2, <2>9
<1> QED BY <1>3, <1>4

\* An error leaves no detections.
LEMMA FailsKeeps == ASSUME IInv, stage = "decode", Fails PROVE IInv'
<1>1. PostTypeOK'
  BY DEF IInv, PostTypeOK, Fails
<1>2. CandidatesOK'
  <2>1. row' \in Nat \ {0}
    BY DEF IInv, PostTypeOK, Fails
  <2> QED BY <2>1, CandidatesStay DEF Fails
<1>3. LookedAt'
  BY DEF LookedAt, Fails
<1>4. DetectionsOK' /\ SuppressionIsRight'
  <2>1. detections' = <<>> /\ stage' = "error"
    BY DEF IInv, DetectionsOK, Fails
  <2> QED BY <2>1, NoDetectionsYet
<1> QED BY <1>1, <1>2, <1>3, <1>4 DEF IInv

\* A row that was looked at and is well-formed lets the loop go on, or stop at its limit.
LEMMA RowDone ==
  ASSUME IInv, stage = "decode", request' = request, stage' = stage, detections' = detections,
         row' \in Nat \ {0}, candidates' \in Seq(CandidateType), CandidatesOK',
         Len(candidates') \in Nat, Len(candidates) \in Nat, Len(candidates') >= Len(candidates),
         Suppressing => row' = row + 1 /\ Range(Prediction.scores) \subseteq 0..100,
         ~Suppressing => \/ row' = row + 1 /\ RowKnown(Prediction)
                         \/ Len(candidates') >= request.maximum
  PROVE  IInv'
<1>1. /\ Accepts(request) /\ row \in Nat \ {0}
      /\ Suppressing => \A i \in 1..(row - 1) : Range(request.rows[i].scores) \subseteq 0..100
      /\ ~Suppressing /\ Len(candidates) < request.maximum => \A i \in 1..(row - 1) : RowKnown(request.rows[i])
  BY DEF IInv, LookedAt, PostTypeOK
<1>2. PostTypeOK'
  BY DEF IInv, PostTypeOK
<1>3. Suppressing => \A i \in 1..(row' - 1) : Range(request.rows[i].scores) \subseteq 0..100
  <2> SUFFICES ASSUME Suppressing, NEW i \in 1..(row' - 1) PROVE Range(request.rows[i].scores) \subseteq 0..100
    OBVIOUS
  <2>1. i \in 1..(row - 1) \/ i = row
    BY <1>1
  <2> QED BY <1>1, <2>1 DEF Prediction
<1>4. ~Suppressing /\ Len(candidates') < request.maximum => \A i \in 1..(row' - 1) : RowKnown(request.rows[i])
  <2> SUFFICES ASSUME ~Suppressing, Len(candidates') < request.maximum, NEW i \in 1..(row' - 1)
               PROVE  RowKnown(request.rows[i])
    OBVIOUS
  <2>1. request.maximum \in Nat
    BY RequestFacts DEF IInv
  <2>2. row' = row + 1 /\ RowKnown(Prediction) /\ Len(candidates) < request.maximum
    BY <2>1
  <2>3. i \in 1..(row - 1) \/ i = row
    BY <1>1, <2>2
  <2> QED BY <1>1, <2>2, <2>3 DEF Prediction
<1>5. LookedAt'
  <2>1. (\A i \in 1..(row - 1) : RowKnown(request.rows[i]))' <=> \A i \in 1..(row' - 1) : RowKnown(request.rows[i])
    BY DEF RowKnown
  <2> QED BY <1>1, <1>3, <1>4, <2>1, SameRequest DEF LookedAt
<1>6. DetectionsOK' /\ SuppressionIsRight'
  <2>1. detections' = <<>> /\ stage' = "decode"
    BY DEF IInv, DetectionsOK
  <2> QED BY <2>1, NoDetectionsYet
<1> QED BY <1>2, <1>5, <1>6 DEF IInv

\* A row that is skipped.
LEMMA SkipKeeps ==
  ASSUME IInv, stage = "decode", Skip,
         Suppressing => Range(Prediction.scores) \subseteq 0..100,
         ~Suppressing => RowKnown(Prediction)
  PROVE  IInv'
<1>1. /\ request' = request /\ stage' = stage /\ detections' = detections /\ candidates' = candidates
      /\ row' = row + 1 /\ row \in Nat \ {0} /\ row' \in Nat \ {0} /\ row' >= row
      /\ candidates \in Seq(CandidateType) /\ Len(candidates) \in Nat
  BY DEF Skip, NextRow, IInv, PostTypeOK
<1>2. CandidatesOK'
  BY <1>1, CandidatesStay
<1>3. /\ candidates' \in Seq(CandidateType) /\ Len(candidates') \in Nat
      /\ Len(candidates') >= Len(candidates)
  BY <1>1
<1>4. /\ Suppressing => row' = row + 1 /\ Range(Prediction.scores) \subseteq 0..100
      /\ ~Suppressing => \/ row' = row + 1 /\ RowKnown(Prediction)
                         \/ Len(candidates') >= request.maximum
  BY <1>1
<1> QED BY <1>1, <1>2, <1>3, <1>4, RowDone

\* What the image holds of a pushed box.
InImage(box) ==
    /\ box \in Boxes
    /\ box.x2 <= request.transform.width /\ box.y2 <= request.transform.height /\ box.x1 >= 0 /\ box.y1 >= 0

\* A row of a graph-integrated format that is pushed.
LEMMA PushUpKeeps ==
  ASSUME IInv, stage = "decode", ~Suppressing, row <= RowCount, ClassInRange,
         Prediction.confidence >= request.confidence,
         NEW box, Valid(box) => InImage(box), PushUpToMaximum(box)
  PROVE  IInv'
<1> DEFINE c == [box |-> box, classId |-> Prediction.classId, confidence |-> Prediction.confidence, row |-> row]
<1>1. /\ request' = request /\ stage' = stage /\ detections' = detections
      /\ Push(box, Prediction.classId, Prediction.confidence)
      /\ row' = IF Len(candidates') >= request.maximum THEN RowCount + 1 ELSE row + 1
  BY DEF PushUpToMaximum
<1>2. PostTypeOK /\ Accepts(request) /\ row \in Nat \ {0}
  BY DEF IInv, LookedAt, PostTypeOK
<1>3. RowCount \in Int /\ row' \in Nat \ {0} /\ row' > row
  BY <1>1, <1>2, RowsFit
<1>4. row \in DOMAIN request.rows /\ Prediction.classId \in Int /\ Prediction.confidence \in Int
  BY <1>2, RowAtHand
<1>5. Valid(box) => OfItsRow(c)
  <2> SUFFICES ASSUME Valid(box) PROVE OfItsRow(c)
    OBVIOUS
  <2>1. /\ c.box = box /\ c.row = row
        /\ c.classId = Prediction.classId /\ c.confidence = Prediction.confidence
    OBVIOUS
  <2> HIDE DEF c
  <2> QED BY <1>4, <2>1 DEF OfItsRow, InImage, ClassInRange, Prediction
<1>6. Valid(box) => box \in Boxes
  BY DEF InImage
<1> HIDE DEF c
<1>7. /\ candidates' \in Seq(CandidateType) /\ Len(candidates') >= Len(candidates)
      /\ Len(candidates) \in Nat /\ Len(candidates') \in Nat
      /\ CandidatesOK'
  BY <1>1, <1>3, <1>4, <1>5, <1>6, PushKeeps DEF c
<1>8. RowKnown(Prediction)
  BY DEF RowKnown, ClassInRange
<1>9. \/ row' = row + 1 /\ RowKnown(Prediction)
      \/ Len(candidates') >= request.maximum
  BY <1>1, <1>8
<1> QED BY <1>1, <1>3, <1>7, <1>9, RowDone

LEMMA DecodeEndToEndKeeps == ASSUME IInv, DecodeEndToEnd PROVE IInv'
<1>1. stage = "decode" /\ row <= RowCount /\ ~Suppressing
  BY DEF DecodeEndToEnd, Decoding, Suppressing
<1>2. PostTypeOK /\ Accepts(request)
  BY <1>1 DEF IInv, LookedAt
<1>3. Prediction.confidence \in Int /\ Prediction.box \in Boxes
  BY <1>1, <1>2, RowAtHand
<1>4. CASE Fails
  BY <1>1, <1>4, FailsKeeps
<1>5. CASE Prediction.confidence < request.confidence /\ Skip
  <2>1. RowKnown(Prediction)
    BY <1>2, <1>3, <1>5, RequestFacts DEF RowKnown
  <2> QED BY <1>1, <1>5, <2>1, SkipKeeps
<1>6. CASE /\ ClassInRange /\ ~(Prediction.confidence < request.confidence)
           /\ PushUpToMaximum(RestoreBox(Prediction.box, request.transform))
  <2> DEFINE box == RestoreBox(Prediction.box, request.transform)
  <2>1. Valid(box) => InImage(box)
    BY <1>2, <1>3, RequestFacts, RestoredInImage DEF InImage
  <2>2. Prediction.confidence >= request.confidence
    BY <1>2, <1>3, <1>6, RequestFacts
  <2> HIDE DEF box
  <2> QED BY <1>1, <1>6, <2>1, <2>2, PushUpKeeps DEF box
<1> QED BY <1>4, <1>5, <1>6 DEF DecodeEndToEnd

LEMMA DecodePicoDetKeeps == ASSUME IInv, DecodePicoDet PROVE IInv'
<1>1. stage = "decode" /\ row <= RowCount /\ ~Suppressing
  BY DEF DecodePicoDet, Decoding, Suppressing
<1>2. PostTypeOK /\ Accepts(request)
  BY <1>1 DEF IInv, LookedAt
<1>3. Prediction.confidence \in Int /\ Prediction.box \in Boxes
  BY <1>1, <1>2, RowAtHand
<1>4. CASE Fails
  BY <1>1, <1>4, FailsKeeps
<1>5. CASE Prediction.confidence < request.confidence /\ Skip
  <2>1. RowKnown(Prediction)
    BY <1>2, <1>3, <1>5, RequestFacts DEF RowKnown
  <2> QED BY <1>1, <1>5, <2>1, SkipKeeps
<1>6. CASE /\ ClassInRange /\ ~(Prediction.confidence < request.confidence)
           /\ PushUpToMaximum(Clamped(Prediction.box, request.transform.width, request.transform.height))
  <2> DEFINE box == Clamped(Prediction.box, request.transform.width, request.transform.height)
  <2>1. Valid(box) => InImage(box)
    BY <1>2, <1>3, RequestFacts, ClampedInImage DEF InImage
  <2>2. Prediction.confidence >= request.confidence
    BY <1>2, <1>3, <1>6, RequestFacts
  <2> HIDE DEF box
  <2> QED BY <1>1, <1>6, <2>1, <2>2, PushUpKeeps DEF box
<1> QED BY <1>4, <1>5, <1>6 DEF DecodePicoDet

\* A row with scores that is pushed with its best class.
LEMMA PushBestKeeps ==
  ASSUME IInv, stage = "decode", Suppressing, row <= RowCount, ScoresValid, BestScore >= request.confidence,
         Push(RestoreBox(Prediction.box, request.transform), BestClass, BestScore), NextRow
  PROVE  IInv'
<1> DEFINE box == RestoreBox(Prediction.box, request.transform)
           c == [box |-> box, classId |-> BestClass, confidence |-> BestScore, row |-> row]
<1>1. PostTypeOK /\ Accepts(request) /\ row \in Nat \ {0}
  BY DEF IInv, LookedAt, PostTypeOK
<1>2. /\ request' = request /\ stage' = stage /\ detections' = detections
      /\ row' = row + 1 /\ row' \in Nat \ {0} /\ row' > row
  BY <1>1 DEF NextRow
<1>3. /\ row \in DOMAIN request.rows /\ Prediction.scores \in Seq(Int) /\ Prediction.box \in Boxes
      /\ Len(Prediction.scores) = request.classCount /\ request.classCount \in Nat \ {0}
  BY <1>1, RowAtHand, RequestFacts
<1>4. /\ BestScore \in Int /\ BestClass \in 0..(request.classCount - 1) /\ BestClass \in Int
      /\ Prediction.scores[BestClass + 1] = BestScore
      /\ \A i \in 1..BestClass : Prediction.scores[i] < BestScore
  <2>1. /\ BestScore \in Int /\ BestClass \in 0..(request.classCount - 1)
        /\ Prediction.scores[BestClass + 1] = BestScore
        /\ \A i \in 1..BestClass : Prediction.scores[i] < BestScore
    BY <1>3, BestIsFirst
  <2> QED BY <2>1
<1>5. Valid(box) => InImage(box)
  BY <1>1, <1>3, RequestFacts, RestoredInImage DEF InImage
<1>6. Valid(box) => OfItsRow(c)
  <2> SUFFICES ASSUME Valid(box) PROVE OfItsRow(c)
    OBVIOUS
  <2>1. c.box = box /\ c.row = row /\ c.classId = BestClass /\ c.confidence = BestScore
    OBVIOUS
  <2> HIDE DEF box, c
  <2> QED BY <1>3, <1>4, <1>5, <2>1 DEF OfItsRow, InImage, Prediction
<1>7. /\ candidates' \in Seq(CandidateType) /\ Len(candidates') >= Len(candidates)
      /\ Len(candidates) \in Nat /\ Len(candidates') \in Nat
      /\ CandidatesOK'
  <2>1. Push(box, BestClass, BestScore)
    OBVIOUS
  <2>2. Valid(box) => box \in Boxes
    BY <1>5 DEF InImage
  <2> HIDE DEF box
  <2> QED BY <1>2, <1>4, <1>6, <2>1, <2>2, PushKeeps
<1>8. Range(Prediction.scores) \subseteq 0..100
  BY DEF ScoresValid
<1> QED BY <1>2, <1>7, <1>8, RowDone

LEMMA DecodeOneToManyKeeps == ASSUME IInv, DecodeOneToMany PROVE IInv'
<1>1. stage = "decode" /\ row <= RowCount /\ Suppressing
  BY DEF DecodeOneToMany, Decoding, Suppressing
<1>2. PostTypeOK /\ Accepts(request)
  BY <1>1 DEF IInv, LookedAt
<1>3. CASE Fails
  BY <1>1, <1>3, FailsKeeps
<1>4. CASE ScoresValid /\ Skip
  BY <1>1, <1>4, SkipKeeps DEF ScoresValid
<1>5. CASE /\ ScoresValid /\ ~(BestScore < request.confidence)
           /\ Push(RestoreBox(Prediction.box, request.transform), BestClass, BestScore) /\ NextRow
  <2>1. BestScore \in Int /\ request.confidence \in Int
    BY <1>1, <1>2, <1>5, RowAtHand, RequestFacts, BestIsFirst
  <2>2. BestScore >= request.confidence
    BY <1>5, <2>1
  <2> QED BY <1>1, <1>5, <2>2, PushBestKeeps
<1> QED BY <1>3, <1>4, <1>5 DEF DecodeOneToMany

LEMMA DecodeNanoDetKeeps == ASSUME IInv, DecodeNanoDet PROVE IInv'
<1>1. stage = "decode" /\ row <= RowCount /\ Suppressing
  BY DEF DecodeNanoDet, Decoding, Suppressing
<1>2. PostTypeOK /\ Accepts(request)
  BY <1>1 DEF IInv, LookedAt
<1>3. CASE Fails
  BY <1>1, <1>3, FailsKeeps
<1>4. CASE ScoresValid /\ Skip
  BY <1>1, <1>4, SkipKeeps DEF ScoresValid
<1>5. CASE /\ ScoresValid /\ ~(BestScore < request.confidence)
           /\ Push(RestoreBox(Prediction.box, request.transform), BestClass, BestScore) /\ NextRow
  <2>1. BestScore \in Int /\ request.confidence \in Int
    BY <1>1, <1>2, <1>5, RowAtHand, RequestFacts, BestIsFirst
  <2>2. BestScore >= request.confidence
    BY <1>5, <2>1
  <2> QED BY <1>1, <1>5, <2>2, PushBestKeeps
<1> QED BY <1>3, <1>4, <1>5 DEF DecodeNanoDet

LEMMA CheckKeeps == ASSUME IInv, Check PROVE IInv'
<1>1. /\ stage = "check" /\ row = 1 /\ candidates = <<>> /\ detections = <<>>
      /\ request' = request /\ row' = row /\ candidates' = candidates /\ detections' = detections
      /\ stage' \in {"decode", "error"} /\ (stage' = "decode" => Accepts(request))
  BY DEF IInv, CandidatesOK, LookedAt, DetectionsOK, Check
<1>2. PostTypeOK'
  BY <1>1 DEF IInv, PostTypeOK
<1>3. CandidatesOK'
  BY <1>1, CandidatesStay
<1>4. LookedAt'
  BY <1>1 DEF LookedAt
<1>5. DetectionsOK' /\ SuppressionIsRight'
  BY <1>1, NoDetectionsYet
<1> QED BY <1>2, <1>3, <1>4, <1>5 DEF IInv

\* When the loop has ended the output was well-formed.
LEMMA DecodedKeeps == ASSUME IInv, Decoded PROVE IInv'
<1>1. /\ stage = "decode" /\ row > RowCount /\ detections = <<>> /\ row' = 1
      /\ request' = request /\ candidates' = candidates
      /\ \/ Suppressing /\ stage' = "suppress" /\ detections' = <<>>
         \/ ~Suppressing /\ stage' = "select" /\ detections' = candidates
  BY DEF IInv, DetectionsOK, Decoded
<1>2. PostTypeOK'
  <2>1. request \in Requests /\ candidates \in Seq(CandidateType) /\ detections \in Seq(CandidateType)
    BY DEF IInv, PostTypeOK
  <2>2. detections' \in Seq(CandidateType)
    BY <1>1, <2>1
  <2> QED BY <1>1, <2>1, <2>2 DEF PostTypeOK
<1>3. CandidatesOK'
  BY <1>1, CandidatesStay
<1>4. WellFormed
  <2>1. /\ Accepts(request)
        /\ Suppressing => \A i \in 1..(row - 1) : Range(request.rows[i].scores) \subseteq 0..100
        /\ ~Suppressing /\ Len(candidates) < request.maximum => \A i \in 1..(row - 1) : RowKnown(request.rows[i])
    BY <1>1 DEF IInv, LookedAt
  <2>2. RowCount \in Int /\ (Suppressing => RowCount = Len(request.rows)) /\ row \in Nat
    BY <2>1, RowsFit DEF IInv, PostTypeOK
  <2>3. \A i \in 1..RowCount : i \in 1..(row - 1)
    BY <1>1, <2>2
  <2>4. ASSUME Suppressing, NEW r \in Range(request.rows) PROVE Range(r.scores) \subseteq 0..100
    <3>1. request.rows \in Seq(RowType)
      BY RequestFacts DEF IInv
    <3>2. PICK i \in 1..Len(request.rows) : r = request.rows[i]
      BY <3>1 DEF Range
    <3> QED BY <2>1, <2>2, <2>3, <2>4, <3>2
  <2> QED BY <2>1, <2>3, <2>4 DEF WellFormed, RowKnown
<1>5. WellFormed'
  BY <1>1, <1>4, WellFormedStays
<1>6. LookedAt'
  BY <1>1, <1>5, SameRequest DEF LookedAt
<1>7. CASE Suppressing /\ stage' = "suppress" /\ detections' = <<>>
  <2>1. DOMAIN detections' = {} /\ Range(detections') = {} /\ Len(detections') = 0
    BY <1>7 DEF Range
  <2>2. request.maximum \in Nat
    BY RequestFacts DEF IInv
  <2>3. DetectionsOK'
    BY <1>1, <1>7, <2>1, <2>2 DEF DetectionsOK
  <2>4. SuppressionIsRight'
    BY <1>1, <1>7, <2>1 DEF SuppressionIsRight
  <2> QED BY <1>2, <1>3, <1>6, <2>3, <2>4 DEF IInv
<1>8. CASE ~Suppressing /\ stage' = "select" /\ detections' = candidates
  <2>1. \A i, j \in DOMAIN candidates : i # j => candidates[i].row # candidates[j].row
    <3>1. /\ \A i, j \in DOMAIN candidates : i < j => candidates[i].row < candidates[j].row
          /\ candidates \in Seq(CandidateType)
      BY DEF IInv, CandidatesOK, PostTypeOK
    <3>2. DOMAIN candidates \subseteq Nat /\ \A i \in DOMAIN candidates : candidates[i].row \in Nat
      <4>1. \A d \in CandidateType : d.row \in Nat
        BY DEF CandidateType
      <4> QED BY <3>1, <4>1
    <3> QED BY <3>1, <3>2
  <2>2. DetectionsOK'
    BY <1>1, <1>8, <2>1 DEF DetectionsOK
  <2>3. SuppressionIsRight'
    BY <1>1, <1>8, SameRequest DEF SuppressionIsRight
  <2> QED BY <1>2, <1>3, <1>6, <2>2, <2>3 DEF IInv
<1> QED BY <1>1, <1>7, <1>8

\* Suppression visits one more candidate: it is overlapped by a detection at least as
\* confident, or becomes the last and least confident of them.
LEMMA SuppressNextKeeps == ASSUME IInv, SuppressNext PROVE IInv'
<1> DEFINE n == Len(candidates)
           at(k) == candidates[Order(candidates)[k]]
           Hit(a, b) == Suppresses(a, b)
<1>1. /\ stage = "suppress" /\ row <= n /\ Len(detections) < request.maximum
      /\ stage' = stage /\ request' = request /\ candidates' = candidates /\ row' = row + 1
      /\ detections' = IF \E d \in Range(detections) : Hit(d, at(row)) THEN detections ELSE Append(detections, at(row))
  BY DEF SuppressNext, Candidate
<1>2. /\ candidates \in Seq(CandidateType) /\ n \in Nat /\ DOMAIN candidates = 1..n
      /\ detections \in Seq(CandidateType) /\ Len(detections) \in Nat /\ DOMAIN detections = 1..Len(detections)
      /\ row \in Nat \ {0} /\ request.maximum \in Nat /\ row \in 1..n /\ Suppressing
  <2>1. PostTypeOK /\ Suppressing
    BY <1>1 DEF IInv, LookedAt
  <2>2. candidates \in Seq(CandidateType) /\ detections \in Seq(CandidateType) /\ row \in Nat \ {0}
    BY <2>1 DEF PostTypeOK
  <2>3. request.maximum \in Nat
    BY <2>1, RequestFacts
  <2> QED BY <1>1, <2>1, <2>2, <2>3
<1>3. \A k \in 1..n : /\ at(k) \in CandidateType /\ at(k) \in Range(candidates)
                      /\ at(k).confidence \in Int
  <2>1. \A k \in 1..n : Order(candidates)[k] \in DOMAIN candidates
    BY <1>2, OrderFalls
  <2>2. \A i \in DOMAIN candidates : candidates[i] \in CandidateType /\ candidates[i] \in Range(candidates)
    BY <1>2 DEF Range
  <2>3. \A i \in DOMAIN candidates : candidates[i].confidence \in Int
    BY <1>2, ListFacts
  <2> QED BY <2>1, <2>2, <2>3
<1>4. ASSUME NEW k \in 1..n, NEW l \in 1..n, k < l
      PROVE  at(k).confidence >= at(l).confidence /\ at(k).row # at(l).row
  <2> DEFINE a == Order(candidates)[k]
             b == Order(candidates)[l]
  <2>1. /\ a \in 1..n /\ b \in 1..n /\ a # b
        /\ candidates[a].confidence >= candidates[b].confidence
    BY <1>2, <1>4, OrderFalls
  <2>2. \A i, j \in 1..n : i < j => candidates[i].row < candidates[j].row
    BY <1>2 DEF IInv, CandidatesOK
  <2>3. \A i \in 1..n : candidates[i].row \in Nat
    <3>1. \A d \in CandidateType : d.row \in Nat
      BY DEF CandidateType
    <3> QED BY <1>2, <3>1
  <2> HIDE DEF a, b
  <2>4. candidates[a].row # candidates[b].row
    BY <1>2, <2>1, <2>2, <2>3
  <2> QED BY <2>1, <2>4 DEF a, b
<1> HIDE DEF n, at, Hit
<1>5. \A i \in 1..Len(detections) : \E k \in 1..(row - 1) : k \in 1..n /\ detections[i] = at(k)
  <2>1. \A i \in DOMAIN detections :
           \E k \in 1..(row - 1) : k <= Len(candidates) /\ detections[i] = candidates[Order(candidates)[k]]
    BY <1>1 DEF IInv, DetectionsOK
  <2> QED BY <1>2, <2>1 DEF n, at
<1>6. ASSUME NEW i \in 1..Len(detections)
      PROVE  detections[i].confidence >= at(row).confidence /\ detections[i].row # at(row).row
  <2>1. PICK k \in 1..(row - 1) : k \in 1..n /\ detections[i] = at(k)
    BY <1>5
  <2>2. k < row
    BY <1>2, <2>1
  <2> QED BY <1>2, <1>4, <2>1, <2>2
<1>7. /\ \A i, j \in 1..Len(detections) : i < j =>
            detections[i].confidence >= detections[j].confidence /\ ~Hit(detections[i], detections[j])
      /\ \A i \in 1..(row - 1) : \/ at(i) \in Range(detections)
                                 \/ \E d \in Range(detections) : d.confidence >= at(i).confidence /\ Hit(d, at(i))
  BY <1>1, <1>2 DEF IInv, SuppressionIsRight, at, Hit
<1>8. /\ \A i, j \in 1..Len(detections) : i # j => detections[i].row # detections[j].row
      /\ Range(detections) \subseteq Range(candidates)
  BY <1>2 DEF IInv, DetectionsOK
\* What remains is said of the detections after the step.
<1> DEFINE Right(kept) ==
             /\ kept \in Seq(CandidateType) /\ Len(kept) <= request.maximum
             /\ Range(kept) \subseteq Range(candidates)
             /\ \A i, j \in 1..Len(kept) : i # j => kept[i].row # kept[j].row
             /\ \A i \in 1..Len(kept) : \E k \in 1..row : k \in 1..n /\ kept[i] = at(k)
             /\ \A i, j \in 1..Len(kept) : i < j =>
                   kept[i].confidence >= kept[j].confidence /\ ~Hit(kept[i], kept[j])
             /\ \A i \in 1..row : \/ at(i) \in Range(kept)
                                  \/ \E d \in Range(kept) : d.confidence >= at(i).confidence /\ Hit(d, at(i))
<1>9. Right(detections')
  <2>1. CASE \E d \in Range(detections) : Hit(d, at(row))
    <3>1. detections' = detections
      BY <1>1, <2>1
    <3>2. \E d \in Range(detections) : d.confidence >= at(row).confidence /\ Hit(d, at(row))
      BY <1>2, <1>6, <2>1 DEF Range
    <3>3. \A i \in 1..row : \/ at(i) \in Range(detections)
                            \/ \E d \in Range(detections) : d.confidence >= at(i).confidence /\ Hit(d, at(i))
      <4>1. \A i \in 1..row : i \in 1..(row - 1) \/ i = row
        BY <1>2
      <4> QED BY <1>7, <3>2, <4>1
    <3>4. \A i \in 1..Len(detections) : \E k \in 1..row : k \in 1..n /\ detections[i] = at(k)
      BY <1>2, <1>5
    <3>5. detections \in Seq(CandidateType) /\ Len(detections) <= request.maximum
      BY <1>1, <1>2
    <3> QED BY <1>7, <1>8, <3>1, <3>3, <3>4, <3>5
  <2>2. CASE ~ \E d \in Range(detections) : Hit(d, at(row))
    <3> DEFINE m == Len(detections)
               kept == Append(detections, at(row))
    <3>1. /\ detections' = kept /\ kept \in Seq(CandidateType) /\ m \in Nat /\ Len(kept) = m + 1
          /\ kept[m + 1] = at(row) /\ \A i \in 1..m : kept[i] = detections[i]
      BY <1>1, <1>2, <1>3, <2>2
    <3>2. \A x : x \in Range(kept) <=> x \in Range(detections) \/ x = at(row)
      <4>1. DOMAIN kept = 1..(m + 1) /\ DOMAIN detections = 1..m
        BY <1>2, <3>1
      <4> HIDE DEF kept, m
      <4>2. \A i \in 1..(m + 1) : i \in 1..m \/ i = m + 1
        BY <3>1
      <4>3. 1..m \subseteq 1..(m + 1) /\ m + 1 \in 1..(m + 1)
        BY <3>1
      <4> QED BY <3>1, <4>1, <4>2, <4>3 DEF Range
    <3> HIDE DEF kept
    <3>3. \A i \in 1..(m + 1) : i \in 1..m \/ i = m + 1
      BY <3>1
    <3>4. \A i, j \in 1..(m + 1) : i # j => kept[i].row # kept[j].row
      BY <1>6, <1>8, <3>1, <3>3
    <3>5. \A i \in 1..(m + 1) : \E k \in 1..row : k \in 1..n /\ kept[i] = at(k)
      <4>1. \A k \in 1..(row - 1) : k \in 1..row
        BY <1>2
      <4>2. row \in 1..row
        BY <1>2
      <4> QED BY <1>2, <1>5, <3>1, <3>3, <4>1, <4>2
    <3>6. ASSUME NEW i \in 1..(m + 1), NEW j \in 1..(m + 1), i < j
          PROVE  kept[i].confidence >= kept[j].confidence /\ ~Hit(kept[i], kept[j])
      <4>1. i \in 1..m /\ kept[i] = detections[i]
        BY <3>1, <3>6
      <4>2. CASE j \in 1..m
        BY <1>7, <3>1, <3>6, <4>1, <4>2
      <4>3. CASE j = m + 1
        <5>1. detections[i] \in Range(detections)
          BY <1>2, <4>1 DEF Range
        <5> QED BY <1>6, <2>2, <3>1, <4>1, <4>3, <5>1
      <4> QED BY <3>3, <4>2, <4>3
    <3>7. \A i \in 1..row : \/ at(i) \in Range(kept)
                            \/ \E d \in Range(kept) : d.confidence >= at(i).confidence /\ Hit(d, at(i))
      <4>1. \A i \in 1..row : i \in 1..(row - 1) \/ i = row
        BY <1>2
      <4> QED BY <1>7, <3>2, <4>1
    <3>8. Len(kept) <= request.maximum /\ Range(kept) \subseteq Range(candidates)
      BY <1>1, <1>2, <1>3, <1>8, <3>1, <3>2
    <3> QED BY <3>1, <3>4, <3>5, <3>6, <3>7, <3>8
  <2> QED BY <2>1, <2>2
<1>10. PostTypeOK'
  <2>1. row' \in Nat \ {0} /\ detections' \in Seq(CandidateType)
    BY <1>1, <1>2, <1>9
  <2> QED BY <1>1, <1>2, <2>1 DEF IInv, PostTypeOK
<1>11. CandidatesOK'
  <2>1. row' \in Nat \ {0} /\ row' >= row
    BY <1>1, <1>2
  <2> QED BY <1>1, <2>1, CandidatesStay
<1>12. LookedAt'
  <2>1. WellFormed'
    BY <1>1, WellFormedStays DEF IInv, LookedAt
  <2> QED BY <1>1, <1>2, <2>1, SameRequest DEF LookedAt
<1>13. row' - 1 = row /\ DOMAIN detections' = 1..Len(detections')
  BY <1>1, <1>2, <1>9
<1>14. DetectionsOK'
  <2>1. (\A i \in DOMAIN detections :
            \E k \in 1..(row - 1) : k <= Len(candidates) /\ detections[i] = candidates[Order(candidates)[k]])'
    BY <1>1, <1>2, <1>9, <1>13 DEF n, at
  <2>2. (\A i, j \in DOMAIN detections : i # j => detections[i].row # detections[j].row)'
    BY <1>9, <1>13
  <2> QED BY <1>1, <1>9, <2>1, <2>2 DEF DetectionsOK
<1>15. SuppressionIsRight'
  <2>1. \A a, b : Suppresses(a, b)' <=> Hit(a, b)
    BY <1>1 DEF Suppresses, Hit
  <2>2. (\A i, j \in DOMAIN detections : i < j =>
            detections[i].confidence >= detections[j].confidence /\ ~Suppresses(detections[i], detections[j]))'
    BY <1>1, <1>9, <1>13, ZenonT(30) DEF Suppresses, Hit
  <2>3. (\A i \in 1..(row - 1) :
            LET candidate == candidates[Order(candidates)[i]] IN
            \/ candidate \in Range(detections)
            \/ \E d \in Range(detections) : d.confidence >= candidate.confidence /\ Suppresses(d, candidate))'
    BY <1>1, <1>9, <1>13 DEF Suppresses, Hit, at
  <2> QED BY <1>1, <2>2, <2>3 DEF SuppressionIsRight
<1> QED BY <1>10, <1>11, <1>12, <1>14, <1>15 DEF IInv

LEMMA SuppressedKeeps == ASSUME IInv, Suppressed PROVE IInv'
<1>1. /\ stage = "suppress" /\ stage' = "select"
      /\ request' = request /\ row' = row /\ candidates' = candidates /\ detections' = detections
      /\ row > Len(candidates) \/ Len(detections) >= request.maximum
  BY DEF Suppressed
<1>2. PostTypeOK /\ row \in Nat \ {0} /\ detections \in Seq(CandidateType) /\ Len(detections) \in Nat
  BY DEF IInv, PostTypeOK
<1>3. PostTypeOK'
  BY <1>1, <1>2 DEF PostTypeOK
<1>4. CandidatesOK'
  BY <1>1, <1>2, CandidatesStay
<1>5. LookedAt'
  <2>1. WellFormed'
    BY <1>1, WellFormedStays DEF IInv, LookedAt
  <2> QED BY <1>1, <2>1 DEF LookedAt
<1>6. DetectionsOK'
  <2>1. /\ Range(detections) \subseteq Range(candidates)
        /\ \A i, j \in DOMAIN detections : i # j => detections[i].row # detections[j].row
    BY DEF IInv, DetectionsOK
  <2> QED BY <1>1, <2>1 DEF DetectionsOK
<1>7. Len(detections) <= request.maximum /\ request.maximum \in Nat
  BY <1>1, <1>2, RequestFacts DEF IInv, DetectionsOK
<1>8. SuppressionIsRight'
  <2>1. Suppressing
    BY <1>1 DEF IInv, LookedAt
  <2>2. /\ \A i, j \in DOMAIN detections : i < j =>
              /\ detections[i].confidence >= detections[j].confidence
              /\ ~Suppresses(detections[i], detections[j])
        /\ \A i \in 1..(row - 1) :
              LET candidate == candidates[Order(candidates)[i]] IN
              \/ candidate \in Range(detections)
              \/ \E d \in Range(detections) : d.confidence >= candidate.confidence /\ Suppresses(d, candidate)
    BY <1>1, <2>1 DEF IInv, SuppressionIsRight
  <2>3. row > Len(candidates) \/ Len(detections) = request.maximum
    BY <1>1, <1>2, <1>7
  <2> QED BY <1>1, <2>2, <2>3 DEF SuppressionIsRight, Suppresses
<1> QED BY <1>3, <1>4, <1>5, <1>6, <1>8 DEF IInv

RowsDiffer(list) == \A i, j \in DOMAIN list : i # j => list[i].row # list[j].row

\* The class filter takes detections away and leaves none of another class.
LEMMA FilterFacts ==
  ASSUME NEW list \in Seq(CandidateType), RowsDiffer(list), NEW selected
  PROVE  /\ FilterSelectedClasses(list, selected) \in Seq(CandidateType)
         /\ RowsDiffer(FilterSelectedClasses(list, selected))
         /\ Range(FilterSelectedClasses(list, selected)) \subseteq Range(list)
         /\ selected # <<>> =>
               \A d \in Range(FilterSelectedClasses(list, selected)) : d.classId \in Range(selected)
<1>1. CASE selected = <<>>
  BY <1>1 DEF FilterSelectedClasses
<1>2. CASE selected # <<>>
  <2> DEFINE S == {d \in Range(list) : d.classId \in Range(selected)}
             R == {pair \in CandidateType \X CandidateType : pair[1].row # pair[2].row}
             kept == KeepIn(list, S)
  <2>1. FilterSelectedClasses(list, selected) = kept
    BY <1>2 DEF FilterSelectedClasses
  <2>2. /\ DOMAIN list = 1..Len(list) /\ Len(list) \in Nat
        /\ \A i \in 1..Len(list) : list[i] \in CandidateType
    OBVIOUS
  <2>3. \A i, j \in 1..Len(list) : i < j => <<list[i], list[j]>> \in R
    BY <2>2 DEF RowsDiffer
  <2>4. kept \in Seq(CandidateType \cap S)
    <3> HIDE DEF S
    <3> QED BY KeepInType
  <2>5. \A i, j \in 1..Len(kept) : i < j => <<kept[i], kept[j]>> \in R
    <3> HIDE DEF S, R
    <3> QED BY <2>3, KeepInRelated
  <2>6. /\ kept \in Seq(CandidateType) /\ DOMAIN kept = 1..Len(kept) /\ Len(kept) \in Nat
        /\ \A i \in 1..Len(kept) : kept[i] \in S
    <3> HIDE DEF S, kept
    <3> QED BY <2>4
  <2> HIDE DEF kept
  <2>7. Range(kept) \subseteq Range(list) /\ \A d \in Range(kept) : d.classId \in Range(selected)
    BY <2>6 DEF Range
  <2>8. RowsDiffer(kept)
    <3>1. \A i, j \in 1..Len(kept) : i < j => kept[i].row # kept[j].row
      BY <2>5
    <3> QED BY <2>6, <3>1 DEF RowsDiffer
  <2> QED BY <2>1, <2>6, <2>7, <2>8
<1> QED BY <1>1, <1>2

\* The limit takes detections away at the end.
LEMMA CappedFacts ==
  ASSUME NEW list \in Seq(CandidateType), RowsDiffer(list), NEW maximum \in Nat
  PROVE  /\ Capped(list, maximum) \in Seq(CandidateType) /\ Len(Capped(list, maximum)) <= maximum
         /\ RowsDiffer(Capped(list, maximum))
         /\ Range(Capped(list, maximum)) \subseteq Range(list)
<1>1. Len(list) \in Nat /\ DOMAIN list = 1..Len(list)
  OBVIOUS
<1>2. CASE Len(list) <= maximum
  <2>1. Capped(list, maximum) = list
    <3>1. ~(Len(list) > maximum)
      BY <1>1, <1>2
    <3> QED BY <3>1, Zenon DEF Capped
  <2> QED BY <1>2, <2>1
<1>3. CASE Len(list) > maximum
  <2> DEFINE kept == SubSeq(list, 1, maximum)
  <2>1. Capped(list, maximum) = kept
    BY <1>3 DEF Capped
  <2>2. /\ kept \in Seq(CandidateType) /\ Len(kept) = maximum /\ DOMAIN kept = 1..maximum
        /\ \A i \in 1..maximum : kept[i] = list[i] /\ i \in 1..Len(list)
    BY <1>1, <1>3
  <2> HIDE DEF kept
  <2>3. Range(kept) \subseteq Range(list) /\ RowsDiffer(kept)
    BY <1>1, <2>2 DEF Range, RowsDiffer
  <2> QED BY <2>1, <2>2, <2>3
<1> QED BY <1>1, <1>2, <1>3

LEMMA SelectKeeps == ASSUME IInv, Select PROVE IInv'
<1> DEFINE filtered == FilterSelectedClasses(detections, request.selected)
           result == Capped(filtered, request.maximum)
<1>1. /\ stage = "select" /\ stage' = "done" /\ detections' = result
      /\ request' = request /\ row' = row /\ candidates' = candidates
  BY DEF Select
<1>2. /\ PostTypeOK /\ detections \in Seq(CandidateType) /\ request.maximum \in Nat
      /\ RowsDiffer(detections) /\ Range(detections) \subseteq Range(candidates)
  BY RequestFacts DEF IInv, PostTypeOK, DetectionsOK, RowsDiffer
<1>3. /\ filtered \in Seq(CandidateType) /\ RowsDiffer(filtered)
      /\ Range(filtered) \subseteq Range(detections)
      /\ request.selected # <<>> => \A d \in Range(filtered) : d.classId \in Range(request.selected)
  BY <1>2, FilterFacts
<1> HIDE DEF filtered
<1>4. /\ result \in Seq(CandidateType) /\ Len(result) <= request.maximum /\ RowsDiffer(result)
      /\ Range(result) \subseteq Range(filtered)
  BY <1>2, <1>3, CappedFacts
<1> HIDE DEF result
<1>5. PostTypeOK'
  BY <1>1, <1>2, <1>4 DEF PostTypeOK
<1>6. CandidatesOK'
  BY <1>1, <1>2, CandidatesStay DEF PostTypeOK
<1>7. LookedAt'
  <2>1. WellFormed'
    BY <1>1, WellFormedStays DEF IInv, LookedAt
  <2> QED BY <1>1, <2>1 DEF LookedAt
<1>8. DetectionsOK'
  BY <1>1, <1>2, <1>3, <1>4 DEF DetectionsOK, RowsDiffer
<1>9. SuppressionIsRight'
  BY <1>1 DEF SuppressionIsRight
<1> QED BY <1>5, <1>6, <1>7, <1>8, <1>9 DEF IInv

-----------------------------------------------------------------------------
LEMMA InitHolds == Init => IInv
<1> SUFFICES ASSUME Init PROVE IInv
  OBVIOUS
<1>1. /\ request \in Requests /\ stage = "check" /\ row = 1
      /\ candidates = <<>> /\ detections = <<>>
  BY DEF Init
<1>2. <<>> \in Seq(CandidateType) /\ DOMAIN <<>> = {} /\ Len(<<>>) = 0
  OBVIOUS
<1>3. PostTypeOK
  BY <1>1, <1>2 DEF PostTypeOK
<1>4. CandidatesOK
  BY <1>1, <1>2 DEF CandidatesOK
<1>5. LookedAt
  BY <1>1 DEF LookedAt
<1>6. DetectionsOK
  BY <1>1, <1>2 DEF DetectionsOK, Range
<1>7. SuppressionIsRight
  BY <1>1 DEF SuppressionIsRight
<1> QED BY <1>3, <1>4, <1>5, <1>6, <1>7 DEF IInv

LEMMA StepKeeps == IInv /\ [Next]_postVars => IInv'
<1> SUFFICES ASSUME IInv, [Next]_postVars PROVE IInv'
  OBVIOUS
<1>1. CASE Check
  BY <1>1, CheckKeeps
<1>2. CASE DecodeEndToEnd
  BY <1>2, DecodeEndToEndKeeps
<1>3. CASE DecodePicoDet
  BY <1>3, DecodePicoDetKeeps
<1>4. CASE DecodeOneToMany
  BY <1>4, DecodeOneToManyKeeps
<1>5. CASE DecodeNanoDet
  BY <1>5, DecodeNanoDetKeeps
<1>6. CASE Decoded
  BY <1>6, DecodedKeeps
<1>7. CASE SuppressNext
  BY <1>7, SuppressNextKeeps
<1>8. CASE Suppressed
  BY <1>8, SuppressedKeeps
<1>9. CASE Select
  BY <1>9, SelectKeeps
<1>10. CASE UNCHANGED postVars
  <2>1. /\ request' = request /\ stage' = stage /\ row' = row
        /\ candidates' = candidates /\ detections' = detections
    BY <1>10 DEF postVars
  <2>2. PostTypeOK'
    BY <2>1 DEF IInv, PostTypeOK
  <2>3. CandidatesOK'
    BY <2>1, SameRequest DEF IInv, CandidatesOK
  <2>4. LookedAt'
    <3>1. stage' \in {"suppress", "select", "done"} => WellFormed'
      BY <2>1, WellFormedStays DEF IInv, LookedAt
    <3> QED BY <2>1, <3>1, SameRequest DEF IInv, LookedAt
  <2>5. DetectionsOK'
    BY <2>1 DEF IInv, DetectionsOK
  <2>6. SuppressionIsRight'
    BY <2>1 DEF IInv, SuppressionIsRight, Suppressing, Suppresses
  <2> QED BY <2>2, <2>3, <2>4, <2>5, <2>6 DEF IInv
<1> QED BY <1>1, <1>2, <1>3, <1>4, <1>5, <1>6, <1>7, <1>8, <1>9, <1>10 DEF Next

LEMMA IInvAlways == Spec => []IInv
BY InitHolds, StepKeeps, PTL DEF Spec

\* Detections are candidates, and candidates are rows.
LEMMA IInvSays == IInv => NothingInvented
<1> SUFFICES ASSUME IInv PROVE NothingInvented
  OBVIOUS
<1>1. \A d \in Range(detections) : OfItsRow(d)
  <2>1. /\ Range(detections) \subseteq Range(candidates)
        /\ \A i \in DOMAIN candidates : OfItsRow(candidates[i])
    BY DEF IInv, DetectionsOK, CandidatesOK
  <2>2. \A d \in Range(candidates) : \E i \in DOMAIN candidates : d = candidates[i]
    BY DEF Range
  <2> QED BY <2>1, <2>2
<1> QED BY <1>1 DEF IInv, DetectionsOK, LookedAt, NothingInvented

\* Whatever the output, however many rows and classes it has: every detection is a valid
\* row of it, used once, with that row's class and confidence, in the image and within the
\* limits asked for, and a malformed output gives an error and no detections.
THEOREM DetectionsAreRows == Spec => []NothingInvented
BY IInvAlways, IInvSays, PTL

\* Suppression keeps no two detections that overlap too much, keeps them by falling
\* confidence, and passes over a candidate only for one at least as confident.
THEOREM SuppressionForBetter == Spec => []SuppressionIsRight
<1>1. IInv => SuppressionIsRight
  BY DEF IInv
<1> QED BY <1>1, IInvAlways, PTL
=============================================================================
