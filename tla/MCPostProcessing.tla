--------------------------- MODULE MCPostProcessing ---------------------------
(***************************************************************************)
(* Outputs of up to three predictions for each format: overlapping and       *)
(* distant boxes, ties, two classes, and the faults a decoder looks for.      *)
(***************************************************************************)
EXTENDS PostProcessing

Box(a, b) == [x1 |-> a, y1 |-> a, x2 |-> b, y2 |-> b]
Row(scores, classId, exact, confidence, box) ==
    [scores |-> scores, classId |-> classId, exact |-> exact, confidence |-> confidence, box |-> box]
GoodRows ==
    {Row(<<90, 10>>, 0, TRUE, 90, Box(2, 12)), Row(<<60, 60>>, 0, TRUE, 60, Box(3, 13)),
     Row(<<10, 60>>, 1, TRUE, 60, Box(3, 13)), Row(<<90, 0>>, 0, TRUE, 90, Box(14, 17)),
     Row(<<10, 10>>, 1, TRUE, 10, Box(2, 12))}
BadRows ==
    {Row(<<NaN, 60>>, 0, TRUE, NaN, Box(2, 12)), Row(<<101, 60>>, 1, TRUE, 101, Box(2, 12)),
     Row(<<60, 70>>, 2, TRUE, 60, Box(12, 12)), Row(<<90, 60>>, 1, FALSE, 90, [Box(2, 12) EXCEPT !.x1 = NaN]),
     Row(<<60, 0>>, 0, TRUE, 60, Box(0, 2)), Row(<<60, 0>>, 2, TRUE, 10, Box(2, 12))}
Outputs == {<<a>> : a \in GoodRows \cup BadRows} \cup {<<a, b>> : a \in GoodRows, b \in GoodRows \cup BadRows}
             \cup {<<a, b, c>> : a, b, c \in GoodRows}

Shape(mode, n) ==
    CASE mode = "yolo26_end2end" -> <<1, n, 6>> [] mode = "yolo26_one_to_many" -> <<6, n>>
      [] mode = "nanodet_plus_dfl" -> <<n, 34>> [] OTHER -> <<n, 6>>
Modes == {"yolo26_end2end", "yolo26_one_to_many", "nanodet_plus_dfl", "picodet_paddle_bbox_original"}
Request(mode, rows, maximum, selected, agnostic) ==
    [mode |-> mode, shape |-> Shape(mode, Len(rows)), payloadFits |-> TRUE, rows |-> rows, outputs |-> 1, count |-> 0,
     classCount |-> 2, requiresNms |-> mode \in {"nanodet_plus_dfl", "yolo26_one_to_many"}, regressionMax |-> 7,
     network |-> [width |-> 8, height |-> 8], strides |-> [i \in DOMAIN rows |-> 8], confidence |-> 25, iou |-> 50, maximum |-> maximum,
     selected |-> selected, agnostic |-> agnostic, transform |-> [inverse |-> 2, padX |-> 2, padY |-> 0, width |-> 32, height |-> 40]]
Pair == <<Row(<<90, 10>>, 0, TRUE, 90, Box(2, 12)), Row(<<10, 60>>, 1, TRUE, 60, Box(14, 17))>>
Odd(mode) ==
    LET base == Request(mode, Pair, 2, <<>>, FALSE) IN
    {[base EXCEPT !.shape = shape] : shape \in {<<>>, <<2>>, <<2, 2, 6>>, <<1, 2, 6>>, <<2, 7>>, <<0, 6>>}}
      \cup {[base EXCEPT !.payloadFits = FALSE], [base EXCEPT !.requiresNms = ~@], [base EXCEPT !.regressionMax = 40],
            [base EXCEPT !.strides = <<8, 3>>], [base EXCEPT !.outputs = 3],
            [base EXCEPT !.network.width = 16, !.strides = <<8>>], [base EXCEPT !.network.height = 12]}
      \cup {[base EXCEPT !.outputs = 2, !.count = count] : count \in {-1, 0, 1, 3}}
MCRequests ==
    {Request(mode, rows, maximum, selected, agnostic) :
        mode \in Modes, rows \in Outputs, maximum \in {0, 1, 3}, selected \in {<<>>, <<1>>}, agnostic \in BOOLEAN}
      \cup UNION {Odd(mode) : mode \in Modes}
=============================================================================
