----------------------------- MODULE MCPreprocess -----------------------------
(***************************************************************************)
(* Every image of up to five by five pixels and some very long ones, in     *)
(* every input of up to four by four; colours and faults on one of them.    *)
(***************************************************************************)
EXTENDS Preprocess

Request(w, h, inW, inH, letterbox) ==
    [width |-> w, height |-> h, payload |-> w * h * 3, inWidth |-> inW, inHeight |-> inH, letterbox |-> letterbox,
     layout |-> "CHW", dataType |-> "FP32", deviation |-> "finite", scale |-> "finite", format |-> "BGR", colorOrder |-> "RGB"]
Sizes == 1..5 \cup {40}
Base == Request(3, 2, 4, 4, TRUE)
MCRequests ==
    {Request(w, h, inW, inH, letterbox) : w, h \in Sizes, inW, inH \in 1..4, letterbox \in BOOLEAN}
      \cup {[Base EXCEPT !.format = format, !.colorOrder = order] : format, order \in {"RGB", "BGR"}}
      \cup {[Base EXCEPT !.payload = 17], [Base EXCEPT !.width = 0], [Base EXCEPT !.inWidth = 0], [Base EXCEPT !.inHeight = 16385],
            [Base EXCEPT !.layout = "HWC"], [Base EXCEPT !.dataType = "FP16"], [Base EXCEPT !.deviation = "zero"],
            [Base EXCEPT !.scale = "nan"]}
=============================================================================
