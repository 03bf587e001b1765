----------------------------- MODULE OnnxBackend -----------------------------
(***************************************************************************)
(* OnnxRuntimeBackend (backends/onnxruntime/onnxruntime_backend.cpp) as      *)
(* operators over its state: the session and the names and shapes it kept.   *)
(* A graph is what ONNX Runtime reports of a file: its inputs [name, shape,   *)
(* float] and outputs [name, float] in the file's own order; a dimension      *)
(* that is not positive is dynamic.                                          *)
(***************************************************************************)
EXTENDS Integers, Sequences, FiniteSets, Functions, SequencesExt

CONSTANT Disk   \* the model files there are: from names to graphs, or to <<>> when ONNX Runtime refuses the file

NoSession == [graph |-> <<>>, inputNames |-> <<>>, outputNames |-> <<>>, inputShapes |-> <<>>]

NamesOf(ports) == [i \in DOMAIN ports |-> ports[i].name]

Loadable(artifact, config) ==
    /\ config = [device |-> "CPU", precision |-> "FP32"]
    /\ "model" \in DOMAIN artifact.files
    /\ artifact.files["model"] \in DOMAIN Disk
    /\ Disk[artifact.files["model"]] # <<>>
    /\ LET graph == Disk[artifact.files["model"]][1] IN
       /\ \A port \in Range(graph.inputs) \cup Range(graph.outputs) : port.float
       /\ Range(artifact.inputNames) \subseteq Range(NamesOf(graph.inputs))
       /\ Range(artifact.outputNames) \subseteq Range(NamesOf(graph.outputs))

\* The session after load(): every failure unloads.  The declared names replace the session's, its shapes stay.
OnnxLoad(artifact, config) ==
    IF ~Loadable(artifact, config) THEN NoSession ELSE
    LET graph == Disk[artifact.files["model"]][1] IN
    [graph |-> <<graph>>,
     inputNames |-> IF artifact.inputNames # <<>> THEN artifact.inputNames ELSE NamesOf(graph.inputs),
     outputNames |-> IF artifact.outputNames # <<>> THEN artifact.outputNames ELSE NamesOf(graph.outputs),
     inputShapes |-> [i \in DOMAIN graph.inputs |-> graph.inputs[i].shape]]

ShapeMatches(expected, actual) ==
    /\ Len(expected) = Len(actual)
    /\ \A i \in DOMAIN expected : expected[i] > 0 => expected[i] = actual[i]

\* The checks of infer() before it runs the session: shapes are compared by position.
InputsAccepted(session, tensors) ==
    /\ session # NoSession
    /\ Len(tensors) = Len(session.inputNames)
    /\ \A i \in DOMAIN tensors : ShapeMatches(session.inputShapes[i], tensors[i].shape)

\* What Run() is given: the tensor at each position under the name kept for that position.
Fed(session, tensors) == {<<session.inputNames[i], tensors[i]>> : i \in DOMAIN tensors}

\* Session::Run() takes every input of the graph once, by name, in its shape.
Runs(graph, fed) ==
    \A port \in Range(graph.inputs) :
        \E pair \in fed : pair[1] = port.name /\ ShapeMatches(port.shape, pair[2].shape)

InferSucceeds(session, tensors) ==
    InputsAccepted(session, tensors) /\ Runs(session.graph[1], Fed(session, tensors))
=============================================================================
