--------------------------- MODULE MCRuntimeCatalog ---------------------------
(***************************************************************************)
(* Three families on one backend: good files, a missing and a refused one,   *)
(* one of another type, a template, and PicoDet profiles whose inputs are     *)
(* declared in three orders.  For the registry, good profiles, two of them    *)
(* of one id, and a good one with every fault.                                *)
(***************************************************************************)
EXTENDS RuntimeCatalog, Profiles

On(root, inputs, file) == Put(root, "artifacts", Node("Object", [onnxruntime |-> Artifact(inputs, [model |-> Node("RelativePath", file)])]))
Template(root) == Put(root, "deployment_validated", Node("Boolean", FALSE))
Aux(root, names) == [root EXCEPT !.input.v = Put(@, "auxiliary_inputs", Names(names))]
Spec(root) == SpecOf(File(root, <<"cat", "dog">>))

Yolo == On(Root("yolo", "yolo26", "pytorch", "yolo26_end2end", FALSE), <<"image">>, "yolo.onnx")
Nano == Root("nano", "nanodet", "pytorch", "nanodet_plus_dfl", TRUE)
Pico == Aux(Root("pico", "picodet", "paddlepaddle", "picodet_paddle_bbox_original", FALSE), <<"im_shape", "scale_factor">>)
Declared == <<"image", "im_shape", "scale_factor">>
Swapped == <<"image", "scale_factor", "im_shape">>

Port(name, shape) == [name |-> name, shape |-> shape, float |-> TRUE]
Image == Port("image", <<1, 3, 8, 8>>)
Output == [name |-> "output", shape |-> <<1, 0, 6>>, float |-> TRUE]
Graph(inputs) == <<[inputs |-> inputs, outputs |-> <<Output>>]>>
MCDisk == [file \in {"yolo.onnx", "pico.onnx", "shape_first.onnx", "broken.onnx", "half.onnx"} |->
             CASE file = "yolo.onnx" -> Graph(<<Image>>)
               [] file = "pico.onnx" -> Graph(<<Image, Port("im_shape", <<0, 2>>), Port("scale_factor", <<1, 2>>)>>)
               [] file = "shape_first.onnx" -> Graph(<<Port("im_shape", <<1, 2>>), Image, Port("scale_factor", <<1, 2>>)>>)
               [] file = "half.onnx" -> Graph(<<[Image EXCEPT !.float = FALSE]>>)
               [] file = "broken.onnx" -> <<>>]

Directory(roots) == [i \in DOMAIN roots |-> File(roots[i], <<"cat", "dog">>)]
Plain == Root("yolo", "yolo26", "pytorch", "yolo26_end2end", FALSE)
Twin == Root("yolo", "yolo26", "pytorch", "yolo26_one_to_many", TRUE)
\* A key of a section set to another node.
In(root, section, key, node) == [root EXCEPT ![section].v = Put(@, key, node)]
Faulty ==
    {Drop(Plain, key) : key \in DOMAIN Plain \ {"id"}} \cup {Put(Plain, key, Retype(Plain[key], "Null")) : key \in DOMAIN Plain \ {"id"}}
    \cup {[Plain EXCEPT !.input.v = Drop(@, key)] : key \in DOMAIN InputKeys}
    \cup {[Plain EXCEPT !.preprocess.v = Drop(@, key)] : key \in DOMAIN PreprocessKeys}
    \cup {[Plain EXCEPT !.postprocess.v = Drop(@, key)] : key \in DOMAIN PostprocessKeys}
    \cup {Put(Plain, "class_count", Int32(n)) : n \in {0, 1, 3, 100001}}
    \cup {Put(Plain, "schema_version", Int32(2)), Put(Plain, "display_name", Str("")), Put(Plain, "default_backend", Str("paddle")),
          Put(Plain, "supported_backends", Names(<<>>)), Put(Plain, "supported_backends", Names(<<"onnxruntime", "onnxruntime">>)),
          Put(Plain, "supported_backends", Names(<<"onnxruntime", "paddle">>)), Put(Plain, "family", Str("yolo")),
          Put(Plain, "family", Str("picodet")), Put(Plain, "source_framework", Str("paddlepaddle")),
          Put(Plain, "artifacts", Node("Object", [onnxruntime |-> Artifact(<<>>, ModelFile)])),
          Put(Plain, "artifacts", Node("Object", [onnxruntime |-> Artifact(<<"image">>, [m \in {} |-> 0])])),
          Put(Plain, "artifacts", Node("Object", [onnxruntime |-> Artifact(<<"image">>, [model |-> Node("AbsolutePath", "model")])])),
          In(Plain, "input", "width", Int32(0)), In(Plain, "input", "height", Int32(16385)),
          In(Plain, "input", "layout", Str("HWC")), In(Pico, "input", "auxiliary_inputs", Node("Integers", <<"im_shape">>)),
          In(Plain, "preprocess", "std", Node("Triplet", <<1, 0, 1>>)), In(Plain, "preprocess", "scale", Int32(FloatLimit)),
          In(Plain, "preprocess", "resize", Str("crop")),
          In(Plain, "postprocess", "reg_max", Int32(65)), In(Plain, "postprocess", "strides", Node("Integers", <<>>)),
          In(Plain, "postprocess", "strides", Node("Integers", <<8, 0>>)),
          In(Plain, "postprocess", "confidence_threshold", Int32(101)),
          In(Plain, "postprocess", "requires_nms", Node("Boolean", TRUE)), In(Plain, "postprocess", "mode", Str("other"))}
Files == {File(root, TwoLabels) : root \in Faulty} \cup {File(Plain, labels) : labels \in {<<"missing">>, <<"cat">>, <<>>}}
             \cup {[state |-> state, root |-> Plain, labels |-> TwoLabels] : state \in {"missing", "oversized", "malformed", "array"}}
Some == {File(root, TwoLabels) : root \in {Plain, Nano, Twin, Drop(Plain, "input"), Put(Plain, "class_count", Int32(3)),
                                          In(Nano, "postprocess", "reg_max", Int32(40))}}
MCDirectories ==
    {Directory(roots) : roots \in
        {<<Yolo, On(Pico, Declared, "pico.onnx")>>, <<On(Nano, <<"image">>, "gone.onnx"), Template(Yolo)>>, <<Yolo, Yolo>>}}
    \cup {<<>>} \cup {<<file>> : file \in Files \cup Some} \cup {<<a, b>> : a \in Some, b \in Some}
OtherNano == Spec(On(Nano, <<"other">>, "yolo.onnx"))
MCAdded == {OtherNano, [OtherNano EXCEPT !.id = "unlabelled", !.labels = <<"cat", "">>]}
MCRespecified == {Spec(Yolo), Spec(Template(Yolo)), Spec(On(Yolo, <<"image">>, "half.onnx")), Spec(On(Yolo, <<"image">>, "broken.onnx")),
                  Spec(On(Pico, Declared, "pico.onnx")), Spec(On(Pico, Swapped, "pico.onnx")), Spec(On(Pico, Declared, "shape_first.onnx")),
                  Spec(Put(Yolo, "class_count", Int32(3))),
                  Spec(On(Aux(Pico, <<"other">>), <<"image">>, "yolo.onnx"))}
MCDecoded == {<<>>, <<0, 1, 0>>}
MCRequests == {[valid |-> TRUE, selected |-> selected, maxDetections |-> 1] : selected \in {<<>>, <<1>>, <<2>>, <<1, 1>>}}
=============================================================================
