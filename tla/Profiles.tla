------------------------------- MODULE Profiles -------------------------------
(***************************************************************************)
(* Building model.json files for the instances that TLC checks.             *)
(***************************************************************************)
EXTENDS ModelMetadata

Node(type, v) == [type |-> type, v |-> v]
Str(v) == Node("String", v)
Int32(v) == Node("Integer", v)
Names(v) == Node("Strings", v)
Put(object, key, node) == [k \in DOMAIN object \cup {key} |-> IF k = key THEN node ELSE object[k]]
Drop(object, key) == [k \in DOMAIN object \ {key} |-> object[k]]
Retype(node, type) == [node EXCEPT !.type = type]

Artifact(inputs, files) ==
    Node("Object", [inputs |-> Names(inputs), outputs |-> Names(<<"output">>), files |-> Node("Object", files)])
ModelFile == [model |-> Node("RelativePath", "model")]

Root(id, family, framework, mode, nms) ==
    [schema_version |-> Int32(1), id |-> [type |-> "String", v |-> id, plain |-> TRUE], display_name |-> Str("Name"),
     family |-> Str(family), source_framework |-> Str(framework), variant |-> Str("n"), class_count |-> Int32(2),
     supported_backends |-> Names(<<"onnxruntime">>), default_backend |-> Str("onnxruntime"),
     deployment_validated |-> Node("Boolean", TRUE),
     input |-> Node("Object", [name |-> Str("image"), width |-> Int32(8), height |-> Int32(8), color_order |-> Str("RGB"),
                               layout |-> Str("CHW"), dtype |-> Str("FP32")]),
     preprocess |-> Node("Object", [resize |-> Str("direct"), pad_value |-> Int32(0), scale |-> Int32(1),
                                    mean |-> Node("Triplet", <<0, 0, 0>>), std |-> Node("Triplet", <<1, 1, 1>>)]),
     postprocess |-> Node("Object", [mode |-> Str(mode), requires_nms |-> Node("Boolean", nms),
                                     confidence_threshold |-> Int32(25), iou_threshold |-> Node("Number", 45),
                                     reg_max |-> Int32(7), strides |-> Node("Integers", <<8>>)]),
     labels |-> Str("labels.txt"),
     artifacts |-> Node("Object", [onnxruntime |-> Artifact(<<"image">>, ModelFile)])]

File(root, labels) == [state |-> "object", root |-> root, labels |-> labels]
TwoLabels == <<"cat", "", "dog">>
=============================================================================
