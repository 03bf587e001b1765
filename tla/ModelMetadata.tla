---------------------------- MODULE ModelMetadata ----------------------------
(***************************************************************************)
(* What loadModelSpec and validateModelSpec (core/model_registry/          *)
(* model_registry.cpp) make of one model.json.  A parsed object is a       *)
(* function from its keys to nodes [type, v]; thresholds are in percent, a  *)
(* number of FloatLimit or more is infinite once converted to a float.      *)
(***************************************************************************)
EXTENDS Integers, Sequences, FiniteSets, SequencesExt, Functions

CONSTANT FloatLimit   \* bound beyond which a JSON number is no finite float

ASSUME MetadataAssumption == FloatLimit \in Nat \ {0}

Blank == ""
Families == {"nanodet", "picodet", "yolo26"}
Frameworks == {"pytorch", "paddlepaddle"}

\* What the typed getters accept: an integer is also a number.
Fits(node, kind) == node.type = kind \/ (kind = "Number" /\ node.type = "Integer")
Has(object, key, kind) == key \in DOMAIN object /\ Fits(object[key], kind)
HasAll(object, kinds) == \A key \in DOMAIN kinds : Has(object, key, kinds[key])
Optional(object, key, kind) == key \in DOMAIN object => Fits(object[key], kind)

RootKeys == [schema_version |-> "Integer", id |-> "String", display_name |-> "String", family |-> "String",
             source_framework |-> "String", variant |-> "String", class_count |-> "Integer",
             supported_backends |-> "Strings", default_backend |-> "String", deployment_validated |-> "Boolean"]
InputKeys == [name |-> "String", width |-> "Integer", height |-> "Integer", color_order |-> "String",
              layout |-> "String", dtype |-> "String"]
PreprocessKeys == [resize |-> "String", pad_value |-> "Number", scale |-> "Number", mean |-> "Triplet", std |-> "Triplet"]
PostprocessKeys == [mode |-> "String", requires_nms |-> "Boolean", confidence_threshold |-> "Number",
                    iou_threshold |-> "Number", reg_max |-> "Integer", strides |-> "Integers"]
ArtifactKeys == [inputs |-> "Strings", outputs |-> "Strings", files |-> "Object"]

\* The sections before the labels are read: present, of the right types, with the words ODF 0.1 knows.
SectionsParse(root) ==
    /\ HasAll(root, RootKeys)
    /\ root.family.v \in Families /\ root.source_framework.v \in Frameworks
    /\ Has(root, "input", "Object")
    /\ HasAll(root.input.v, InputKeys)
    /\ root.input.v.color_order.v \in {"BGR", "RGB"}
    /\ root.input.v.layout.v = "CHW" /\ root.input.v.dtype.v = "FP32"
    /\ Optional(root.input.v, "auxiliary_inputs", "Strings")
    /\ Has(root, "preprocess", "Object")
    /\ HasAll(root.preprocess.v, PreprocessKeys)
    /\ root.preprocess.v.resize.v \in {"direct", "letterbox"}
    /\ Has(root, "postprocess", "Object")
    /\ HasAll(root.postprocess.v, PostprocessKeys)
    /\ Has(root, "labels", "String")

ArtifactsParse(root) ==
    /\ Has(root, "artifacts", "Object")
    /\ \A backend \in DOMAIN root.artifacts.v :
          LET entry == root.artifacts.v[backend] IN
          /\ entry.type = "Object"
          /\ HasAll(entry.v, ArtifactKeys)
          /\ \A key \in DOMAIN entry.v.files.v : entry.v.files.v[key].type = "RelativePath"

\* readLabels() drops the end of a CR LF line and skips the lines that are then empty.
ReadLabels(lines) == SelectSeq(lines, LAMBDA line : line # Blank)

\* The specification of a file whose sections and artifacts parse.
SpecOf(file) ==
    LET root == file.root  input == root.input.v  pre == root.preprocess.v  post == root.postprocess.v IN
    [schemaVersion |-> root.schema_version.v, id |-> root.id.v,
     named |-> root.id.v # "" /\ root.display_name.v # "" /\ root.variant.v # "", idCharacters |-> root.id.plain,
     family |-> root.family.v, framework |-> root.source_framework.v, classCount |-> root.class_count.v,
     labels |-> ReadLabels(file.labels),
     supportedBackends |-> root.supported_backends.v, defaultBackend |-> root.default_backend.v,
     validated |-> root.deployment_validated.v,
     inputName |-> input.name.v, width |-> input.width.v, height |-> input.height.v, rgb |-> input.color_order.v = "RGB",
     auxiliary |-> IF "auxiliary_inputs" \in DOMAIN input THEN input.auxiliary_inputs.v ELSE <<>>,
     letterbox |-> pre.resize.v = "letterbox", scale |-> pre.scale.v, padValue |-> pre.pad_value.v,
     mean |-> pre.mean.v, std |-> pre.std.v,
     mode |-> post.mode.v, requiresNms |-> post.requires_nms.v, confidence |-> post.confidence_threshold.v,
     iou |-> post.iou_threshold.v, regressionMax |-> post.reg_max.v, strides |-> post.strides.v,
     artifacts |-> [backend \in DOMAIN root.artifacts.v |->
                       [backend |-> backend,
                        files |-> [key \in DOMAIN root.artifacts.v[backend].v.files.v |-> root.artifacts.v[backend].v.files.v[key].v],
                        inputNames |-> root.artifacts.v[backend].v.inputs.v,
                        outputNames |-> root.artifacts.v[backend].v.outputs.v]]]

Finite(number) == number < FloatLimit /\ number > -FloatLimit
Percent(number) == number \in 0..100

BackendsValid(spec) ==
    /\ spec.defaultBackend \in Range(spec.supportedBackends)
    /\ IsInjective(spec.supportedBackends)
    /\ \A backend \in Range(spec.supportedBackends) :
          /\ backend # "" /\ backend \in DOMAIN spec.artifacts
          /\ LET artifact == spec.artifacts[backend] IN
                /\ artifact.backend = backend /\ DOMAIN artifact.files # {}
                /\ artifact.inputNames # <<>> /\ artifact.outputNames # <<>>

ModeValid(spec) ==
    <<spec.family, spec.mode, spec.requiresNms>> \in
        {<<"nanodet", "nanodet_plus_dfl", TRUE>>, <<"picodet", "picodet_paddle_bbox_original", FALSE>>,
         <<"yolo26", "yolo26_end2end", FALSE>>, <<"yolo26", "yolo26_one_to_many", TRUE>>}

SideLimit == 16384
ClassLimit == 100000
LabelsValid(labels, classCount) ==
    /\ classCount \in 1..ClassLimit /\ Len(labels) = classCount
    /\ \A i \in 1..classCount : labels[i] # Blank

PreprocessValid(spec) ==
    /\ Finite(spec.scale) /\ Finite(spec.padValue)
    /\ \A i \in 1..3 : Finite(spec.mean[i]) /\ Finite(spec.std[i]) /\ spec.std[i] # 0

ValidateModelSpec(spec) ==
    /\ spec.schemaVersion = 1 /\ spec.named /\ spec.idCharacters
    /\ (spec.family = "picodet") = (spec.framework = "paddlepaddle")
    /\ spec.width \in 1..SideLimit /\ spec.height \in 1..SideLimit
    /\ LabelsValid(spec.labels, spec.classCount)
    /\ BackendsValid(spec)
    /\ Percent(spec.confidence) /\ Percent(spec.iou)
    /\ PreprocessValid(spec)
    /\ spec.regressionMax \in 1..64
    /\ spec.strides # <<>> /\ \A stride \in Range(spec.strides) : stride > 0
    /\ ModeValid(spec)

\* What loadModelSpec() returns, as its error code or "Ok".
LoadModelSpec(file) ==
    IF file.state = "missing" THEN "FileNotFound"
    ELSE IF file.state # "object" \/ ~SectionsParse(file.root) THEN "InvalidModelConfig"
    ELSE IF file.labels = <<"missing">> THEN "FileNotFound"
    ELSE IF ~ArtifactsParse(file.root) \/ ~ValidateModelSpec(SpecOf(file)) THEN "InvalidModelConfig"
    ELSE "Ok"
=============================================================================
