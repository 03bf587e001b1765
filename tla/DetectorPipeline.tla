--------------------------- MODULE DetectorPipeline ---------------------------
(***************************************************************************)
(* DetectorPipeline (core/pipeline/detector_pipeline.cpp): one adapter, one  *)
(* backend, at most one loaded model.  Every call holds mutex_ from its      *)
(* beginning to its end, so a call is one step.                              *)
(***************************************************************************)
EXTENDS ModelMetadata, OnnxBackend

CONSTANTS
    Decoded,          \* what adapters make of an output: sequences of class ids
    Requests,         \* options of detect(): [valid, selected, maxDetections]
    MaxLoads          \* bound on the loads that succeed

VARIABLES
    family,           \* the family of adapter_
    allowUnvalidated, \* allowUnvalidatedModel_
    model,            \* model_: <<>> or the specification it points to
    session,          \* the state of backend_
    generation,       \* generation_
    configuration,    \* the BackendConfig of the last load
    result,           \* the last DetectionResult
    reloaded          \* whether a model was loaded after it

pipelineVars == <<family, allowUnvalidated, model, session, generation, configuration, result, reloaded>>

CpuFp32 == [device |-> "CPU", precision |-> "FP32"]
Configurations == {CpuFp32, [device |-> "GPU", precision |-> "FP32"], [device |-> "CPU", precision |-> "FP16"]}
NoResult == [frameId |-> 0, generation |-> 0, modelId |-> "", classes |-> <<>>]

PipelineInit ==
    /\ family \in Families /\ allowUnvalidated \in BOOLEAN
    /\ model = <<>> /\ session = NoSession /\ generation = 0
    /\ configuration = CpuFp32 /\ result = NoResult /\ reloaded = FALSE

\* The checks of load() before it touches the backend, whose info() always says available.
LoadAllowed(spec) ==
    /\ ValidateModelSpec(spec)
    /\ spec.validated \/ allowUnvalidated
    /\ family = spec.family
    /\ "onnxruntime" \in DOMAIN spec.artifacts

LoadRefused(spec) ==
    /\ ~LoadAllowed(spec)
    /\ UNCHANGED pipelineVars

\* A faulty variant: the model of the unloaded session is kept.
LoadFailsKeepingModel(spec, config) ==
    /\ LoadAllowed(spec)
    /\ ~Loadable(spec.artifacts["onnxruntime"], config)
    /\ session' = NoSession
    /\ UNCHANGED <<family, allowUnvalidated, model, generation, configuration, result, reloaded>>

\* load() from its backend_->unload() on.
LoadFails(spec, config) ==
    /\ LoadAllowed(spec)
    /\ ~Loadable(spec.artifacts["onnxruntime"], config)
    /\ model' = <<>> /\ session' = NoSession
    /\ UNCHANGED <<family, allowUnvalidated, generation, configuration, result, reloaded>>

\* A faulty variant: the generation stays.
LoadSucceedsUncounted(spec, config) ==
    /\ LoadAllowed(spec)
    /\ Loadable(spec.artifacts["onnxruntime"], config)
    /\ session' = OnnxLoad(spec.artifacts["onnxruntime"], config)
    /\ model' = <<spec>> /\ configuration' = config /\ reloaded' = TRUE
    /\ UNCHANGED <<family, allowUnvalidated, generation, result>>

LoadSucceeds(spec, config) ==
    /\ LoadAllowed(spec)
    /\ Loadable(spec.artifacts["onnxruntime"], config)
    /\ generation < MaxLoads
    /\ session' = OnnxLoad(spec.artifacts["onnxruntime"], config)
    /\ model' = <<spec>> /\ generation' = generation + 1 /\ configuration' = config /\ reloaded' = TRUE
    /\ UNCHANGED <<family, allowUnvalidated, result>>

Unload ==
    /\ session' = NoSession /\ model' = <<>>
    /\ UNCHANGED <<family, allowUnvalidated, generation, configuration, result, reloaded>>

\* The tensors of adapter_->preprocess(): the image, and for PicoDet the auxiliary inputs its profile names.
Tensors(spec) ==
    <<[name |-> spec.inputName, shape |-> <<1, 3, spec.height, spec.width>>]>>
      \o (IF spec.family = "picodet"
            THEN [i \in DOMAIN spec.auxiliary |-> [name |-> spec.auxiliary[i], shape |-> <<1, 2>>]]
            ELSE <<>>)
PreprocessSucceeds(spec) ==
    spec.family = "picodet" => Range(spec.auxiliary) \subseteq {"im_shape", "scale_factor"}

OptionsValid(spec, request) ==
    /\ request.valid
    /\ IsInjective(request.selected) /\ Range(request.selected) \subseteq 0..(spec.classCount - 1)

FilterSelectedClasses(classes, selected) ==
    IF selected = <<>> THEN classes ELSE SelectSeq(classes, LAMBDA class : class \in Range(selected))
Capped(classes, maximum) == IF Len(classes) > maximum THEN SubSeq(classes, 1, maximum) ELSE classes

\* No model, bad options, a tensor the session refuses, a graph or a decoder that fails, or an exception.
DetectFails(request) == UNCHANGED pipelineVars

DetectSucceeds(frameId, request) ==
    /\ model # <<>>
    /\ OptionsValid(model[1], request) /\ PreprocessSucceeds(model[1])
    /\ InferSucceeds(session, Tensors(model[1]))
    /\ \E classes \in {c \in Decoded : Range(c) \subseteq 0..(model[1].classCount - 1)} :
          result' = [frameId |-> frameId, generation |-> generation, modelId |-> model[1].id,
                     classes |-> Capped(FilterSelectedClasses(classes, request.selected), request.maxDetections)]
    /\ reloaded' = FALSE
    /\ UNCHANGED <<family, allowUnvalidated, model, session, generation, configuration>>

IsCurrentResult(r, frameId, expected, id) ==
    r.frameId = frameId /\ r.generation = expected /\ r.modelId = id

-----------------------------------------------------------------------------
\* What is loaded is one thing: the session in the backend is the one that loading this model's artifact
\* with this configuration makes, and there is no session without a model.
ModelMatchesSession ==
    session = IF model = <<>> THEN NoSession ELSE OnnxLoad(model[1].artifacts["onnxruntime"], configuration)

\* isCurrentResult() rejects every result from before the last load, even of the same frame and model; the
\* generations are those of one detector.
StaleResultRejected ==
    reloaded /\ model # <<>> =>
        ~IsCurrentResult(result, result.frameId, generation, model[1].id)
=============================================================================
