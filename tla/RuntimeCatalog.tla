---------------------------- MODULE RuntimeCatalog ----------------------------
(***************************************************************************)
(* RuntimeCatalog (applications/common/runtime_catalog.cpp): the registry,   *)
(* the DetectorFactory with the adapters and backends of this build, and     *)
(* the detector last created with them.                                      *)
(***************************************************************************)
EXTENDS ModelRegistry, DetectorPipeline

CONSTANTS
    Ids,          \* the model ids that a user may name
    Respecified   \* the specifications that a caller of load() may bring

VARIABLES
    adapters,     \* DetectorFactory::adapters_: the families that have a creator
    backends,     \* DetectorFactory::backends_: the names that have a creator
    detector      \* whether there is a created detector: the state of DetectorPipeline

catalogVars == <<registryVars, pipelineVars, adapters, backends, detector>>

\* registerAdapter() and registerBackend() refuse a key that is taken.
Register(registered, key) == IF key \in registered THEN registered ELSE registered \cup {key}

CatalogInit ==
    /\ RegistryInit /\ PipelineInit /\ detector = FALSE
    /\ adapters = Register(Register(Register({}, "nanodet"), "yolo26"), "picodet")
    /\ backends \in {{}, Register({}, "onnxruntime")}   \* built without and with ONNX Runtime

\* The clients load the registry before they create a detector from it.
LoadRegistry == ~detector /\ RegistryNext /\ UNCHANGED <<pipelineVars, adapters, backends, detector>>

\* DetectorFactory::create()
Creatable(spec, backend) ==
    backend \in Range(spec.supportedBackends) /\ spec.family \in adapters /\ backend \in backends

Destroyed == model' = <<>> /\ session' = NoSession /\ generation' = 0 /\ configuration' = CpuFp32
             /\ result' = NoResult /\ reloaded' = FALSE /\ detector' = FALSE

\* createLoadedDetector(): the caller gives up its detector first (InferenceWorker::run) and gets the new
\* one only when it could be created and loaded.
CreateFails(id, backend, config, allow) ==
    /\ status # "loading"
    /\ \/ ~Find(id)
       \/ Find(id) /\ ~Creatable(models[id], backend)
       \/ /\ Find(id) /\ Creatable(models[id], backend)
          /\ ~(models[id].validated \/ allow) \/ ~Loadable(models[id].artifacts[backend], config)
    /\ Destroyed
    /\ UNCHANGED <<registryVars, adapters, backends, family, allowUnvalidated>>

CreateSucceeds(id, backend, config, allow) ==
    /\ status # "loading"
    /\ Find(id) /\ Creatable(models[id], backend)
    /\ models[id].validated \/ allow
    /\ Loadable(models[id].artifacts[backend], config)
    /\ family' = models[id].family /\ allowUnvalidated' = allow
    /\ session' = OnnxLoad(models[id].artifacts[backend], config)
    /\ model' = <<models[id]>> /\ generation' = 1 /\ configuration' = config /\ detector' = TRUE
    /\ result' = NoResult /\ reloaded' = TRUE
    /\ UNCHANGED <<registryVars, adapters, backends>>

\* The calls of IDetector by the detector's owner.
UseDetector ==
    /\ detector /\ status # "loading"
    /\ \/ Unload
       \/ \E spec \in Respecified, config \in Configurations :
             LoadRefused(spec) \/ LoadFails(spec, config) \/ LoadSucceeds(spec, config)
       \/ \E request \in Requests : DetectFails(request) \/ \E frameId \in 1..2 : DetectSucceeds(frameId, request)
    /\ UNCHANGED <<registryVars, adapters, backends, detector>>

CatalogNext ==
    \/ LoadRegistry \/ UseDetector
    \/ \E id \in Ids, backend \in {"onnxruntime", "paddle"}, config \in Configurations, allow \in BOOLEAN :
          CreateFails(id, backend, config, allow) \/ CreateSucceeds(id, backend, config, allow)

CatalogSpec == CatalogInit /\ [][CatalogNext]_catalogVars

-----------------------------------------------------------------------------
\* A loaded detector passed the checks that docs/En/architecture.md lists under "Registry and detector
\* creation", whatever was loaded, refused, failed or unloaded before, and its session is of its model.
LoadedAsDocumented ==
    /\ ModelMatchesSession
    /\ ~detector => model = <<>> /\ generation = 0
    /\ model # <<>> =>
        LET artifact == model[1].artifacts["onnxruntime"]  graph == session.graph[1] IN
        /\ ValidateModelSpec(model[1])
        /\ model[1].validated \/ allowUnvalidated
        /\ model[1].family = family /\ family \in adapters
        /\ "onnxruntime" \in backends
        /\ configuration = CpuFp32
        /\ \A name \in Range(artifact.inputNames) : \E port \in Range(graph.inputs) : port.name = name /\ port.float
        /\ \A name \in Range(artifact.outputNames) : \E port \in Range(graph.outputs) : port.name = name /\ port.float
=============================================================================
