------------------------ MODULE RuntimeCatalogProofs ------------------------
(***************************************************************************)
(* The registry, the factory and the detector, for all directories,         *)
(* profiles, model files and calls.  The argument: whatever a map of models  *)
(* holds was validated under its id, also while a directory is half read;    *)
(* a loaded model passed the checks of its family, its profile and its       *)
(* session together; and a result is never newer than the load it follows.   *)
(***************************************************************************)
EXTENDS RuntimeCatalog, FiniteSetTheorems, TLAPS

\* Finitely many models, validated, each under its id.
Legal(map) == /\ IsFiniteSet(DOMAIN map)
              /\ \A id \in DOMAIN map : map[id].id = id /\ ValidateModelSpec(map[id])

\* A directory is being read: what is staged are the files before the next one.
Reading ==
    /\ Len(directory) \in Nat /\ DOMAIN directory = 1..Len(directory)
    /\ next \in 1..(Len(directory) + 1)
    /\ \A i \in 1..(next - 1) : LoadModelSpec(directory[i]) = "Ok"
    /\ Legal(staged)
    /\ Registered(staged) = {SpecOf(directory[i]) : i \in 1..(next - 1)}
    /\ Cardinality(DOMAIN staged) = next - 1

RegistryOK ==
    /\ Legal(models)
    /\ status = "loading" => Reading
    /\ status # "loading" => next = 1 /\ staged = NoModels

\* What is loaded passed every check, in the configuration it was loaded with.
Passed(spec) ==
    /\ ValidateModelSpec(spec)
    /\ spec.validated \/ allowUnvalidated
    /\ spec.family = family
    /\ Loadable(spec.artifacts["onnxruntime"], configuration)
    /\ session = OnnxLoad(spec.artifacts["onnxruntime"], configuration)

PipelineOK ==
    /\ model = <<>> => session = NoSession
    /\ model # <<>> => Passed(model[1])
    /\ generation \in Nat /\ result.generation \in 0..generation
    /\ reloaded => result.generation < generation

\* A detector is of the families and the backend of this build.
FactoryOK ==
    /\ backends \subseteq {"onnxruntime"}
    /\ ~detector => model = <<>> /\ generation = 0
    /\ detector => family \in adapters /\ "onnxruntime" \in backends

IInv == RegistryOK /\ PipelineOK /\ FactoryOK

-----------------------------------------------------------------------------
(* The registry. *)

\* The checks of validateModelSpec() that usability rests on.
LEMMA ValidParts ==
    ASSUME NEW spec, ValidateModelSpec(spec)
    PROVE  LabelsValid(spec.labels, spec.classCount) /\ BackendsValid(spec) /\ ModeValid(spec)
BY Zenon DEF ValidateModelSpec

\* Every class has a label.
LEMMA EveryClassLabelled ==
    ASSUME NEW labels, NEW classCount, LabelsValid(labels, classCount)
    PROVE  \A classId \in 0..(classCount - 1) : labels[classId + 1] # Blank
<1>1. classCount \in Int /\ \A i \in 1..classCount : labels[i] # Blank
  BY DEF LabelsValid
<1>2. \A classId \in 0..(classCount - 1) : classId + 1 \in 1..classCount
  BY <1>1
<1> QED BY <1>1, <1>2

\* The mode of postprocessing is one of the family, with its suppression.
LEMMA ModeOfFamily ==
    ASSUME NEW spec, ModeValid(spec)
    PROVE  /\ spec.requiresNms = (spec.mode \in {"nanodet_plus_dfl", "yolo26_one_to_many"})
           /\ spec.family = "nanodet" <=> spec.mode = "nanodet_plus_dfl"
           /\ spec.family = "picodet" <=> spec.mode = "picodet_paddle_bbox_original"
<1>1. \/ spec.family = "nanodet" /\ spec.mode = "nanodet_plus_dfl" /\ spec.requiresNms = TRUE
      \/ spec.family = "picodet" /\ spec.mode = "picodet_paddle_bbox_original" /\ spec.requiresNms = FALSE
      \/ spec.family = "yolo26" /\ spec.mode = "yolo26_end2end" /\ spec.requiresNms = FALSE
      \/ spec.family = "yolo26" /\ spec.mode = "yolo26_one_to_many" /\ spec.requiresNms = TRUE
  BY DEF ModeValid
<1>2. /\ spec.requiresNms \in BOOLEAN
      /\ spec.requiresNms = TRUE <=> spec.mode \in {"nanodet_plus_dfl", "yolo26_one_to_many"}
  BY <1>1
<1>3. spec.requiresNms = (spec.mode \in {"nanodet_plus_dfl", "yolo26_one_to_many"})
  <2> DEFINE suppressed == spec.mode \in {"nanodet_plus_dfl", "yolo26_one_to_many"}
  <2>1. suppressed \in BOOLEAN
    OBVIOUS
  <2>2. spec.requiresNms = TRUE <=> suppressed
    BY <1>2
  <2> HIDE DEF suppressed
  <2>3. spec.requiresNms = suppressed
    BY <1>2, <2>1, <2>2, Zenon
  <2> QED BY <2>3 DEF suppressed
<1>4. /\ spec.family = "nanodet" <=> spec.mode = "nanodet_plus_dfl"
      /\ spec.family = "picodet" <=> spec.mode = "picodet_paddle_bbox_original"
  BY <1>1
<1> QED BY <1>3, <1>4, Zenon

\* What is validated is usable.
LEMMA ValidIsUsable == ASSUME NEW spec, ValidateModelSpec(spec) PROVE Usable(spec)
<1>1. \A i \in DOMAIN spec.supportedBackends : spec.supportedBackends[i] \in DOMAIN spec.artifacts
  BY ValidParts, Zenon DEF BackendsValid, Range
<1> QED BY <1>1, ValidParts, EveryClassLabelled, ModeOfFamily, Zenon DEF Usable

\* Whatever a profile contains, a file that loads makes a valid specification.
LEMMA LoadedIsValid ==
    ASSUME NEW file, LoadModelSpec(file) = "Ok"
    PROVE  ValidateModelSpec(SpecOf(file))
BY DEF LoadModelSpec

\* Nothing is legal.
LEMMA NothingIsLegal == /\ Legal(NoModels) /\ Registered(NoModels) = {}
                        /\ DOMAIN NoModels = {} /\ Cardinality(DOMAIN NoModels) = 0
<1>1. DOMAIN NoModels = {}
  BY DEF NoModels
<1> QED BY <1>1, FS_EmptySet DEF Legal, Registered

\* A map of models with one more.
LEMMA OneMore ==
    ASSUME NEW map, Legal(map), NEW spec, ValidateModelSpec(spec), spec.id \notin DOMAIN map
    PROVE  /\ Legal(With(map, spec))
           /\ Registered(With(map, spec)) = Registered(map) \cup {spec}
           /\ Cardinality(DOMAIN With(map, spec)) = Cardinality(DOMAIN map) + 1
<1> DEFINE more == With(map, spec)
<1>1. /\ DOMAIN more = DOMAIN map \cup {spec.id}
      /\ more[spec.id] = spec
      /\ \A id \in DOMAIN map : more[id] = map[id]
  BY DEF With
<1> HIDE DEF more
<1>2. /\ IsFiniteSet(DOMAIN more)
      /\ Cardinality(DOMAIN more) = Cardinality(DOMAIN map) + 1
  BY <1>1, FS_AddElement DEF Legal
<1>3. Legal(more)
  BY <1>1, <1>2 DEF Legal
<1>4. Registered(more) = Registered(map) \cup {spec}
  BY <1>1 DEF Registered
<1> QED BY <1>2, <1>3, <1>4 DEF more

\* A file is staged.
LEMMA FileStaged ==
    ASSUME RegistryOK, StageFile
    PROVE  RegistryOK'
<1> DEFINE file == directory[next]
<1> USE DEF RegistryOK
<1>1. Reading /\ next <= Len(directory) /\ UNCHANGED models
  BY DEF StageFile
<1>2. ASSUME NEW code, Return(code), code # "loading" PROVE RegistryOK'
  BY <1>1, <1>2 DEF Return, Legal
<1>3. CASE LoadModelSpec(file) # "Ok"
  <2>1. Return(LoadModelSpec(file))
    BY <1>3 DEF StageFile
  <2>2. LoadModelSpec(file) # "loading"
    BY DEF LoadModelSpec
  <2> QED BY <1>2, <2>1, <2>2
<1>4. CASE LoadModelSpec(file) = "Ok" /\ SpecOf(file).id \in DOMAIN staged
  BY <1>4, <1>2 DEF StageFile
<1>5. CASE LoadModelSpec(file) = "Ok" /\ SpecOf(file).id \notin DOMAIN staged
  <2>1. /\ staged' = With(staged, SpecOf(file)) /\ next' = next + 1
        /\ UNCHANGED <<directory, status>> /\ status = "loading"
    BY <1>5 DEF StageFile
  <2>2. /\ Legal(staged') /\ Registered(staged') = Registered(staged) \cup {SpecOf(file)}
        /\ Cardinality(DOMAIN staged') = Cardinality(DOMAIN staged) + 1
    BY <1>1, <1>5, <2>1, OneMore, LoadedIsValid DEF Reading
  <2>3. /\ next \in Nat /\ next' - 1 = next
        /\ 1..next = (1..(next - 1)) \cup {next}
    BY <1>1, <2>1 DEF Reading
  <2>4. Registered(staged') = {SpecOf(directory'[i]) : i \in 1..(next' - 1)}
    BY <1>1, <2>1, <2>2, <2>3 DEF Reading
  <2>5. \A i \in 1..(next' - 1) : LoadModelSpec(directory'[i]) = "Ok"
    BY <1>1, <1>5, <2>1, <2>3 DEF Reading
  <2>6. next' \in 1..(Len(directory') + 1) /\ Cardinality(DOMAIN staged') = next' - 1
    BY <1>1, <2>1, <2>2 DEF Reading
  <2>7. Reading'
    BY <1>1, <2>1, <2>2, <2>4, <2>5, <2>6 DEF Reading
  <2> QED BY <1>1, <2>1, <2>7 DEF Legal
<1> QED BY <1>3, <1>4, <1>5

\* The staged map becomes the registry.
LEMMA DirectoryPublished == ASSUME RegistryOK, Publish PROVE RegistryOK'
<1>1. Reading /\ models' = staged /\ Return("Ok")
  BY DEF RegistryOK, Publish
<1> QED BY <1>1 DEF RegistryOK, Reading, Return, Legal

\* Every call and every file keeps the registry legal.
LEMMA RegistryStep == ASSUME RegistryOK, RegistryNext PROVE RegistryOK'
<1>1. CASE NoDirectory \/ ScanFails
  BY <1>1 DEF NoDirectory, ScanFails, RegistryOK, Legal
<1>2. ASSUME NEW found \in Directories, ScanDirectory(found) PROVE RegistryOK'
  <2>1. CASE found = <<>>
    BY <2>1, <1>2 DEF ScanDirectory, RegistryOK, Legal
  <2>2. CASE found # <<>>
    <3>1. /\ directory' = found /\ status' = "loading" /\ status # "loading"
          /\ UNCHANGED <<models, next, staged>>
      BY <2>2, <1>2 DEF ScanDirectory
    <3>2. next' = 1 /\ staged' = NoModels
      BY <3>1 DEF RegistryOK
    <3>3. Len(found) \in Nat /\ DOMAIN found = 1..Len(found)
      BY DirectoriesAssumption
    <3>4. Reading'
      BY <3>1, <3>2, <3>3, NothingIsLegal DEF Reading, Legal
    <3> QED BY <3>1, <3>4 DEF RegistryOK, Legal
  <2> QED BY <2>1, <2>2
<1>3. ASSUME NEW spec \in Added, Add(spec) PROVE RegistryOK'
  <2>1. CASE ValidateModelSpec(spec) /\ spec.id \notin DOMAIN models
    <3>1. models' = With(models, spec) /\ status' = "Ok" /\ status # "loading"
          /\ UNCHANGED <<directory, next, staged>>
      BY <2>1, <1>3 DEF Add
    <3>2. Legal(models')
      BY <2>1, <3>1, OneMore DEF RegistryOK
    <3> QED BY <3>1, <3>2 DEF RegistryOK
  <2>2. CASE ~(ValidateModelSpec(spec) /\ spec.id \notin DOMAIN models)
    BY <2>2, <1>3 DEF Add, RegistryOK, Legal
  <2> QED BY <2>1, <2>2
<1> QED BY <1>1, <1>2, <1>3, FileStaged, DirectoryPublished DEF RegistryNext

\* A step leaves the models alone, or adds one, or replaces them by the directory.
AllOrNothingStep ==
    /\ models' # models =>
         /\ \A id \in DOMAIN models' : models'[id].id = id /\ Usable(models'[id])
         /\ \/ /\ status = "loading"
               /\ \A i \in DOMAIN directory : LoadModelSpec(directory[i]) = "Ok"
               /\ Registered(models') = Read /\ Cardinality(DOMAIN models') = Len(directory)
            \/ /\ status # "loading"
               /\ Registered(models) \subseteq Registered(models')
               /\ Cardinality(DOMAIN models') = Cardinality(DOMAIN models) + 1
    /\ status = "loading" /\ status' = "Ok" => Registered(models') = Read

\* ... and which of them it was shows.
LEMMA RegistryChanges == ASSUME RegistryOK, RegistryNext PROVE AllOrNothingStep
<1>1. Legal(models')
  BY RegistryStep DEF RegistryOK
<1>2. \A id \in DOMAIN models' : models'[id].id = id /\ Usable(models'[id])
  BY <1>1, ValidIsUsable DEF Legal
<1>3. CASE NoDirectory \/ ScanFails \/ \E found \in Directories : ScanDirectory(found)
  BY <1>3 DEF NoDirectory, ScanFails, ScanDirectory, AllOrNothingStep
<1>4. CASE StageFile
  BY <1>4 DEF StageFile, Return, AllOrNothingStep
<1>5. CASE Publish
  <2>1. /\ Reading /\ models' = staged /\ status = "loading" /\ next > Len(directory)
    BY <1>5 DEF RegistryOK, Publish
  <2>2. next - 1 = Len(directory) /\ DOMAIN directory = 1..(next - 1)
    BY <2>1 DEF Reading
  <2>3. Registered(models') = Read /\ Cardinality(DOMAIN models') = Len(directory)
    BY <2>1, <2>2 DEF Reading, Read
  <2>4. \A i \in DOMAIN directory : LoadModelSpec(directory[i]) = "Ok"
    BY <2>1, <2>2 DEF Reading
  <2> QED BY <1>2, <2>1, <2>3, <2>4 DEF AllOrNothingStep
<1>6. ASSUME NEW spec \in Added, Add(spec), models' # models PROVE AllOrNothingStep
  <2>1. /\ ValidateModelSpec(spec) /\ spec.id \notin DOMAIN models
        /\ models' = With(models, spec) /\ status # "loading"
    BY <1>6 DEF Add
  <2>2. /\ Registered(models') = Registered(models) \cup {spec}
        /\ Cardinality(DOMAIN models') = Cardinality(DOMAIN models) + 1
    BY <2>1, OneMore DEF RegistryOK
  <2> QED BY <1>2, <2>1, <2>2 DEF AllOrNothingStep
<1>7. ASSUME NEW spec \in Added, Add(spec), models' = models PROVE AllOrNothingStep
  BY <1>7 DEF Add, AllOrNothingStep
<1> QED BY <1>3, <1>4, <1>5, <1>6, <1>7 DEF RegistryNext

-----------------------------------------------------------------------------
(* The detector. *)

\* Before anything is detected there is the result of no load.
LEMMA NoResultIsOld == NoResult.generation = 0
BY Zenon DEF NoResult

\* A call of the detector by its owner.
LEMMA PipelineStep ==
    ASSUME PipelineOK, UseDetector
    PROVE  PipelineOK' /\ UNCHANGED family /\ detector
<1>1. CASE Unload
  BY <1>1 DEF Unload, UseDetector, PipelineOK
<1>2. ASSUME NEW spec \in Respecified, LoadRefused(spec)
      PROVE  PipelineOK' /\ UNCHANGED family
  BY <1>2 DEF LoadRefused, pipelineVars, PipelineOK, Passed
<1>3. ASSUME NEW spec \in Respecified, NEW config \in Configurations, LoadFails(spec, config)
      PROVE  PipelineOK' /\ UNCHANGED family
  BY <1>3 DEF LoadFails, PipelineOK
<1>4. ASSUME NEW spec \in Respecified, NEW config \in Configurations, LoadSucceeds(spec, config)
      PROVE  PipelineOK' /\ UNCHANGED family
  <2>1. /\ LoadAllowed(spec) /\ Loadable(spec.artifacts["onnxruntime"], config)
        /\ session' = OnnxLoad(spec.artifacts["onnxruntime"], config)
        /\ model' = <<spec>> /\ generation' = generation + 1 /\ configuration' = config
        /\ UNCHANGED <<family, allowUnvalidated, result>>
    BY <1>4 DEF LoadSucceeds
  <2>2. model'[1] = spec /\ model' # <<>>
    BY <2>1
  <2>3. Passed(model[1])'
    BY <2>1, <2>2 DEF Passed, LoadAllowed
  <2> QED BY <2>1, <2>2, <2>3 DEF PipelineOK
<1>5. ASSUME NEW request \in Requests, DetectFails(request)
      PROVE  PipelineOK' /\ UNCHANGED family
  BY <1>5 DEF DetectFails, pipelineVars, PipelineOK, Passed
<1>6. ASSUME NEW request \in Requests, NEW frameId \in 1..2, DetectSucceeds(frameId, request)
      PROVE  PipelineOK' /\ UNCHANGED family
  <2>1. /\ result'.generation = generation /\ reloaded' = FALSE
        /\ UNCHANGED <<family, allowUnvalidated, model, session, generation, configuration>>
    BY <1>6 DEF DetectSucceeds
  <2> QED BY <2>1 DEF PipelineOK, Passed
<1> QED BY <1>1, <1>2, <1>3, <1>4, <1>5, <1>6 DEF UseDetector, Unload

\* The old detector is destroyed.
LEMMA Destruction == ASSUME Destroyed PROVE PipelineOK' /\ ~detector' /\ model' = <<>> /\ generation' = 0
BY NoResultIsOld DEF Destroyed, PipelineOK

\* A detector is created: its model is registered, so it is valid, and the family
\* and the backend are of this build.
LEMMA Creation ==
    ASSUME IInv, NEW id, NEW backend, NEW config, NEW allow, CreateSucceeds(id, backend, config, allow)
    PROVE  PipelineOK' /\ FactoryOK'
<1>1. backend = "onnxruntime" /\ family' \in adapters /\ backend \in backends
  BY DEF IInv, FactoryOK, CreateSucceeds, Creatable
<1>2. ValidateModelSpec(models[id])
  BY DEF IInv, RegistryOK, Legal, CreateSucceeds, Find
<1>3. /\ models[id].validated \/ allow
      /\ Loadable(models[id].artifacts["onnxruntime"], config)
      /\ family' = models[id].family /\ allowUnvalidated' = allow
      /\ session' = OnnxLoad(models[id].artifacts["onnxruntime"], config)
      /\ model' = <<models[id]>> /\ generation' = 1 /\ configuration' = config
      /\ detector' = TRUE /\ result' = NoResult
      /\ UNCHANGED <<adapters, backends>>
  BY <1>1 DEF CreateSucceeds
<1>4. model'[1] = models[id] /\ model' # <<>>
  BY <1>3
<1>5. Passed(model[1])'
  BY <1>2, <1>3, <1>4 DEF Passed
<1>6. PipelineOK'
  BY <1>3, <1>4, <1>5, NoResultIsOld DEF PipelineOK
<1> QED BY <1>1, <1>3, <1>6 DEF FactoryOK, IInv

\* Every step keeps the invariant.
LEMMA StepKeepsIInv == ASSUME IInv, [CatalogNext]_catalogVars PROVE IInv'
<1>1. ASSUME UNCHANGED registryVars PROVE RegistryOK'
  BY <1>1 DEF IInv, RegistryOK, Reading, Legal, registryVars
<1>2. ASSUME UNCHANGED pipelineVars PROVE PipelineOK'
  BY <1>2 DEF IInv, PipelineOK, Passed, pipelineVars
<1>3. CASE UNCHANGED catalogVars
  BY <1>1, <1>2, <1>3 DEF IInv, FactoryOK, catalogVars, pipelineVars
<1>4. CASE LoadRegistry
  BY <1>2, <1>4, RegistryStep DEF LoadRegistry, IInv, FactoryOK, pipelineVars
<1>5. CASE UseDetector
  <2>1. PipelineOK' /\ UNCHANGED family /\ detector
    BY <1>5, PipelineStep DEF IInv
  <2>2. UNCHANGED <<registryVars, adapters, backends, detector>>
    BY <1>5 DEF UseDetector
  <2> QED BY <1>1, <2>1, <2>2 DEF IInv, FactoryOK
<1>6. ASSUME NEW id \in Ids, NEW backend \in {"onnxruntime", "paddle"},
             NEW config \in Configurations, NEW allow \in BOOLEAN,
             CreateFails(id, backend, config, allow)
      PROVE  IInv'
  <2>1. Destroyed /\ UNCHANGED <<registryVars, adapters, backends, family, allowUnvalidated>>
    BY <1>6 DEF CreateFails
  <2> QED BY <1>1, <2>1, Destruction DEF IInv, FactoryOK
<1>7. ASSUME NEW id \in Ids, NEW backend \in {"onnxruntime", "paddle"},
             NEW config \in Configurations, NEW allow \in BOOLEAN,
             CreateSucceeds(id, backend, config, allow)
      PROVE  IInv'
  <2>1. UNCHANGED registryVars
    BY <1>7 DEF CreateSucceeds
  <2> QED BY <1>1, <1>7, <2>1, Creation DEF IInv
<1> QED BY <1>3, <1>4, <1>5, <1>6, <1>7 DEF CatalogNext

\* Nothing is registered or loaded at first.
LEMMA InitIInv == CatalogInit => IInv
<1> SUFFICES ASSUME CatalogInit PROVE IInv
  OBVIOUS
<1>1. RegistryOK
  BY NothingIsLegal DEF CatalogInit, RegistryInit, RegistryOK
<1>2. PipelineOK
  BY NoResultIsOld DEF CatalogInit, PipelineInit, PipelineOK
<1>3. FactoryOK
  BY DEF CatalogInit, PipelineInit, FactoryOK, Register
<1> QED BY <1>1, <1>2, <1>3 DEF IInv

\* The invariant holds always.
LEMMA Inductive == CatalogSpec => []IInv
<1>1. IInv /\ [CatalogNext]_catalogVars => IInv'
  BY StepKeepsIInv
<1> QED BY <1>1, InitIInv, PTL DEF CatalogSpec

-----------------------------------------------------------------------------
(* The theorems. *)

\* What a session that could be loaded has: the names of the artifact are names of
\* float inputs and outputs of its graph.
LEMMA SessionHasNames ==
    ASSUME NEW artifact, NEW config, Loadable(artifact, config)
    PROVE  LET graph == OnnxLoad(artifact, config).graph[1]
           IN  /\ config = CpuFp32
               /\ \A name \in Range(artifact.inputNames) :
                     \E port \in Range(graph.inputs) : port.name = name /\ port.float
               /\ \A name \in Range(artifact.outputNames) :
                     \E port \in Range(graph.outputs) : port.name = name /\ port.float
<1> DEFINE graph == Disk[artifact.files["model"]][1]
<1>1. OnnxLoad(artifact, config).graph[1] = graph
  BY DEF OnnxLoad
<1>2. /\ \A port \in Range(graph.inputs) \cup Range(graph.outputs) : port.float
      /\ Range(artifact.inputNames) \subseteq Range(NamesOf(graph.inputs))
      /\ Range(artifact.outputNames) \subseteq Range(NamesOf(graph.outputs))
      /\ config = CpuFp32
  BY DEF Loadable, CpuFp32
<1> HIDE DEF graph
<1>3. ASSUME NEW ports, NEW name \in Range(NamesOf(ports))
      PROVE  \E port \in Range(ports) : port.name = name
  BY DEF Range, NamesOf
<1> QED BY <1>1, <1>2, <1>3

\* A loaded detector passed every documented check, whatever was loaded, refused,
\* failed or unloaded before.
THEOREM LoadedDetectorPassed == CatalogSpec => []LoadedAsDocumented
<1>1. IInv => LoadedAsDocumented
  <2> SUFFICES ASSUME IInv PROVE LoadedAsDocumented
    OBVIOUS
  <2>1. ModelMatchesSession
    BY DEF IInv, PipelineOK, Passed, ModelMatchesSession
  <2>2. CASE model = <<>>
    BY <2>1, <2>2 DEF IInv, FactoryOK, LoadedAsDocumented
  <2>3. CASE model # <<>>
    <3>1. Passed(model[1]) /\ detector
      BY <2>3 DEF IInv, PipelineOK, FactoryOK
    <3>2. /\ configuration = CpuFp32
          /\ \A name \in Range(model[1].artifacts["onnxruntime"].inputNames) :
                \E port \in Range(session.graph[1].inputs) : port.name = name /\ port.float
          /\ \A name \in Range(model[1].artifacts["onnxruntime"].outputNames) :
                \E port \in Range(session.graph[1].outputs) : port.name = name /\ port.float
      BY <3>1, SessionHasNames DEF Passed
    <3> QED BY <2>1, <2>3, <3>1, <3>2 DEF IInv, FactoryOK, Passed, LoadedAsDocumented
  <2> QED BY <2>2, <2>3
<1> QED BY <1>1, Inductive, PTL

\* A result from before the last load is never taken for a current one.
THEOREM StaleResultsRejected == CatalogSpec => []StaleResultRejected
<1>1. IInv => StaleResultRejected
  BY DEF IInv, PipelineOK, StaleResultRejected, IsCurrentResult
<1> QED BY <1>1, Inductive, PTL

\* Loading a directory is all or nothing, adding a model adds one and replaces none,
\* and what is registered is usable.
THEOREM RegistryAllOrNothing == CatalogSpec => AllOrNothing
<1>1. ASSUME IInv, [CatalogNext]_catalogVars PROVE [AllOrNothingStep]_registryVars
  <2>1. CASE LoadRegistry
    BY <1>1, <2>1, RegistryChanges DEF LoadRegistry, IInv
  <2>2. CASE ~LoadRegistry
    BY <1>1, <2>2 DEF CatalogNext, UseDetector, CreateFails, CreateSucceeds, catalogVars
  <2> QED BY <2>1, <2>2
<1>2. IInv /\ [CatalogNext]_catalogVars => [AllOrNothingStep]_registryVars
  BY <1>1
<1> QED BY <1>2, Inductive, PTL DEF CatalogSpec, AllOrNothing, AllOrNothingStep
=============================================================================
