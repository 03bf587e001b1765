---------------------------- MODULE ModelRegistry ----------------------------
(***************************************************************************)
(* ModelRegistry (core/model_registry/model_registry.cpp): loadDirectory   *)
(* reads the model.json files of a directory one by one into a staged map   *)
(* and swaps it in at the end; add registers one specification.             *)
(***************************************************************************)
EXTENDS ModelMetadata

CONSTANTS
    Directories, \* what a scan may find: sequences of model.json files
    Added,       \* the specifications a caller may add
    MaxCalls     \* bound on the calls of loadDirectory and add

ASSUME DirectoriesAssumption ==
    \A found \in Directories : Len(found) \in Nat /\ DOMAIN found = 1..Len(found)

VARIABLES
    models,      \* models_: from ids to specifications
    directory,   \* the files loadDirectory() found, in the order of their paths
    next,        \* index of the file it reads next
    staged,      \* staged
    status,      \* "Ok", an error code, or "loading" during loadDirectory()
    calls

registryVars == <<models, directory, next, staged, status, calls>>

NoModels == [id \in {} |-> 0]

With(map, spec) == [id \in DOMAIN map \cup {spec.id} |-> IF id = spec.id THEN spec ELSE map[id]]

RegistryInit ==
    /\ models = NoModels /\ staged = NoModels
    /\ directory = <<>> /\ next = 1 /\ status = "Ok" /\ calls = 0

\* loadDirectory() up to its loop.
NoDirectory ==
    /\ status # "loading" /\ calls < MaxCalls
    /\ status' = "FileNotFound" /\ calls' = calls + 1
    /\ UNCHANGED <<models, directory, next, staged>>

ScanFails ==
    /\ status # "loading" /\ calls < MaxCalls
    /\ status' = "InvalidModelConfig" /\ calls' = calls + 1
    /\ UNCHANGED <<models, directory, next, staged>>

ScanDirectory(found) ==
    /\ status # "loading" /\ calls < MaxCalls
    /\ calls' = calls + 1
    /\ IF found = <<>>
         THEN status' = "InvalidModelConfig" /\ UNCHANGED directory
         ELSE status' = "loading" /\ directory' = found
    /\ UNCHANGED <<models, next, staged>>

\* loadDirectory() returns: its local variables are gone.
Return(code) == status' = code /\ directory' = <<>> /\ next' = 1 /\ staged' = NoModels

\* A faulty variant: every profile that can be read is registered at once.
StageFileInPlace ==
    /\ status = "loading" /\ next <= Len(directory)
    /\ LET file == directory[next] IN
       IF LoadModelSpec(file) # "Ok"
         THEN Return(LoadModelSpec(file)) /\ UNCHANGED models
         ELSE /\ models' = With(models, SpecOf(file)) /\ staged' = With(staged, SpecOf(file)) /\ next' = next + 1
              /\ UNCHANGED <<directory, status>>
    /\ UNCHANGED calls

\* One turn of the loop over the files.
StageFile ==
    /\ status = "loading" /\ next <= Len(directory)
    /\ LET file == directory[next] IN
       IF LoadModelSpec(file) # "Ok"
         THEN Return(LoadModelSpec(file))
         ELSE IF SpecOf(file).id \in DOMAIN staged
           THEN Return("InvalidModelConfig")
           ELSE staged' = With(staged, SpecOf(file)) /\ next' = next + 1 /\ UNCHANGED <<directory, status>>
    /\ UNCHANGED <<models, calls>>

Publish ==
    /\ status = "loading" /\ next > Len(directory)
    /\ models' = staged /\ Return("Ok")
    /\ UNCHANGED calls

Add(spec) ==
    /\ status # "loading" /\ calls < MaxCalls
    /\ calls' = calls + 1
    /\ IF ValidateModelSpec(spec) /\ spec.id \notin DOMAIN models
         THEN models' = With(models, spec) /\ status' = "Ok"
         ELSE UNCHANGED models /\ status' = "InvalidModelConfig"
    /\ UNCHANGED <<directory, next, staged>>

RegistryNext ==
    \/ NoDirectory \/ ScanFails \/ StageFile \/ Publish
    \/ \E found \in Directories : ScanDirectory(found)
    \/ \E spec \in Added : Add(spec)

Find(id) == id \in DOMAIN models

-----------------------------------------------------------------------------
\* A registered model can be created and decoded on every backend it supports: the artifact is there, every
\* class a decoder may report has a label, and the decoder of its family knows its mode.
Usable(spec) ==
    /\ \A i \in DOMAIN spec.supportedBackends : spec.supportedBackends[i] \in DOMAIN spec.artifacts
    /\ \A classId \in 0..(spec.classCount - 1) : spec.labels[classId + 1] # Blank
    /\ spec.requiresNms = (spec.mode \in {"nanodet_plus_dfl", "yolo26_one_to_many"})
    /\ spec.family = "nanodet" <=> spec.mode = "nanodet_plus_dfl"
    /\ spec.family = "picodet" <=> spec.mode = "picodet_paddle_bbox_original"

\* loadDirectory() is all or nothing: the registry becomes exactly the profiles of the directory, each of
\* them loadable and under an id of its own, or is left alone and success is not reported; add() adds one
\* model and replaces none.  Whatever is registered is usable.
Registered(map) == {map[id] : id \in DOMAIN map}
Read == {SpecOf(directory[i]) : i \in DOMAIN directory}
AllOrNothing ==
    [][ /\ models' # models =>
             /\ \A id \in DOMAIN models' : models'[id].id = id /\ Usable(models'[id])
             /\ \/ /\ status = "loading"
                   /\ \A i \in DOMAIN directory : LoadModelSpec(directory[i]) = "Ok"
                   /\ Registered(models') = Read /\ Cardinality(DOMAIN models') = Len(directory)
                \/ /\ status # "loading"
                   /\ Registered(models) \subseteq Registered(models')
                   /\ Cardinality(DOMAIN models') = Cardinality(DOMAIN models) + 1
        /\ status = "loading" /\ status' = "Ok" => Registered(models') = Read ]_registryVars
=============================================================================
