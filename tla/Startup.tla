------------------------------- MODULE Startup -------------------------------
(***************************************************************************)
(* A desktop application from its start to its end, again and again: main() *)
(* and ApplicationBootstrap, AppController::initialize(), the combo boxes   *)
(* of MainWindow, the devices of CameraDeviceService, and the settings that *)
(* one run leaves for the next.  Loading and detecting are left out.        *)
(***************************************************************************)
EXTENDS CommandLine, Functions, Subsequences

CONSTANTS
    CommandLines,   \* the argument lists the program may be started with
    Worlds          \* [withMetadata, environment, registries, backends, devices]: what a start may find

\* A catalog lists a map of models, a root that holds a model.json can be loaded or not, and backends,
\* models and devices have names.
IsSequence(s) == s \in Seq(Range(s))
IsCatalog(catalog) ==
    /\ IsSequence(catalog)
    /\ \A m \in Range(catalog) : m.id # Absent /\ IsSequence(m.supported)
    /\ \A i, j \in DOMAIN catalog : catalog[i].id = catalog[j].id => i = j
AreDevices(found) == IsSequence(found) /\ \A d \in Range(found) : d.named \in BOOLEAN /\ (d.named => d.id # Absent)
IsWorld(w) ==
    /\ DOMAIN w = {"withMetadata", "environment", "registries", "backends", "devices"}
    /\ NoRoot \notin w.withMetadata /\ \A r \in w.withMetadata : IsCatalog(w.registries[r])
    /\ Absent \notin w.backends /\ AreDevices(w.devices)

ASSUME WorldsAssumption == \A w \in Worlds : IsWorld(w)

VARIABLES
    phase,      \* "ended", "noController", "failed" or "running"
    world,      \* what this start has found
    commandLine, \* commandLine_
    store,      \* QSettings
    models,     \* MainWindow::models_: the catalog, [id, supported, default]
    model,      \* the current entry of the model combo box, or Absent
    backends,   \* the entries of the backend combo box
    backend,    \* its current entry, or Absent
    devices,    \* cameraDevices_: [id, index]
    camera,     \* the current entry of the camera combo box, or Absent
    threshold,  \* the confidence of its spin box
    root,       \* modelRoot_
    last        \* history: what the window showed, of which build, when the application was last closed

windowVars == <<models, model, backends, backend, devices, camera, threshold, root>>
startupVars == <<phase, world, commandLine, store, windowVars, last>>
Window == [models |-> models, model |-> model, backend |-> backend, devices |-> devices, camera |-> camera, threshold |-> threshold]
Seen == [window |-> Window, available |-> world.backends]

\* An empty string is stored for what the window does not show.
Stored(m, b, c, legacy, t, r) == [model |-> m, backend |-> b, camera |-> c, legacy |-> legacy, confidence |-> t, root |-> r]
FirstStore == Stored("yolo26n", "onnxruntime", Absent, NoNumber, 25, Absent)

NoWindow ==
    /\ models' = <<>> /\ model' = Absent /\ backends' = <<>> /\ backend' = Absent /\ devices' = <<>>
    /\ camera' = Absent /\ threshold' = 25 /\ root' = NoRoot

StartupInit ==
    /\ phase = "ended" /\ commandLine = NoOptions /\ world \in Worlds
    /\ store \in {FirstStore, [FirstStore EXCEPT !.legacy = 1]}
    /\ models = <<>> /\ model = Absent /\ backends = <<>> /\ backend = Absent /\ devices = <<>>
    /\ camera = Absent /\ threshold = 25 /\ root = NoRoot /\ last = Seen

Ids(catalog) == [i \in DOMAIN catalog |-> catalog[i].id]
ModelOf(catalog, id) == CHOOSE m \in Range(catalog) : m.id = id

\* A faulty variant: backends that this build does not have are offered.
BackendsOfAnyBuild(catalog, id, available) ==
    IF id \in Range(Ids(catalog)) THEN ModelOf(catalog, id).supported ELSE <<>>

\* MainWindow: rebuildBackends() for a model, keeping the backend if it can be kept.
BackendsOf(catalog, id, available) ==
    IF id \in Range(Ids(catalog)) THEN KeepIn(ModelOf(catalog, id).supported, available) ELSE <<>>
Kept(entries, previous, default) ==
    IF previous \in Range(entries) THEN previous
    ELSE IF default \in Range(entries) THEN default
    ELSE IF entries = <<>> THEN Absent ELSE entries[1]
Rebuilt(catalog, id, available, previous) ==
    IF id \in Range(Ids(catalog)) THEN Kept(BackendsOf(catalog, id, available), previous, ModelOf(catalog, id).default)
    ELSE Absent

\* setCatalog() selects the first model, selectModel() and selectBackend() another one that is there.
Selected(entries, wanted, current) == IF wanted \in Range(entries) THEN wanted ELSE current
Given(option, setting) == IF option = Absent THEN setting ELSE option
SetCatalog(catalog, available, wantedModel, wantedBackend) ==
    LET first == IF catalog = <<>> THEN Absent ELSE catalog[1].id
        id == Selected(Ids(catalog), wantedModel, first)
        entries == BackendsOf(catalog, id, available)
        byModel == Rebuilt(catalog, id, available, Rebuilt(catalog, first, available, Absent))
    IN /\ models' = catalog /\ model' = id
       /\ backends' = entries /\ backend' = Selected(entries, wantedBackend, byModel)

\* CameraDeviceService::preferredDeviceIndex(): the stable identity, the legacy index, the first device.
DeviceIds(list) == {d.id : d \in Range(list)}
Preferred(list, id, legacy) ==
    IF id \in DeviceIds(list) THEN id
    ELSE IF \E d \in Range(list) : d.index = legacy THEN (CHOOSE d \in Range(list) : d.index = legacy).id
    ELSE IF list = <<>> THEN Absent ELSE list[1].id

\* enumerate() skips a device without name or identity and one it has already seen; the index of a
\* device is its place among all of them.
Discovered(found) == {i \in DOMAIN found : found[i].named /\ \A j \in 1..(i - 1) : found[j].named => found[j].id # found[i].id}
Enumerated(found) ==
    LET places == KeepIn([i \in DOMAIN found |-> i], Discovered(found))
    IN [k \in DOMAIN places |-> [id |-> found[places[k]].id, index |-> places[k] - 1]]

\* enumerateCameraDevices(): the preferred device is selected, none if the enumeration fails.
Enumerate(found, id, legacy) ==
    \/ devices' = Enumerated(found) /\ camera' = Preferred(Enumerated(found), id, legacy)
    \/ devices' = <<>> /\ camera' = Absent

\* main() and run(): which root the controller is given.  The picker is offered when none was found.
SavedRoot(w, o) ==
    LET found == DiscoverModelRoot(o.models, w.environment, w.withMetadata) IN
    IF found = NoRoot /\ o.models = Absent /\ w.environment = Absent /\ store.root # Absent
      THEN DiscoverModelRoot(store.root, Absent, w.withMetadata) ELSE found
Root(w, o, picked) ==
    IF SavedRoot(w, o) # NoRoot \/ picked = Absent THEN SavedRoot(w, o) ELSE DiscoverModelRoot(picked, Absent, w.withMetadata)

StartProgram(arguments) == phase = "ended" /\ commandLine' = ParseCommandLine(arguments).options

\* A bad or a help command line, or log level: the program ends with nothing changed.
Proceeds(arguments) ==
    LET parsed == ParseCommandLine(arguments) IN parsed.ok /\ ~parsed.options.help /\ parsed.options.logLevel \in LogLevels
LaunchRefused(arguments) ==
    /\ phase = "ended" /\ ~Proceeds(arguments)
    /\ UNCHANGED startupVars

LaunchWithoutRoot(arguments, found, picked) ==
    /\ StartProgram(arguments) /\ Proceeds(arguments) /\ world' = found
    /\ Root(found, commandLine', picked) = NoRoot
    /\ phase' = "noController"
    /\ UNCHANGED <<store, windowVars, last>>

\* initialize() returns early when the registry cannot be loaded: no catalog, no workers, no connections.
InitializeFails(arguments, found, picked) ==
    /\ StartProgram(arguments) /\ Proceeds(arguments) /\ world' = found
    /\ root' = Root(found, commandLine', picked)
    /\ root' # NoRoot /\ found.registries[root'] = <<>>
    /\ phase' = "failed"
    /\ UNCHANGED <<store, models, model, backends, backend, devices, camera, threshold, last>>

Initialize(arguments, found, picked) ==
    /\ StartProgram(arguments) /\ Proceeds(arguments) /\ world' = found
    /\ root' = Root(found, commandLine', picked)
    /\ root' # NoRoot /\ found.registries[root'] # <<>>
    /\ SetCatalog(found.registries[root'], found.backends, Given(commandLine'.model, store.model), Given(commandLine'.backend, store.backend))
    /\ threshold' = IF commandLine'.confidence = NoNumber THEN store.confidence ELSE commandLine'.confidence
    /\ Enumerate(found.devices, store.camera, IF commandLine'.camera # NoNumber THEN commandLine'.camera ELSE store.legacy)
    /\ phase' = "running"
    /\ UNCHANGED <<store, last>>

\* What the user does in the window.
ChooseModel(id) ==
    /\ phase = "running" /\ id \in Range(Ids(models)) /\ id # model
    /\ model' = id
    /\ backends' = BackendsOf(models, id, world.backends)
    /\ backend' = Rebuilt(models, id, world.backends, backend)
    /\ UNCHANGED <<phase, world, commandLine, store, models, devices, camera, threshold, root, last>>
ChooseBackend(name) ==
    /\ phase = "running" /\ name \in Range(backends) /\ backend' = name
    /\ UNCHANGED <<phase, world, commandLine, store, models, model, backends, devices, camera, threshold, root, last>>
ChooseCamera(id) ==
    /\ phase = "running" /\ id \in DeviceIds(devices) /\ camera' = id
    /\ UNCHANGED <<phase, world, commandLine, store, models, model, backends, backend, devices, threshold, root, last>>
EditThreshold ==
    /\ phase = "running" /\ threshold' = 40
    /\ UNCHANGED <<phase, world, commandLine, store, models, model, backends, backend, devices, camera, root, last>>
\* Refresh enumerates again with the selected device preferred.
Refresh(seen) ==
    /\ phase = "running"
    /\ world' = [world EXCEPT !.devices = seen]
    /\ Enumerate(seen, camera, NoNumber)
    /\ UNCHANGED <<phase, commandLine, store, models, model, backends, backend, threshold, root, last>>

\* A faulty variant: the backend is not stored.
PersistWithoutBackend ==
    store' = Stored(model, store.backend, camera, NoNumber, IF phase = "running" THEN threshold ELSE store.confidence, root)

\* shutdown() through the window or the destructor: persistSettings() stores what the window shows.  The
\* thresholds are those of settings_, which follow the spin boxes once initialize() has connected them.
SaveSettings ==
    store' = Stored(model, backend, camera, NoNumber, IF phase = "running" THEN threshold ELSE store.confidence, root)

Shutdown ==
    /\ phase \in {"running", "failed", "noController"}
    /\ IF phase = "noController" THEN UNCHANGED store ELSE SaveSettings
    /\ last' = IF phase = "running" THEN Seen ELSE last
    /\ phase' = "ended" /\ commandLine' = NoOptions /\ NoWindow /\ UNCHANGED world

StartupNext ==
    \/ \E arguments \in CommandLines : LaunchRefused(arguments)
    \/ \E arguments \in CommandLines, found \in Worlds, picked \in {Absent, "picked"} :
          LaunchWithoutRoot(arguments, found, picked) \/ InitializeFails(arguments, found, picked) \/ Initialize(arguments, found, picked)
    \/ \E id \in Range(Ids(models)) : ChooseModel(id)
    \/ \E name \in Range(backends) : ChooseBackend(name)
    \/ \E id \in DeviceIds(devices) : ChooseCamera(id)
    \/ \E w \in Worlds : Refresh(w.devices)
    \/ EditThreshold \/ Shutdown
StartupSpec == StartupInit /\ [][StartupNext]_startupVars

-----------------------------------------------------------------------------
\* However the combo boxes were used, what Load model would ask for is a backend that the selected model
\* supports and this build has, and there is one whenever there can be one.
Usable == {b \in world.backends : \E m \in Range(models) : m.id = model /\ b \in Range(m.supported)}
BackendIsUsable == Range(backends) = Usable /\ backend \in Usable \cup {Absent} /\ (backend = Absent <=> Usable = {})

\* The index a camera is opened with is the one the system had for that very device at the last enumeration,
\* although devices without a name and repeated ones are left out of the list.
IndexIsOfDevice ==
    \A d \in Range(devices) : world.devices[d.index + 1].id = d.id /\ world.devices[d.index + 1].named

\* A model root that was named on the command line or in the environment is never silently replaced: another
\* one is used only after the user has picked it.
NamedRootIsUsed ==
    /\ commandLine.models # Absent => root \in {commandLine.models, "picked"}
    /\ commandLine.models = Absent /\ world.environment # Absent => root \in {world.environment, "picked"}

\* A window offers what is there: BackendIsUsable, IndexIsOfDevice and NamedRootIsUsed.
WindowIsOfWorld == /\ phase = "running" => BackendIsUsable /\ IndexIsOfDevice
                   /\ phase \in {"running", "failed"} => NamedRootIsUsed

\* Closing the application and starting it again where nothing has changed, and with no options, shows the
\* same model, backend, camera and threshold; Refresh keeps the selected camera while it is still reported.
SameAgain ==
    /\ commandLine' = NoOptions
    /\ models' = last.window.models /\ devices' = last.window.devices /\ world'.backends = last.available
    /\ store.model = last.window.model
RestartRestores ==
    [][ /\ phase = "ended" /\ phase' = "running" /\ SameAgain => Window' = last.window
        /\ phase = "running" /\ phase' = "running" /\ camera \in DeviceIds(devices') =>
              camera' = camera \/ devices' = devices ]_startupVars
=============================================================================
