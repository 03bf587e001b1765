--------------------------- MODULE ClassSelection ---------------------------
(***************************************************************************)
(* The class selection on its way from the check boxes (ClassFilterPanel)   *)
(* through AppController to the options of the inference worker, to the     *)
(* boxes drawn, and through QSettings (SettingsService) to the next start   *)
(* of the application.  A frame shows one object of every class, so that a  *)
(* detection is the set of classes detect() returns.  The camera is left    *)
(* out: a frame is submitted whenever a model is ready.                     *)
(***************************************************************************)
EXTENDS GuiEventLoop, FiniteSets

CONSTANTS ClassCount,   \* the models of the catalog, with their number of classes
          MaxEvents     \* bound on the detections that wait for the GUI thread

NoModel == "none"

ASSUME ClassCountAssumption ==
    NoModel \notin DOMAIN ClassCount /\ \A m \in DOMAIN ClassCount : ClassCount[m] \in Nat \ {0}
ASSUME MaxEventsAssumption == MaxEvents \in Nat \ {0}

VARIABLES
    stored,      \* QSettings: [model, classes, has]
    settings,    \* settings_, of the same form
    modelState,  \* modelState_, and "closed" when the application does not run
    combo,       \* the model selected in the window
    panel,       \* the check boxes: [model, checked]
    selected,    \* selectedClasses_
    packet,      \* currentPacket_: [model, classes]
    shown,       \* the classes of the boxes drawn
    options,     \* options_.selectedClassIds of the worker
    waiting,     \* pendingFrame_
    loading,     \* the model of pendingLoad_ or of the load under way
    loaded,      \* the model of the worker's detector
    job          \* the frame being detected: [ids, current]

guiVars == <<settings, modelState, combo, panel, selected, packet, shown>>
workerVars == <<options, waiting, loading, loaded, job>>
selectionVars == <<guiQueue, stored, guiVars, workerVars>>

Models == DOMAIN ClassCount
Classes(model) == IF model = NoModel THEN {} ELSE 0..(ClassCount[model] - 1)
NoPacket == [model |-> NoModel, classes |-> {}]
NoJob == [ids |-> {}, current |-> FALSE, busy |-> FALSE]
Settings(model, classes, has) == [model |-> model, classes |-> classes, has |-> has]

\* detect(): no id selects every class.
Detected(model, ids) == IF ids = {} THEN Classes(model) ELSE Classes(model) \cap ids
Event(event, model, classes, current) == [event |-> event, model |-> model, classes |-> classes, current |-> current]

\* A faulty variant: every detection is drawn.
DisplayAll(p, classes) == shown' = p.classes

\* displayPacket(): an empty selection draws nothing.
Display(p, classes) == shown' = p.classes \cap classes

\* invalidateSource(): frames and detections under way become stale.
Invalidated(queue) == [i \in DOMAIN queue |-> [queue[i] EXCEPT !.current = FALSE]]
InvalidateSource ==
    /\ packet' = NoPacket
    /\ waiting' = FALSE
    /\ job' = [job EXCEPT !.current = FALSE]

\* performModelLoad()
PerformModelLoad(model) ==
    /\ InvalidateSource
    /\ modelState' = "Loading"
    /\ selected' = {}
    /\ loading' = model
    /\ guiQueue' = Invalidated(guiQueue)

ClosedPanel == [model |-> NoModel, checked |-> {}]

Closed ==
    /\ guiQueue = <<>> /\ modelState = "closed" /\ combo = NoModel
    /\ panel = ClosedPanel /\ selected = {}
    /\ packet = NoPacket /\ shown = {} /\ options = {} /\ waiting = FALSE
    /\ loading = NoModel /\ loaded = NoModel /\ job = NoJob

\* Nothing is stored at first, or what an earlier start has stored.
SelectionInit ==
    /\ Closed
    /\ stored \in {Settings(m, {}, FALSE) : m \in Models}
    /\ settings = stored

\* initialize(): the settings are read, their model is selected and loaded.
Launch ==
    /\ modelState = "closed"
    /\ settings' = stored
    /\ combo' = stored.model
    /\ PerformModelLoad(stored.model)
    /\ UNCHANGED <<stored, panel, shown, options, loaded>>

Running == modelState # "closed"

\* The combo box is disabled while a model is loading, the Load button too.
SelectModel ==
    /\ Running /\ modelState # "Loading"
    /\ combo' \in Models \ {combo}
    /\ UNCHANGED <<guiQueue, stored, settings, modelState, panel, selected, packet, shown, workerVars>>

LoadModel ==
    /\ Running /\ modelState # "Loading"
    /\ PerformModelLoad(combo)
    /\ UNCHANGED <<stored, settings, combo, panel, shown, options, loaded>>

\* notifySelection() and updateClassSelection(): the options of the worker follow, and what is
\* cached is drawn again.
UpdateClassSelection(checked) ==
    /\ panel' = [panel EXCEPT !.checked = checked]
    /\ selected' = checked
    /\ options' = checked
    /\ IF packet # NoPacket THEN Display(packet, checked) ELSE UNCHANGED shown
    /\ UNCHANGED <<guiQueue, stored, settings, modelState, combo, packet, waiting, loading, loaded, job>>

ToggleClass ==
    /\ Running
    /\ \E c \in Classes(panel.model) :
          UpdateClassSelection(IF c \in panel.checked THEN panel.checked \ {c} ELSE panel.checked \cup {c})

SetAll ==
    /\ Running
    /\ \E checked \in {{}, Classes(panel.model)} : UpdateClassSelection(checked)

\* submitCurrentImage(), if there is an image, or a frame of the camera.
Submit(ready) == waiting' \in IF ready THEN {waiting, TRUE} ELSE {waiting}

SubmitFrame ==
    /\ modelState = "Ready" /\ ~waiting
    /\ waiting' = TRUE
    /\ UNCHANGED <<guiQueue, stored, guiVars, options, loading, loaded, job>>

\* updateThresholds(): the options are sent again, and the image is detected again.
UpdateThresholds ==
    /\ Running
    /\ options' = selected
    /\ Submit(modelState = "Ready")
    /\ UNCHANGED <<guiQueue, stored, guiVars, loading, loaded, job>>

\* loadImagePath(): the window shows the image without boxes.
OpenImage ==
    /\ modelState = "Ready"
    /\ packet' = NoPacket /\ shown' = {} /\ waiting' = TRUE
    /\ job' = [job EXCEPT !.current = FALSE]
    /\ guiQueue' = Invalidated(guiQueue)
    /\ UNCHANGED <<stored, settings, modelState, combo, panel, selected, options, loading, loaded>>

\* onModelLoaded(): new check boxes, all set, or those of the settings if they are of this model.
Restores(model) == settings.has /\ settings.model = model

\* A faulty variant: the ids of the settings are not checked against the model.
InitiallyUnchecked(model) == IF Restores(model) THEN settings.classes ELSE Classes(model)

Initially(model) == IF Restores(model) THEN settings.classes \cap Classes(model) ELSE Classes(model)

OnModelLoaded ==
    /\ Running /\ guiQueue # <<>>
    /\ LET event == Head(guiQueue) IN
       /\ event.event = "modelLoaded" /\ Deliver(event)
       /\ modelState' = "Ready"
       /\ panel' = [model |-> event.model, checked |-> Initially(event.model)]
       /\ selected' = Initially(event.model)
       /\ options' = Initially(event.model)
       /\ settings' = [settings EXCEPT !.model = event.model]
    /\ Submit(TRUE)
    /\ UNCHANGED <<stored, combo, packet, shown, loading, loaded, job>>

\* onFailure("Model load"), and a failed inference, which shows a status.
OnFailure ==
    /\ Running /\ guiQueue # <<>>
    /\ LET event == Head(guiQueue) IN
       /\ event.event \in {"loadFailed", "inferenceFailed"} /\ Deliver(event)
       /\ modelState' = IF event.event = "loadFailed" THEN "Error" ELSE modelState
    /\ UNCHANGED <<stored, settings, combo, panel, selected, packet, shown, workerVars>>

OnDetection ==
    /\ Running /\ guiQueue # <<>>
    /\ LET event == Head(guiQueue) IN
       /\ event.event = "detection" /\ Deliver(event)
       /\ IF event.current
            THEN packet' = [model |-> event.model, classes |-> event.classes] /\ Display(packet', selected)
            ELSE UNCHANGED <<packet, shown>>
    /\ UNCHANGED <<stored, settings, modelState, combo, panel, selected, workerVars>>

\* shutdown(): persistSettings(), and the worker is joined; the process ends.
PersistSettings == stored' = Settings(combo, selected, TRUE)

Close ==
    /\ Running
    /\ PersistSettings
    /\ settings' = stored'
    /\ guiQueue' = <<>> /\ modelState' = "closed" /\ combo' = NoModel
    /\ panel' = ClosedPanel /\ selected' = {}
    /\ packet' = NoPacket /\ shown' = {} /\ options' = {} /\ waiting' = FALSE
    /\ loading' = NoModel /\ loaded' = NoModel /\ job' = NoJob

-----------------------------------------------------------------------------
(* The worker. *)

TakeFrame ==
    /\ waiting /\ ~job.busy /\ loading = NoModel
    /\ waiting' = FALSE
    /\ job' = [ids |-> options, current |-> TRUE, busy |-> TRUE]
    /\ UNCHANGED <<guiQueue, stored, guiVars, options, loading, loaded>>

\* A load takes the waiting frame with it; the old detector goes first.
LoadEnds ==
    /\ loading # NoModel /\ ~job.busy
    /\ \E succeeds \in BOOLEAN :
          /\ loaded' = IF succeeds THEN loading ELSE NoModel
          /\ Post(<<Event(IF succeeds THEN "modelLoaded" ELSE "loadFailed", loading, {}, TRUE)>>)
    /\ loading' = NoModel /\ waiting' = FALSE
    /\ UNCHANGED <<stored, guiVars, options, job>>

\* detect() refuses ids the model does not have; a stale result is not announced.
DetectEnds ==
    /\ job.busy /\ Len(guiQueue) < MaxEvents
    /\ \/ ~(job.ids \subseteq Classes(loaded)) /\ Post(<<Event("inferenceFailed", NoModel, {}, TRUE)>>)
       \/ job.ids \subseteq Classes(loaded) /\ job.current /\ Post(<<Event("detection", loaded, Detected(loaded, job.ids), TRUE)>>)
       \/ job.ids \subseteq Classes(loaded) /\ ~job.current /\ UNCHANGED guiQueue
    /\ job' = NoJob
    /\ UNCHANGED <<stored, guiVars, options, waiting, loading, loaded>>

SelectionNext ==
    \/ Launch \/ SelectModel \/ LoadModel \/ ToggleClass \/ SetAll \/ SubmitFrame \/ UpdateThresholds \/ OpenImage
    \/ OnModelLoaded \/ OnFailure \/ OnDetection \/ Close \/ TakeFrame \/ LoadEnds \/ DetectEnds

SelectionSpec == SelectionInit /\ [][SelectionNext]_selectionVars

-----------------------------------------------------------------------------
\* The worker never works on a frame with ids its model does not have: detect() would fail, and a failed
\* inference stops the camera.  Boxes of the old model can still be toggled while a new one is loading; once
\* the model is ready, the check boxes, the selection and the worker's options agree and are of it.
IdsInRange ==
    /\ job.busy => loaded # NoModel /\ job.ids \subseteq Classes(loaded)
    /\ selected \subseteq Classes(panel.model)
    /\ modelState = "Ready" => panel.model = loaded /\ selected = panel.checked /\ options = selected

\* No box of a class that is not selected is ever drawn over a current result, and clearing every class
\* draws none, although the worker takes the empty list for all classes.
OnlySelectedShown == packet # NoPacket => shown \subseteq selected /\ packet.model = loaded
=============================================================================
