---------------------------- MODULE DesktopProofs ----------------------------
(***************************************************************************)
(* The window of the desktop application: the classes that are selected in  *)
(* it, and what it offers and restores from one run to the next.            *)
(*                                                                          *)
(* The class selection, for any number of models, classes, waiting events   *)
(* and restarts: what waits for the worker or is current was submitted      *)
(* while the model was ready, and when it is, the check boxes, the          *)
(* selection and the options of the worker agree and are of its detector; a *)
(* load makes everything stale before it changes the detector.              *)
(*                                                                          *)
(* Starts and ends, for any command lines, roots, catalogs, backends and    *)
(* devices: an entry that is shown is one of those that are listed, what is *)
(* listed is what there is, in its place, and what is stored together with  *)
(* the last model is the rest of what the window showed.                    *)
(***************************************************************************)
EXTENDS ClassSelection, Startup, SubsequencesProofs

-----------------------------------------------------------------------------
(* The class selection *)

EventType == [event : {"modelLoaded", "loadFailed", "inferenceFailed", "detection"},
              model : Models \cup {NoModel}, classes : SUBSET Nat, current : BOOLEAN]
SettingsType == [model : Models, classes : SUBSET Nat, has : BOOLEAN]

\* Types.
SelectionTypeOK ==
    /\ guiQueue \in Seq(EventType)
    /\ stored \in SettingsType /\ settings \in SettingsType
    /\ modelState \in {"closed", "Loading", "Ready", "Error"}
    /\ combo \in Models \cup {NoModel} /\ (Running => combo \in Models)
    /\ panel \in [model : Models \cup {NoModel}, checked : SUBSET Nat]
    /\ packet \in [model : Models \cup {NoModel}, classes : SUBSET Nat]
    /\ waiting \in BOOLEAN
    /\ loading \in Models \cup {NoModel} /\ loaded \in Models \cup {NoModel}
    /\ job \in [ids : SUBSET Nat, current : BOOLEAN, busy : BOOLEAN]
    /\ selected \in SUBSET Nat /\ options \in SUBSET Nat /\ shown \in SUBSET Nat

IsAnswer(event) == event.event \in {"modelLoaded", "loadFailed"}

\* One load is under way at most, in the worker or answered; its answer says what
\* the detector is.
LoadsAnswered ==
    /\ loading # NoModel => modelState = "Loading"
    /\ \A i \in DOMAIN guiQueue :
          IsAnswer(guiQueue[i]) =>
             /\ modelState = "Loading" /\ loading = NoModel
             /\ guiQueue[i].event = "modelLoaded" => guiQueue[i].model = loaded /\ loaded # NoModel
             /\ \A j \in DOMAIN guiQueue : IsAnswer(guiQueue[j]) => i = j

\* Check boxes, selection and options are of the detector when it is ready, and
\* what the worker was given is.
InStep ==
    /\ panel.checked \subseteq Classes(panel.model) /\ selected \subseteq Classes(panel.model)
    /\ modelState = "Ready" => /\ panel.model = loaded /\ loaded # NoModel
                               /\ selected = panel.checked /\ options = selected
    /\ waiting => modelState = "Ready"
    /\ job.busy => loaded # NoModel /\ job.ids \subseteq Classes(loaded)

\* What is current is of the detector, and there is no such thing during a load.
CurrentIsOfDetector ==
    /\ job.busy /\ job.current => modelState = "Ready"
    /\ \A i \in DOMAIN guiQueue :
          guiQueue[i].event = "detection" /\ guiQueue[i].current =>
             modelState = "Ready" /\ guiQueue[i].model = loaded
    /\ packet # NoPacket =>
          modelState = "Ready" /\ packet.model = loaded /\ shown \subseteq selected

IInv == SelectionTypeOK /\ LoadsAnswered /\ InStep /\ CurrentIsOfDetector

-----------------------------------------------------------------------------
(* The queue. *)

\* What is left after a delivery moved up by one.
LEMMA AfterDelivery ==
    ASSUME guiQueue \in Seq(EventType), guiQueue # <<>>, guiQueue' = Tail(guiQueue)
    PROVE  /\ guiQueue' \in Seq(EventType)
           /\ 1 \in DOMAIN guiQueue /\ Head(guiQueue) = guiQueue[1]
           /\ Head(guiQueue) \in EventType
           /\ \A i \in DOMAIN guiQueue' :
                 i \in Nat /\ i # 0 /\ i + 1 \in DOMAIN guiQueue /\ guiQueue'[i] = guiQueue[i + 1]
<1>1. Len(guiQueue) \in Nat /\ Len(guiQueue) # 0 /\ DOMAIN guiQueue = 1..Len(guiQueue)
  OBVIOUS
<1>2. DOMAIN guiQueue' = 1..(Len(guiQueue) - 1)
  BY <1>1
<1> QED BY <1>1, <1>2

\* What is posted comes last.
LEMMA AfterPost ==
    ASSUME guiQueue \in Seq(EventType), NEW event \in EventType, Post(<<event>>)
    PROVE  /\ guiQueue' \in Seq(EventType)
           /\ \A i \in DOMAIN guiQueue' :
                 \/ i \in DOMAIN guiQueue /\ guiQueue'[i] = guiQueue[i]
                 \/ i = Len(guiQueue) + 1 /\ guiQueue'[i] = event
<1>1. guiQueue' = Append(guiQueue, event)
  BY DEF Post
<1>2. DOMAIN guiQueue' = 1..(Len(guiQueue) + 1) /\ DOMAIN guiQueue = 1..Len(guiQueue)
  BY <1>1
<1> QED BY <1>1, <1>2

\* What became stale is what it was otherwise.
LEMMA AfterInvalidation ==
    ASSUME guiQueue \in Seq(EventType), guiQueue' = Invalidated(guiQueue)
    PROVE  /\ guiQueue' \in Seq(EventType) /\ DOMAIN guiQueue' = DOMAIN guiQueue
           /\ \A i \in DOMAIN guiQueue :
                 /\ ~guiQueue'[i].current
                 /\ guiQueue'[i].event = guiQueue[i].event
                 /\ guiQueue'[i].model = guiQueue[i].model
<1>1. DOMAIN guiQueue = 1..Len(guiQueue) /\ Len(guiQueue) \in Nat
  OBVIOUS
<1>2. \A i \in DOMAIN guiQueue :
         /\ guiQueue[i] \in EventType
         /\ guiQueue'[i] = [guiQueue[i] EXCEPT !.current = FALSE]
  BY DEF Invalidated
<1>3. \A e \in EventType : LET stale == [e EXCEPT !.current = FALSE]
                           IN  /\ stale \in EventType /\ ~stale.current
                               /\ stale.event = e.event /\ stale.model = e.model
  BY DEF EventType
<1>4. DOMAIN guiQueue' = DOMAIN guiQueue
  BY DEF Invalidated
<1>5. \A i \in DOMAIN guiQueue : /\ guiQueue'[i] \in EventType /\ ~guiQueue'[i].current
                                /\ guiQueue'[i].event = guiQueue[i].event
                                /\ guiQueue'[i].model = guiQueue[i].model
  BY <1>2, <1>3
<1>6. guiQueue' \in [1..Len(guiQueue) -> EventType]
  BY <1>1, <1>2, <1>5 DEF Invalidated
<1>7. guiQueue' \in Seq(EventType)
  BY <1>1, <1>6
<1> QED BY <1>4, <1>5, <1>7

-----------------------------------------------------------------------------
(* The steps. *)

\* The classes of a model are numbers.
LEMMA ClassesAreNat == \A m \in Models \cup {NoModel} : Classes(m) \in SUBSET Nat
BY ClassCountAssumption DEF Classes, Models

\* A load begins: nothing is current or waits, and nothing is selected.
LEMMA LoadBegins ==
    ASSUME IInv, modelState # "Loading", combo' \in Models, settings' \in SettingsType,
           PerformModelLoad(combo'), UNCHANGED <<stored, panel, shown, options, loaded>>
    PROVE  IInv'
<1> USE DEF IInv
<1>1. /\ guiQueue' \in Seq(EventType) /\ DOMAIN guiQueue' = DOMAIN guiQueue
      /\ \A i \in DOMAIN guiQueue : /\ ~guiQueue'[i].current
                                    /\ guiQueue'[i].event = guiQueue[i].event
  BY AfterInvalidation DEF SelectionTypeOK, PerformModelLoad
<1>2. SelectionTypeOK'
  BY <1>1 DEF SelectionTypeOK, PerformModelLoad, InvalidateSource, NoPacket, Running
<1>3. LoadsAnswered'
  BY <1>1 DEF LoadsAnswered, IsAnswer, PerformModelLoad
<1>4. InStep'
  BY DEF InStep, PerformModelLoad, InvalidateSource, SelectionTypeOK, Classes
<1>5. CurrentIsOfDetector'
  BY <1>1 DEF CurrentIsOfDetector, PerformModelLoad, InvalidateSource, SelectionTypeOK
<1> QED BY <1>2, <1>3, <1>4, <1>5

\* The check boxes are set: selection and options follow, and what is drawn.
LEMMA SelectionChanges ==
    ASSUME IInv, Running, NEW checked \in SUBSET Classes(panel.model),
           UpdateClassSelection(checked)
    PROVE  IInv'
<1> USE DEF IInv, UpdateClassSelection
<1>1. checked \in SUBSET Nat
  BY ClassesAreNat DEF SelectionTypeOK
<1>2. panel' \in [model : Models \cup {NoModel}, checked : SUBSET Nat]
      /\ panel'.model = panel.model /\ panel'.checked = checked
  BY <1>1 DEF SelectionTypeOK
<1>3. shown' \in SUBSET Nat /\ (packet # NoPacket => shown' \subseteq checked)
  BY <1>1 DEF SelectionTypeOK, Display
<1>4. SelectionTypeOK'
  BY <1>1, <1>2, <1>3 DEF SelectionTypeOK, Running
<1>5. LoadsAnswered'
  BY DEF LoadsAnswered, IsAnswer
<1>6. InStep'
  BY <1>2 DEF InStep, Classes
<1>7. CurrentIsOfDetector'
  BY <1>3 DEF CurrentIsOfDetector
<1> QED BY <1>4, <1>5, <1>6, <1>7

\* A frame is submitted, or the options are sent again: the model is ready.
LEMMA FrameSubmitted ==
    ASSUME IInv, SubmitFrame \/ UpdateThresholds
    PROVE  IInv'
<1> USE DEF IInv
<1>1. /\ waiting' \in BOOLEAN /\ (waiting' => waiting \/ modelState = "Ready")
      /\ options' \in {options, selected}
      /\ UNCHANGED <<guiQueue, stored, guiVars, loading, loaded, job>>
  BY DEF SubmitFrame, UpdateThresholds, Submit, SelectionTypeOK
<1>2. SelectionTypeOK'
  BY <1>1 DEF SelectionTypeOK, Running, guiVars
<1>3. LoadsAnswered'
  BY <1>1 DEF LoadsAnswered, IsAnswer, guiVars
<1>4. InStep'
  BY <1>1 DEF InStep, Classes, guiVars
<1>5. CurrentIsOfDetector'
  BY <1>1 DEF CurrentIsOfDetector, guiVars
<1> QED BY <1>2, <1>3, <1>4, <1>5

\* An image is opened: what was current is stale.
LEMMA ImageOpened == ASSUME IInv, OpenImage PROVE IInv'
<1> USE DEF IInv
<1>1. /\ guiQueue' \in Seq(EventType) /\ DOMAIN guiQueue' = DOMAIN guiQueue
      /\ \A i \in DOMAIN guiQueue : /\ ~guiQueue'[i].current
                                    /\ guiQueue'[i].event = guiQueue[i].event
                                    /\ guiQueue'[i].model = guiQueue[i].model
  BY AfterInvalidation DEF SelectionTypeOK, OpenImage
<1>2. SelectionTypeOK'
  BY <1>1 DEF SelectionTypeOK, OpenImage, NoPacket, Running
<1>3. LoadsAnswered'
  BY <1>1 DEF LoadsAnswered, IsAnswer, OpenImage
<1>4. InStep'
  BY DEF InStep, OpenImage, SelectionTypeOK, Classes
<1>5. CurrentIsOfDetector'
  BY <1>1 DEF CurrentIsOfDetector, OpenImage, SelectionTypeOK
<1> QED BY <1>2, <1>3, <1>4, <1>5

\* The answer of a load, or a failed detection, is delivered.
LEMMA LoadAnswered == ASSUME IInv, OnModelLoaded PROVE IInv'
<1> USE DEF IInv
<1> DEFINE event == Head(guiQueue)
<1>1. /\ guiQueue # <<>> /\ guiQueue' = Tail(guiQueue) /\ event.event = "modelLoaded"
      /\ modelState' = "Ready"
      /\ panel' = [model |-> event.model, checked |-> Initially(event.model)]
      /\ selected' = Initially(event.model) /\ options' = Initially(event.model)
      /\ settings' = [settings EXCEPT !.model = event.model]
      /\ waiting' \in {waiting, TRUE}
      /\ UNCHANGED <<stored, combo, packet, shown, loading, loaded, job>>
  BY DEF OnModelLoaded, Deliver, Submit
<1>2. /\ guiQueue' \in Seq(EventType) /\ 1 \in DOMAIN guiQueue /\ event = guiQueue[1]
      /\ event \in EventType
      /\ \A i \in DOMAIN guiQueue' :
            i \in Nat /\ i # 0 /\ i + 1 \in DOMAIN guiQueue /\ guiQueue'[i] = guiQueue[i + 1]
  BY <1>1, AfterDelivery DEF SelectionTypeOK
<1>3. modelState = "Loading" /\ loading = NoModel /\ event.model = loaded /\ loaded # NoModel
  BY <1>1, <1>2 DEF LoadsAnswered, IsAnswer
<1>4. Initially(event.model) \in SUBSET Classes(event.model)
      /\ Initially(event.model) \in SUBSET Nat /\ loaded \in Models
  BY <1>2, <1>3, ClassesAreNat DEF Initially, EventType, SelectionTypeOK
<1>5. settings' \in SettingsType
  BY <1>1, <1>3, <1>4 DEF SelectionTypeOK, SettingsType
<1>6. panel'.model = event.model /\ panel'.checked = Initially(event.model)
      /\ panel' \in [model : Models \cup {NoModel}, checked : SUBSET Nat]
  BY <1>1, <1>3, <1>4
<1>7. SelectionTypeOK'
  BY <1>1, <1>2, <1>3, <1>4, <1>5, <1>6 DEF SelectionTypeOK, Running
<1>8. \A i \in DOMAIN guiQueue' : ~IsAnswer(guiQueue'[i])
  <2> SUFFICES ASSUME NEW i \in DOMAIN guiQueue', IsAnswer(guiQueue'[i]) PROVE FALSE
    OBVIOUS
  <2>1. i + 1 \in DOMAIN guiQueue /\ IsAnswer(guiQueue[i + 1]) /\ i + 1 # 1
    BY <1>2
  <2> QED BY <2>1, <1>1, <1>2 DEF LoadsAnswered, IsAnswer
<1>9. LoadsAnswered'
  BY <1>1, <1>3, <1>8 DEF LoadsAnswered, IsAnswer
<1>10. InStep'
  BY <1>1, <1>3, <1>4, <1>6 DEF InStep, Classes
<1>11. CurrentIsOfDetector'
  <2>1. packet = NoPacket
    BY <1>3 DEF CurrentIsOfDetector
  <2> QED BY <2>1, <1>1, <1>2, <1>3 DEF CurrentIsOfDetector
<1> QED BY <1>7, <1>9, <1>10, <1>11

\* A failure is delivered: that of a load leaves nothing that is ready or current.
LEMMA FailureShown == ASSUME IInv, OnFailure PROVE IInv'
<1> USE DEF IInv
<1> DEFINE event == Head(guiQueue)
<1>1. /\ guiQueue # <<>> /\ guiQueue' = Tail(guiQueue)
      /\ event.event \in {"loadFailed", "inferenceFailed"}
      /\ modelState' = IF event.event = "loadFailed" THEN "Error" ELSE modelState
      /\ Running
      /\ UNCHANGED <<stored, settings, combo, panel, selected, packet, shown, workerVars>>
  BY DEF OnFailure, Deliver
<1>2. /\ guiQueue' \in Seq(EventType) /\ 1 \in DOMAIN guiQueue /\ event = guiQueue[1]
      /\ \A i \in DOMAIN guiQueue' :
            i \in Nat /\ i # 0 /\ i + 1 \in DOMAIN guiQueue /\ guiQueue'[i] = guiQueue[i + 1]
  BY <1>1, AfterDelivery DEF SelectionTypeOK
<1>3. event.event = "loadFailed" => modelState = "Loading" /\ loading = NoModel
  BY <1>1, <1>2 DEF LoadsAnswered, IsAnswer
<1>4. SelectionTypeOK'
  BY <1>1, <1>2 DEF SelectionTypeOK, Running, workerVars
<1>5. event.event = "loadFailed" => \A i \in DOMAIN guiQueue' : ~IsAnswer(guiQueue'[i])
  <2> SUFFICES ASSUME event.event = "loadFailed",
                      NEW i \in DOMAIN guiQueue', IsAnswer(guiQueue'[i]) PROVE FALSE
    OBVIOUS
  <2>1. i + 1 \in DOMAIN guiQueue /\ IsAnswer(guiQueue[i + 1]) /\ i + 1 # 1
    BY <1>2
  <2> QED BY <2>1, <1>1, <1>2 DEF LoadsAnswered, IsAnswer
<1>6. LoadsAnswered'
  <2>1. CASE event.event = "loadFailed"
    BY <2>1, <1>1, <1>3, <1>5 DEF LoadsAnswered, workerVars, IsAnswer
  <2>2. CASE event.event # "loadFailed"
    <3> SUFFICES ASSUME NEW i \in DOMAIN guiQueue', IsAnswer(guiQueue'[i])
                 PROVE  /\ modelState = "Loading" /\ loading = NoModel
                        /\ guiQueue'[i].event = "modelLoaded" =>
                               guiQueue'[i].model = loaded /\ loaded # NoModel
                        /\ \A j \in DOMAIN guiQueue' : IsAnswer(guiQueue'[j]) => i = j
      BY <2>2, <1>1 DEF LoadsAnswered, workerVars, IsAnswer
    <3> QED BY <1>2 DEF LoadsAnswered
  <2> QED BY <2>1, <2>2
<1>7. InStep'
  BY <1>1, <1>3 DEF InStep, Classes, workerVars
<1>8. CurrentIsOfDetector'
  BY <1>1, <1>2, <1>3 DEF CurrentIsOfDetector, workerVars
<1> QED BY <1>4, <1>6, <1>7, <1>8

\* A detection is delivered: one that is stale is not shown, another is of the
\* detector, and only selected classes of it are drawn.
LEMMA DetectionShown == ASSUME IInv, OnDetection PROVE IInv'
<1> USE DEF IInv
<1> DEFINE event == Head(guiQueue)
<1>1. /\ guiQueue # <<>> /\ guiQueue' = Tail(guiQueue) /\ event.event = "detection"
      /\ UNCHANGED <<stored, settings, modelState, combo, panel, selected, workerVars>>
      /\ event.current => /\ packet' = [model |-> event.model, classes |-> event.classes]
                          /\ shown' = packet'.classes \cap selected
      /\ ~event.current => UNCHANGED <<packet, shown>>
  BY DEF OnDetection, Deliver, Display
<1>2. /\ guiQueue' \in Seq(EventType) /\ 1 \in DOMAIN guiQueue /\ event = guiQueue[1]
      /\ event \in EventType
      /\ \A i \in DOMAIN guiQueue' :
            i \in Nat /\ i # 0 /\ i + 1 \in DOMAIN guiQueue /\ guiQueue'[i] = guiQueue[i + 1]
  BY <1>1, AfterDelivery DEF SelectionTypeOK
<1>3. packet' \in [model : Models \cup {NoModel}, classes : SUBSET Nat] /\ shown' \in SUBSET Nat
  <2>1. event.model \in Models \cup {NoModel} /\ event.classes \in SUBSET Nat
    BY <1>2 DEF EventType
  <2> HIDE DEF event
  <2>2. CASE event.current
    BY <2>1, <2>2, <1>1
  <2>3. CASE ~event.current
    BY <2>3, <1>1 DEF SelectionTypeOK
  <2> QED BY <2>2, <2>3
<1>4. SelectionTypeOK'
  BY <1>1, <1>2, <1>3 DEF SelectionTypeOK, Running, workerVars
<1>5. LoadsAnswered'
  <2> SUFFICES ASSUME NEW i \in DOMAIN guiQueue', IsAnswer(guiQueue'[i])
               PROVE  /\ modelState = "Loading" /\ loading = NoModel
                      /\ guiQueue'[i].event = "modelLoaded" =>
                             guiQueue'[i].model = loaded /\ loaded # NoModel
                      /\ \A j \in DOMAIN guiQueue' : IsAnswer(guiQueue'[j]) => i = j
    BY <1>1 DEF LoadsAnswered, workerVars, IsAnswer
  <2> QED BY <1>2 DEF LoadsAnswered
<1>6. InStep'
  BY <1>1 DEF InStep, Classes, workerVars
<1>7. event.current => modelState = "Ready" /\ event.model = loaded
  BY <1>1, <1>2 DEF CurrentIsOfDetector
<1>8. packet' # NoPacket => /\ modelState = "Ready" /\ packet'.model = loaded
                            /\ shown' \subseteq selected
  BY <1>1, <1>2, <1>7 DEF CurrentIsOfDetector
<1>9. CurrentIsOfDetector'
  BY <1>1, <1>2, <1>8 DEF CurrentIsOfDetector, workerVars
<1> QED BY <1>4, <1>5, <1>6, <1>9

\* A frame is taken: the model is ready, so its ids are of the detector.
LEMMA FrameTaken == ASSUME IInv, TakeFrame PROVE IInv'
<1> USE DEF IInv, TakeFrame
<1>1. SelectionTypeOK'
  BY DEF SelectionTypeOK, Running, guiVars
<1>2. LoadsAnswered'
  BY DEF LoadsAnswered, IsAnswer, guiVars
<1>3. InStep'
  BY DEF InStep, Classes, guiVars
<1>4. CurrentIsOfDetector'
  BY DEF CurrentIsOfDetector, InStep, guiVars
<1> QED BY <1>1, <1>2, <1>3, <1>4

\* A load ends: it was the one under way, and nothing current can see the detector
\* change.
LEMMA LoadEnded == ASSUME IInv, LoadEnds PROVE IInv'
<1> USE DEF IInv
<1>1. PICK succeeds \in BOOLEAN :
         /\ loaded' = IF succeeds THEN loading ELSE NoModel
         /\ Post(<<Event(IF succeeds THEN "modelLoaded" ELSE "loadFailed", loading, {}, TRUE)>>)
  BY DEF LoadEnds
<1> DEFINE event == Event(IF succeeds THEN "modelLoaded" ELSE "loadFailed", loading, {}, TRUE)
<1>2. /\ loading # NoModel /\ ~job.busy /\ loading' = NoModel /\ waiting' = FALSE
      /\ UNCHANGED <<stored, guiVars, options, job>> /\ modelState = "Loading"
  BY DEF LoadEnds, LoadsAnswered
<1>3. /\ event \in EventType
      /\ event.event = (IF succeeds THEN "modelLoaded" ELSE "loadFailed")
      /\ event.model = loading
  BY DEF Event, EventType, SelectionTypeOK
<1>4. /\ guiQueue' \in Seq(EventType)
      /\ \A i \in DOMAIN guiQueue' :
            \/ i \in DOMAIN guiQueue /\ guiQueue'[i] = guiQueue[i]
            \/ i = Len(guiQueue) + 1 /\ guiQueue'[i] = event
  <2> HIDE DEF event
  <2>1. guiQueue \in Seq(EventType) /\ event \in EventType
    BY <1>3 DEF SelectionTypeOK
  <2>2. Post(<<event>>)
    BY <1>1 DEF event
  <2> QED BY <2>1, <2>2, AfterPost
<1> HIDE DEF event
<1>5. \A i \in DOMAIN guiQueue : ~IsAnswer(guiQueue[i])
  BY <1>2 DEF LoadsAnswered
<1>6. SelectionTypeOK'
  BY <1>1, <1>2, <1>4 DEF SelectionTypeOK, Running, guiVars
<1>7. LoadsAnswered'
  <2> SUFFICES ASSUME NEW i \in DOMAIN guiQueue', IsAnswer(guiQueue'[i])
               PROVE  /\ guiQueue'[i].event = "modelLoaded" =>
                             guiQueue'[i].model = loaded' /\ loaded' # NoModel
                      /\ \A j \in DOMAIN guiQueue' : IsAnswer(guiQueue'[j]) => i = j
    BY <1>2 DEF LoadsAnswered, IsAnswer, guiVars
  <2>1. i = Len(guiQueue) + 1 /\ guiQueue'[i] = event
    BY <1>4, <1>5
  <2>2. \A j \in DOMAIN guiQueue' : IsAnswer(guiQueue'[j]) => j = Len(guiQueue) + 1
    BY <1>4, <1>5
  <2> QED BY <2>1, <2>2, <1>1, <1>2, <1>3
<1>8. InStep'
  BY <1>2 DEF InStep, Classes, guiVars
<1>9. CurrentIsOfDetector'
  BY <1>2, <1>3, <1>4 DEF CurrentIsOfDetector, guiVars
<1> QED BY <1>6, <1>7, <1>8, <1>9

\* A detection ends: its result is of the detector.
LEMMA DetectionEnded == ASSUME IInv, DetectEnds PROVE IInv'
<1> USE DEF IInv
<1>1. /\ job.busy /\ job' = NoJob
      /\ UNCHANGED <<stored, guiVars, options, waiting, loading, loaded>>
  BY DEF DetectEnds
<1>2. ~job'.busy /\ job' \in [ids : SUBSET Nat, current : BOOLEAN, busy : BOOLEAN]
  BY <1>1 DEF NoJob
<1>3. CASE UNCHANGED guiQueue
  <2>1. SelectionTypeOK'
    BY <1>1, <1>2, <1>3 DEF SelectionTypeOK, Running, guiVars
  <2>2. LoadsAnswered' /\ InStep' /\ CurrentIsOfDetector'
    BY <1>1, <1>2, <1>3 DEF LoadsAnswered, IsAnswer, InStep, Classes, CurrentIsOfDetector, guiVars
  <2> QED BY <2>1, <2>2
<1>4. ASSUME NEW event \in EventType, Post(<<event>>), ~IsAnswer(event),
             event.event = "detection" /\ event.current => job.current /\ event.model = loaded
      PROVE  IInv'
  <2>1. /\ guiQueue' \in Seq(EventType)
        /\ \A i \in DOMAIN guiQueue' :
              \/ i \in DOMAIN guiQueue /\ guiQueue'[i] = guiQueue[i]
              \/ i = Len(guiQueue) + 1 /\ guiQueue'[i] = event
    BY <1>4, AfterPost DEF SelectionTypeOK
  <2>2. SelectionTypeOK'
    BY <1>1, <1>2, <2>1 DEF SelectionTypeOK, Running, guiVars
  <2>3. LoadsAnswered'
    <3> SUFFICES ASSUME NEW i \in DOMAIN guiQueue', IsAnswer(guiQueue'[i])
                 PROVE  /\ modelState = "Loading" /\ loading = NoModel
                        /\ guiQueue'[i].event = "modelLoaded" =>
                               guiQueue'[i].model = loaded /\ loaded # NoModel
                        /\ \A j \in DOMAIN guiQueue' : IsAnswer(guiQueue'[j]) => i = j
      BY <1>1 DEF LoadsAnswered, guiVars, IsAnswer
    <3> QED BY <1>4, <2>1 DEF LoadsAnswered
  <2>4. InStep'
    BY <1>1, <1>2 DEF InStep, Classes, guiVars
  <2>5. CurrentIsOfDetector'
    BY <1>1, <1>2, <1>4, <2>1 DEF CurrentIsOfDetector, guiVars
  <2> QED BY <2>2, <2>3, <2>4, <2>5
<1>5. CASE Post(<<Event("inferenceFailed", NoModel, {}, TRUE)>>)
  <2> DEFINE event == Event("inferenceFailed", NoModel, {}, TRUE)
  <2>1. event \in EventType /\ event.event = "inferenceFailed"
    BY DEF Event, EventType
  <2> HIDE DEF event
  <2>2. Post(<<event>>)
    BY <1>5 DEF event
  <2> QED BY <2>1, <2>2, <1>4 DEF IsAnswer
<1>6. CASE /\ job.current
           /\ Post(<<Event("detection", loaded, Detected(loaded, job.ids), TRUE)>>)
  <2> DEFINE event == Event("detection", loaded, Detected(loaded, job.ids), TRUE)
  <2>1. Detected(loaded, job.ids) \in SUBSET Nat
    BY ClassesAreNat DEF SelectionTypeOK, Detected
  <2>2. event \in EventType /\ event.event = "detection" /\ event.model = loaded
    BY <2>1 DEF Event, EventType, SelectionTypeOK
  <2> HIDE DEF event
  <2>3. Post(<<event>>)
    BY <1>6 DEF event
  <2> QED BY <2>2, <2>3, <1>6, <1>4 DEF IsAnswer
<1> QED BY <1>3, <1>5, <1>6 DEF DetectEnds

\* What there is when the application does not run.
LEMMA NothingTypes ==
    /\ ClosedPanel \in [model : Models \cup {NoModel}, checked : SUBSET Nat]
    /\ NoPacket \in [model : Models \cup {NoModel}, classes : SUBSET Nat]
    /\ NoJob \in [ids : SUBSET Nat, current : BOOLEAN, busy : BOOLEAN]
BY DEF ClosedPanel, NoPacket, NoJob

\* The window is closed: nothing is left but what is stored.
LEMMA WindowClosed == ASSUME IInv, Close PROVE IInv'
<1> USE DEF IInv, Close
<1>1. stored' \in SettingsType /\ guiQueue' = <<>> /\ DOMAIN guiQueue' = {}
  BY DEF SelectionTypeOK, SettingsType, PersistSettings, Settings
<1>2. SelectionTypeOK'
  <2>1. guiQueue' \in Seq(EventType) /\ settings' \in SettingsType
    BY <1>1
  <2>2. /\ panel' \in [model : Models \cup {NoModel}, checked : SUBSET Nat]
        /\ packet' \in [model : Models \cup {NoModel}, classes : SUBSET Nat]
        /\ job' \in [ids : SUBSET Nat, current : BOOLEAN, busy : BOOLEAN]
    BY NothingTypes
  <2>3. selected' \in SUBSET Nat /\ shown' \in SUBSET Nat /\ options' \in SUBSET Nat
    OBVIOUS
  <2> QED BY <1>1, <2>1, <2>2, <2>3 DEF SelectionTypeOK, Running
<1>3. LoadsAnswered' /\ InStep' /\ CurrentIsOfDetector'
  BY <1>1 DEF LoadsAnswered, InStep, CurrentIsOfDetector, ClosedPanel, NoJob, Classes
<1> QED BY <1>2, <1>3

\* Every step keeps the invariant.
LEMMA StepKeepsIInv == ASSUME IInv, [SelectionNext]_selectionVars PROVE IInv'
<1>1. CASE Launch
  <2>1. modelState # "Loading" /\ combo' = stored.model /\ settings' = stored
        /\ PerformModelLoad(stored.model) /\ UNCHANGED <<stored, panel, shown, options, loaded>>
    BY <1>1 DEF Launch
  <2> QED BY <2>1, LoadBegins DEF IInv, SelectionTypeOK, SettingsType
<1>2. CASE LoadModel
  <2>1. modelState # "Loading" /\ combo' = combo /\ settings' = settings /\ combo \in Models
        /\ PerformModelLoad(combo) /\ UNCHANGED <<stored, panel, shown, options, loaded>>
    BY <1>2 DEF LoadModel, IInv, SelectionTypeOK
  <2> QED BY <2>1, LoadBegins DEF IInv, SelectionTypeOK
<1>3. CASE SelectModel
  BY <1>3 DEF SelectModel, IInv, SelectionTypeOK, LoadsAnswered, IsAnswer, InStep, Classes,
              CurrentIsOfDetector, Running, workerVars
<1>4. CASE ToggleClass \/ SetAll
  <2>1. Running /\ \E checked \in SUBSET Classes(panel.model) : UpdateClassSelection(checked)
    BY <1>4 DEF ToggleClass, SetAll, IInv, InStep
  <2> QED BY <2>1, SelectionChanges
<1>5. CASE UNCHANGED selectionVars
  BY <1>5 DEF IInv, SelectionTypeOK, LoadsAnswered, IsAnswer, InStep, Classes,
              CurrentIsOfDetector, Running, selectionVars, guiVars, workerVars
<1> QED BY <1>1, <1>2, <1>3, <1>4, <1>5, FrameSubmitted, ImageOpened, LoadAnswered,
           FailureShown, DetectionShown, FrameTaken, LoadEnded, DetectionEnded, WindowClosed
        DEF SelectionNext

\* Nothing runs at first.
LEMMA InitIInv == SelectionInit => IInv
<1> SUFFICES ASSUME SelectionInit PROVE IInv
  OBVIOUS
<1>1. stored \in SettingsType /\ settings \in SettingsType
  <2>1. PICK m \in Models : stored = Settings(m, {}, FALSE)
    BY DEF SelectionInit
  <2> QED BY <2>1 DEF SelectionInit, Settings, SettingsType
<1>2. guiQueue = <<>> /\ DOMAIN guiQueue = {}
  BY DEF SelectionInit, Closed
<1>3. SelectionTypeOK
  <2>1. guiQueue \in Seq(EventType)
    BY <1>2
  <2>2. /\ panel \in [model : Models \cup {NoModel}, checked : SUBSET Nat]
        /\ packet \in [model : Models \cup {NoModel}, classes : SUBSET Nat]
        /\ job \in [ids : SUBSET Nat, current : BOOLEAN, busy : BOOLEAN]
    BY NothingTypes DEF SelectionInit, Closed
  <2>3. selected \in SUBSET Nat /\ shown \in SUBSET Nat /\ options \in SUBSET Nat
    BY DEF SelectionInit, Closed
  <2> QED BY <1>1, <2>1, <2>2, <2>3 DEF SelectionInit, Closed, SelectionTypeOK, Running
<1>4. LoadsAnswered /\ InStep /\ CurrentIsOfDetector
  BY <1>2 DEF SelectionInit, Closed, LoadsAnswered, InStep, CurrentIsOfDetector, ClosedPanel,
              NoJob, Classes
<1> QED BY <1>3, <1>4 DEF IInv

\* The invariant holds always.
LEMMA Inductive == SelectionSpec => []IInv
<1>1. IInv /\ [SelectionNext]_selectionVars => IInv'
  BY StepKeepsIInv
<1> QED BY <1>1, InitIInv, PTL DEF SelectionSpec

-----------------------------------------------------------------------------
(* The theorems. *)

\* The worker never detects with ids that its detector does not have, whatever is
\* toggled, loaded, restored and restarted.
THEOREM IdsAlwaysInRange == SelectionSpec => []IdsInRange
<1>1. IInv => IdsInRange
  BY DEF IInv, InStep, IdsInRange
<1> QED BY <1>1, Inductive, PTL

\* What is drawn over a current result is selected, and the result is of the
\* detector.
THEOREM NothingElseShown == SelectionSpec => []OnlySelectedShown
<1>1. IInv => OnlySelectedShown
  BY DEF IInv, CurrentIsOfDetector, OnlySelectedShown
<1> QED BY <1>1, Inductive, PTL

-----------------------------------------------------------------------------
(* What the combo boxes show *)

\* The entry that is shown is one of those there are, and none only if there are none.
OneOf(entry, entries) == IF entries = <<>> THEN entry = Absent ELSE entry \in Range(entries)

\* The first element of a sequence is one of its elements.
LEMMA FirstIsThere ==
  ASSUME NEW U, NEW s \in Seq(U), s # <<>>
  PROVE  1 \in DOMAIN s /\ s[1] \in Range(s)
<1>1. 1 \in DOMAIN s
  OBVIOUS
<1> QED BY <1>1 DEF Range

\* A sequence that is empty has no elements, and one that has none is empty.
LEMMA NoElements ==
  ASSUME NEW U, NEW s \in Seq(U)
  PROVE  s = <<>> <=> Range(s) = {}
<1>1. s = <<>> => Range(s) = {}
  BY DEF Range
<1> QED BY <1>1, FirstIsThere

\* rebuildBackends() shows an entry if there is one.
LEMMA KeptIsOneOf ==
  ASSUME NEW U, NEW entries \in Seq(U), Absent \notin U, NEW previous, NEW default
  PROVE  OneOf(Kept(entries, previous, default), entries)
<1>1. entries = <<>> => Range(entries) = {}
  BY NoElements
<1>2. entries # <<>> => entries[1] \in Range(entries)
  BY FirstIsThere
<1> QED BY <1>1, <1>2 DEF OneOf, Kept

\* selectModel() and selectBackend() leave an entry shown, chosen or not.
LEMMA SelectedIsOneOf ==
  ASSUME NEW U, NEW entries \in Seq(U), NEW wanted, NEW current, OneOf(current, entries)
  PROVE  OneOf(Selected(entries, wanted, current), entries)
<1>1. entries = <<>> => Range(entries) = {}
  BY NoElements
<1> QED BY <1>1 DEF OneOf, Selected

\* A listed model is one entry of the catalog.
LEMMA ModelOfCatalog ==
  ASSUME NEW catalog, IsCatalog(catalog), NEW id \in Range(Ids(catalog))
  PROVE  /\ ModelOf(catalog, id) \in Range(catalog) /\ ModelOf(catalog, id).id = id
         /\ \A m \in Range(catalog) : m.id = id => m = ModelOf(catalog, id)
<1>1. PICK i \in DOMAIN catalog : catalog[i].id = id
  BY DEF Range, Ids
<1>2. catalog[i] \in Range(catalog)
  BY DEF Range
<1>3. ModelOf(catalog, id) \in Range(catalog) /\ ModelOf(catalog, id).id = id
  BY <1>1, <1>2 DEF ModelOf
<1>4. ASSUME NEW m \in Range(catalog), NEW n \in Range(catalog), m.id = n.id PROVE m = n
  <2>1. PICK j \in DOMAIN catalog : catalog[j] = m
    BY <1>4 DEF Range
  <2>2. PICK k \in DOMAIN catalog : catalog[k] = n
    BY <1>4 DEF Range
  <2> QED BY <1>4, <2>1, <2>2 DEF IsCatalog
<1> QED BY <1>3, <1>4

\* The entries of the backend combo box are what the model supports and the build has.
LEMMA BackendsAreUsable ==
  ASSUME NEW catalog, IsCatalog(catalog), NEW id \in Range(Ids(catalog)), NEW available, Absent \notin available
  PROVE  /\ BackendsOf(catalog, id, available) \in Seq(available)
         /\ Range(BackendsOf(catalog, id, available))
              = {b \in available : \E m \in Range(catalog) : m.id = id /\ b \in Range(m.supported)}
<1> DEFINE supported == ModelOf(catalog, id).supported
<1>1. /\ ModelOf(catalog, id) \in Range(catalog) /\ ModelOf(catalog, id).id = id
      /\ \A m \in Range(catalog) : m.id = id => m = ModelOf(catalog, id)
  BY ModelOfCatalog
<1>2. supported \in Seq(Range(supported))
  BY <1>1 DEF IsCatalog, IsSequence
<1>3. BackendsOf(catalog, id, available) = KeepIn(supported, available)
  BY DEF BackendsOf
<1> HIDE DEF supported
<1>4. KeepIn(supported, available) \in Seq(Range(supported) \cap available)
  BY <1>2, KeepInType
<1>5. Range(KeepIn(supported, available)) = Range(supported) \cap available
  BY <1>2, MembersKept
<1>6. KeepIn(supported, available) \in Seq(available)
  BY <1>4
<1>7. {b \in available : \E m \in Range(catalog) : m.id = id /\ b \in Range(m.supported)}
         = Range(supported) \cap available
  BY <1>1 DEF supported
<1> QED BY <1>3, <1>5, <1>6, <1>7

\* After rebuildBackends() the backend is one of the entries, whatever it was before.
LEMMA RebuiltIsOneOf ==
  ASSUME NEW catalog, IsCatalog(catalog), NEW id \in Range(Ids(catalog)), NEW available, Absent \notin available,
         NEW previous
  PROVE  OneOf(Rebuilt(catalog, id, available, previous), BackendsOf(catalog, id, available))
<1>1. BackendsOf(catalog, id, available) \in Seq(available)
  BY BackendsAreUsable
<1>2. OneOf(Kept(BackendsOf(catalog, id, available), previous, ModelOf(catalog, id).default),
            BackendsOf(catalog, id, available))
  BY <1>1, KeptIsOneOf
<1> QED BY <1>2 DEF Rebuilt

\* The model combo box of a catalog shows one of its models.
LEMMA FirstModel ==
  ASSUME NEW catalog, IsCatalog(catalog), catalog # <<>>, NEW wanted
  PROVE  /\ Selected(Ids(catalog), wanted, catalog[1].id) \in Range(Ids(catalog))
         /\ catalog[1].id \in Range(Ids(catalog))
         /\ Absent \notin Range(Ids(catalog))
<1>1. catalog \in Seq(Range(catalog)) /\ \A m \in Range(catalog) : m.id # Absent
  BY DEF IsCatalog, IsSequence
<1>2. 1 \in DOMAIN catalog
  BY <1>1, FirstIsThere
<1>3. \A i \in DOMAIN catalog : catalog[i].id # Absent
  BY <1>1 DEF Range
<1> QED BY <1>2, <1>3 DEF Range, Ids, Selected

-----------------------------------------------------------------------------
(* Cameras *)

\* What enumerate() lists is a device under the index the system has for it.
LEMMA EnumeratedDevices ==
  ASSUME NEW found, AreDevices(found)
  PROVE  LET list == Enumerated(found)
         IN  /\ list \in Seq(Range(list))
             /\ \A d \in Range(list) : /\ found[d.index + 1].id = d.id /\ found[d.index + 1].named
                                       /\ d.id # Absent
<1> DEFINE all == [i \in DOMAIN found |-> i]
           places == KeepIn(all, Discovered(found))
           list == Enumerated(found)
<1>1. found \in Seq(Range(found)) /\ \A i \in DOMAIN found : found[i].named => found[i].id # Absent
  BY DEF AreDevices, IsSequence, Range
<1>2. DOMAIN found = 1..Len(found) /\ Len(found) \in Nat
  BY <1>1
<1>3. all \in Seq(DOMAIN found)
  BY <1>2
<1> HIDE DEF all
<1>4. places \in Seq(DOMAIN found \cap Discovered(found))
  BY <1>3, KeepInType
<1>5. DOMAIN places = 1..Len(places) /\ Len(places) \in Nat
  BY <1>4
<1>6. \A k \in DOMAIN places : places[k] \in DOMAIN found \cap Discovered(found)
  BY <1>4
<1>7. list = [k \in DOMAIN places |-> [id |-> found[places[k]].id, index |-> places[k] - 1]]
  BY DEF Enumerated, all
<1> HIDE DEF places, list
<1>8. list \in Seq(Range(list))
  <2>1. \A k \in 1..Len(places) : list[k] \in Range(list)
    BY <1>5, <1>7 DEF Range
  <2> QED BY <1>5, <1>7, <2>1
<1>9. ASSUME NEW d \in Range(list)
      PROVE  found[d.index + 1].id = d.id /\ found[d.index + 1].named /\ d.id # Absent
  <2>1. PICK k \in DOMAIN places : d = [id |-> found[places[k]].id, index |-> places[k] - 1]
    BY <1>7 DEF Range
  <2>2. places[k] \in DOMAIN found /\ found[places[k]].named
    BY <1>6 DEF Discovered
  <2>3. d.index + 1 = places[k] /\ d.id = found[places[k]].id
    BY <1>2, <2>1, <2>2
  <2> QED BY <1>1, <2>2, <2>3
<1> QED BY <1>8, <1>9 DEF list

\* The camera that is shown is one of the devices, and none only if there are none.
CameraOf(c, list) == IF list = <<>> THEN c = Absent ELSE c \in DeviceIds(list)

LEMMA PreferredIsThere ==
  ASSUME NEW U, NEW list \in Seq(U), NEW id, NEW legacy
  PROVE  CameraOf(Preferred(list, id, legacy), list)
<1>1. list = <<>> => Range(list) = {}
  BY NoElements
<1>2. list # <<>> => list[1] \in Range(list)
  BY FirstIsThere
<1>3. (\E d \in Range(list) : d.index = legacy) => (CHOOSE d \in Range(list) : d.index = legacy) \in Range(list)
  OBVIOUS
<1> QED BY <1>1, <1>2, <1>3 DEF CameraOf, Preferred, DeviceIds

\* enumerateCameraDevices() shows a camera of what it has found; one that was asked for is kept if it is there.
LEMMA EnumerateShows ==
  ASSUME NEW found, AreDevices(found), NEW id, NEW legacy, Enumerate(found, id, legacy)
  PROVE  /\ devices' \in {<<>>, Enumerated(found)}
         /\ CameraOf(camera', devices')
         /\ id \in DeviceIds(devices') => camera' = id
<1>1. CASE devices' = Enumerated(found) /\ camera' = Preferred(Enumerated(found), id, legacy)
  <2>1. Enumerated(found) \in Seq(Range(Enumerated(found)))
    BY EnumeratedDevices
  <2>2. CameraOf(Preferred(Enumerated(found), id, legacy), Enumerated(found))
    BY <2>1, PreferredIsThere
  <2>3. id \in DeviceIds(Enumerated(found)) => Preferred(Enumerated(found), id, legacy) = id
    BY DEF Preferred
  <2> QED BY <1>1, <2>2, <2>3
<1>2. CASE devices' = <<>> /\ camera' = Absent
  <2>1. DeviceIds(<<>>) = {}
    BY DEF DeviceIds, Range
  <2> QED BY <1>2, <2>1 DEF CameraOf
<1> QED BY <1>1, <1>2 DEF Enumerate

-----------------------------------------------------------------------------
(* Model roots *)

\* A root that is found holds models, and the one that was named is not replaced by another.
LEMMA DiscoveredRoot ==
  ASSUME NEW named, NEW environment, NEW withMetadata, DiscoverModelRoot(named, environment, withMetadata) # NoRoot
  PROVE  /\ DiscoverModelRoot(named, environment, withMetadata) \in withMetadata
         /\ named # Absent => DiscoverModelRoot(named, environment, withMetadata) = named
         /\ named = Absent /\ environment # Absent => DiscoverModelRoot(named, environment, withMetadata) = environment
BY DEF DiscoverModelRoot

\* The root of a start holds models, and is the one that was named unless the user picked another.
LEMMA RootIsNamed ==
  ASSUME NEW w, NEW o, NEW picked \in {Absent, "picked"}, Root(w, o, picked) # NoRoot
  PROVE  /\ Root(w, o, picked) \in w.withMetadata
         /\ o.models # Absent => Root(w, o, picked) \in {o.models, "picked"}
         /\ o.models = Absent /\ w.environment # Absent => Root(w, o, picked) \in {w.environment, "picked"}
<1> DEFINE found == DiscoverModelRoot(o.models, w.environment, w.withMetadata)
           fromSettings == DiscoverModelRoot(store.root, Absent, w.withMetadata)
           chosen == DiscoverModelRoot(picked, Absent, w.withMetadata)
<1>1. found # NoRoot => /\ found \in w.withMetadata
                        /\ o.models # Absent => found = o.models
                        /\ o.models = Absent /\ w.environment # Absent => found = w.environment
  BY DiscoveredRoot
<1>2. fromSettings # NoRoot => fromSettings \in w.withMetadata
  BY DiscoveredRoot
<1>3. chosen # NoRoot /\ picked = "picked" => chosen \in w.withMetadata /\ chosen = "picked"
  <2>1. "picked" # Absent
    BY DEF Absent
  <2> QED BY <2>1, DiscoveredRoot
<1> HIDE DEF found, fromSettings, chosen
<1>4. SavedRoot(w, o) = IF found = NoRoot /\ o.models = Absent /\ w.environment = Absent /\ store.root # Absent
                          THEN fromSettings ELSE found
  BY DEF SavedRoot, found, fromSettings
<1>5. Root(w, o, picked) = IF SavedRoot(w, o) # NoRoot \/ picked = Absent THEN SavedRoot(w, o) ELSE chosen
  BY DEF Root, chosen
<1> QED BY <1>1, <1>2, <1>3, <1>4, <1>5

-----------------------------------------------------------------------------
(* Starts and ends *)

\* A window that shows a catalog shows one of its models, of that model one backend that this build has, and
\* one of the cameras.
IsWindow(w) ==
    w = [models |-> w.models, model |-> w.model, backend |-> w.backend, devices |-> w.devices, camera |-> w.camera,
         threshold |-> w.threshold]
WindowOK(window, available) ==
    /\ IsWindow(window)
    /\ IsCatalog(window.models) /\ window.models # <<>> /\ Absent \notin available
    /\ window.model \in Range(Ids(window.models))
    /\ OneOf(window.backend, BackendsOf(window.models, window.model, available))
    /\ CameraOf(window.camera, window.devices)

\* What is stored with the model that was last shown is the rest of what was shown.
InStore ==
    store.model = last.window.model =>
        /\ store.backend = last.window.backend
        /\ store.camera = last.window.camera
        /\ store.confidence = last.window.threshold

StartupInv ==
    /\ phase \in {"ended", "noController", "failed", "running"}
    /\ IsWorld(world)
    /\ phase # "running" => model = Absent
    /\ phase = "running" => /\ WindowOK(Window, world.backends)
                            /\ backends = BackendsOf(models, model, world.backends)
                            /\ devices \in {<<>>, Enumerated(world.devices)}
    /\ phase \in {"running", "failed"} => NamedRootIsUsed
    /\ last.window.models # <<>> => WindowOK(last.window, last.available) /\ InStore

\* The invariant holds before the first start.
LEMMA StartupInitInv == StartupInit => StartupInv
<1> SUFFICES ASSUME StartupInit PROVE StartupInv
  OBVIOUS
<1>1. IsWorld(world)
  BY WorldsAssumption DEF StartupInit
<1>2. last.window.models = <<>>
  BY DEF StartupInit, Seen, Window
<1> QED BY <1>1, <1>2 DEF StartupInit, StartupInv

\* A start that does not get to a window.
LEMMA StartFailsKeepsInv ==
  ASSUME StartupInv, NEW arguments, NEW found \in Worlds, NEW picked \in {Absent, "picked"},
         LaunchWithoutRoot(arguments, found, picked) \/ InitializeFails(arguments, found, picked)
  PROVE  StartupInv'
<1>1. IsWorld(found) /\ world' = found /\ phase = "ended" /\ UNCHANGED <<store, last, model>>
  BY WorldsAssumption DEF LaunchWithoutRoot, InitializeFails, StartProgram, windowVars
<1>2. IsWorld(world')
  BY <1>1
<1>3. phase' \in {"noController", "failed"}
  BY DEF LaunchWithoutRoot, InitializeFails
<1>4. phase' = "failed" => NamedRootIsUsed'
  <2> SUFFICES ASSUME phase' = "failed" PROVE NamedRootIsUsed'
    OBVIOUS
  <2>1. root' = Root(found, commandLine', picked) /\ root' # NoRoot
    BY DEF LaunchWithoutRoot, InitializeFails
  <2> QED BY <1>1, <2>1, RootIsNamed DEF NamedRootIsUsed
<1>5. (last.window.models # <<>> => WindowOK(last.window, last.available) /\ InStore)'
  BY <1>1 DEF StartupInv, InStore
<1>6. model' = Absent
  BY <1>1 DEF StartupInv
<1> QED BY <1>2, <1>3, <1>4, <1>5, <1>6 DEF StartupInv

\* initialize() shows a model of the catalog, a backend of it and a camera.
LEMMA InitializeShows ==
  ASSUME NEW arguments, NEW found \in Worlds, NEW picked \in {Absent, "picked"},
         Initialize(arguments, found, picked)
  PROVE  /\ world' = found /\ IsWorld(found)
         /\ WindowOK(Window', found.backends)
         /\ backends' = BackendsOf(models', model', found.backends)
         /\ devices' \in {<<>>, Enumerated(found.devices)}
         /\ NamedRootIsUsed'
<1> DEFINE catalog == found.registries[root']
           available == found.backends
           wantedModel == Given(commandLine'.model, store.model)
           wantedBackend == Given(commandLine'.backend, store.backend)
           first == IF catalog = <<>> THEN Absent ELSE catalog[1].id
           id == Selected(Ids(catalog), wantedModel, first)
           entries == BackendsOf(catalog, id, available)
           byModel == Rebuilt(catalog, id, available, Rebuilt(catalog, first, available, Absent))
<1>1. world' = found /\ IsWorld(found)
  BY WorldsAssumption DEF Initialize
<1>2. root' = Root(found, commandLine', picked) /\ root' # NoRoot
  BY DEF Initialize
<1>3. /\ root' \in found.withMetadata
      /\ NamedRootIsUsed'
  BY <1>1, <1>2, RootIsNamed DEF NamedRootIsUsed
<1>4. IsCatalog(catalog) /\ catalog # <<>> /\ Absent \notin available /\ AreDevices(found.devices)
  BY <1>1, <1>3 DEF Initialize, IsWorld
<1>5. /\ models' = catalog /\ model' = id /\ backends' = entries
      /\ backend' = Selected(entries, wantedBackend, byModel)
  BY DEF Initialize, SetCatalog
<1> HIDE DEF catalog, wantedModel, wantedBackend, available
<1>6. id \in Range(Ids(catalog))
  BY <1>4, FirstModel
<1> HIDE DEF id
<1>7. OneOf(byModel, entries)
  BY <1>4, <1>6, RebuiltIsOneOf
<1>8. entries \in Seq(available)
  BY <1>4, <1>6, BackendsAreUsable
<1> HIDE DEF entries, byModel
<1>9. OneOf(backend', entries)
  BY <1>5, <1>7, <1>8, SelectedIsOneOf
<1>10. Enumerate(found.devices, store.camera,
                 IF commandLine'.camera # NoNumber THEN commandLine'.camera ELSE store.legacy)
  BY DEF Initialize
<1>11. devices' \in {<<>>, Enumerated(found.devices)} /\ CameraOf(camera', devices')
  BY <1>4, <1>10, EnumerateShows
<1>12. WindowOK(Window', found.backends)
  BY <1>4, <1>5, <1>6, <1>9, <1>11 DEF WindowOK, Window, IsWindow, entries, available
<1>13. backends' = BackendsOf(models', model', found.backends)
  BY <1>5 DEF entries, available
<1> QED BY <1>1, <1>3, <1>11, <1>12, <1>13

\* A start that gets to a window keeps the invariant.
LEMMA InitializeKeepsInv ==
  ASSUME StartupInv, NEW arguments, NEW found \in Worlds, NEW picked \in {Absent, "picked"},
         Initialize(arguments, found, picked)
  PROVE  StartupInv'
<1>1. /\ world' = found /\ IsWorld(found)
      /\ WindowOK(Window', found.backends)
      /\ backends' = BackendsOf(models', model', found.backends)
      /\ devices' \in {<<>>, Enumerated(found.devices)}
      /\ NamedRootIsUsed'
  BY InitializeShows
<1>2. phase' = "running" /\ UNCHANGED <<store, last>>
  BY DEF Initialize
<1>3. (last.window.models # <<>> => WindowOK(last.window, last.available) /\ InStore)'
  BY <1>2 DEF StartupInv, InStore
<1>4. IsWorld(world') /\ WindowOK(Window', world'.backends) /\ backends' = BackendsOf(models', model', world'.backends)
      /\ devices' \in {<<>>, Enumerated(world'.devices)}
  BY <1>1
<1> QED BY <1>1, <1>2, <1>3, <1>4 DEF StartupInv

\* What the user chooses is there.
LEMMA ChoosingKeepsInv ==
  ASSUME StartupInv, NEW id,
         ChooseModel(id) \/ ChooseBackend(id) \/ ChooseCamera(id) \/ EditThreshold
  PROVE  StartupInv'
<1>1. phase = "running" /\ UNCHANGED <<phase, world, commandLine, store, models, devices, root, last>>
  BY DEF ChooseModel, ChooseBackend, ChooseCamera, EditThreshold
<1>2. /\ WindowOK(Window, world.backends)
      /\ backends = BackendsOf(models, model, world.backends)
      /\ IsCatalog(models) /\ Absent \notin world.backends
      /\ model \in Range(Ids(models))
      /\ OneOf(backend, backends) /\ CameraOf(camera, devices)
  BY <1>1 DEF StartupInv, WindowOK, Window
<1>3. /\ backends' = BackendsOf(models, model', world.backends)
      /\ model' \in Range(Ids(models))
      /\ OneOf(backend', backends')
  <2>1. CASE ChooseModel(id)
    <3>1. /\ id \in Range(Ids(models)) /\ model' = id
          /\ backends' = BackendsOf(models, id, world.backends)
          /\ backend' = Rebuilt(models, id, world.backends, backend)
      BY <2>1 DEF ChooseModel
    <3> QED BY <1>2, <3>1, RebuiltIsOneOf
  <2>2. CASE ChooseBackend(id)
    <3>1. backends \in Seq(world.backends)
      BY <1>2, BackendsAreUsable
    <3>2. backends # <<>>
      BY <2>2, <3>1, NoElements DEF ChooseBackend
    <3> QED BY <1>2, <2>2, <3>2 DEF ChooseBackend, OneOf
  <2>3. CASE ChooseCamera(id) \/ EditThreshold
    BY <1>2, <2>3 DEF ChooseCamera, EditThreshold
  <2> QED BY <2>1, <2>2, <2>3
<1>4. CameraOf(camera', devices)
  <2>1. CASE ChooseCamera(id)
    <3>1. devices # <<>>
      BY <2>1 DEF ChooseCamera, DeviceIds, Range
    <3> QED BY <2>1, <3>1 DEF ChooseCamera, CameraOf
  <2>2. CASE camera' = camera
    BY <1>2, <2>2
  <2> QED BY <2>1, <2>2 DEF ChooseModel, ChooseBackend, EditThreshold
<1>5. WindowOK(Window', world'.backends)
  BY <1>1, <1>2, <1>3, <1>4 DEF WindowOK, Window, IsWindow
<1>6. (last.window.models # <<>> => WindowOK(last.window, last.available) /\ InStore)'
  BY <1>1 DEF StartupInv, InStore
<1>7. (NamedRootIsUsed /\ IsWorld(world) /\ devices \in {<<>>, Enumerated(world.devices)})'
  BY <1>1 DEF StartupInv, NamedRootIsUsed
<1> QED BY <1>1, <1>3, <1>5, <1>6, <1>7 DEF StartupInv

\* Refresh lists what is there now, and keeps the camera if that is still there.
LEMMA RefreshKeepsInv ==
  ASSUME StartupInv, NEW w \in Worlds, Refresh(w.devices)
  PROVE  StartupInv' /\ (camera \in DeviceIds(devices') => camera' = camera)
<1>1. /\ phase = "running" /\ phase' = "running"
      /\ UNCHANGED <<commandLine, store, models, model, backends, backend, threshold, root, last>>
      /\ world' = [world EXCEPT !.devices = w.devices] /\ Enumerate(w.devices, camera, NoNumber)
  BY DEF Refresh
<1>2. IsWorld(w) /\ IsWorld(world)
  BY WorldsAssumption DEF StartupInv
<1>3. /\ DOMAIN world' = DOMAIN world /\ world'.devices = w.devices
      /\ world'.backends = world.backends /\ world'.environment = world.environment
      /\ world'.registries = world.registries /\ world'.withMetadata = world.withMetadata
  BY <1>1, <1>2 DEF IsWorld
<1>4. IsWorld(world')
  BY <1>2, <1>3 DEF IsWorld
<1>5. /\ devices' \in {<<>>, Enumerated(w.devices)} /\ CameraOf(camera', devices')
      /\ camera \in DeviceIds(devices') => camera' = camera
  BY <1>1, <1>2, EnumerateShows DEF IsWorld
<1>6. WindowOK(Window', world'.backends) /\ backends' = BackendsOf(models', model', world'.backends)
  <2>1. WindowOK(Window, world.backends) /\ backends = BackendsOf(models, model, world.backends)
    BY <1>1 DEF StartupInv
  <2> QED BY <1>1, <1>3, <1>5, <2>1 DEF WindowOK, Window, IsWindow
<1>7. NamedRootIsUsed'
  BY <1>1, <1>3 DEF StartupInv, NamedRootIsUsed
<1>8. (last.window.models # <<>> => WindowOK(last.window, last.available) /\ InStore)'
  BY <1>1 DEF StartupInv, InStore
<1> QED BY <1>1, <1>3, <1>4, <1>5, <1>6, <1>7, <1>8 DEF StartupInv

\* What is stored at the end is what the window shows; the store of a failed start names no model.
LEMMA ShutdownKeepsInv == ASSUME StartupInv, Shutdown PROVE StartupInv'
<1>1. phase' = "ended" /\ model' = Absent /\ world' = world
  BY DEF Shutdown, NoWindow
<1>2. (last.window.models # <<>> => WindowOK(last.window, last.available) /\ InStore)'
  <2>1. CASE phase = "running"
    <3>1. /\ last' = Seen
          /\ store' = Stored(model, backend, camera, NoNumber, threshold, root)
      BY <2>1 DEF Shutdown, SaveSettings
    <3>2. last'.window = Window /\ last'.available = world.backends
      BY <3>1 DEF Seen
    <3>3. WindowOK(last'.window, last'.available)
      BY <2>1, <3>2 DEF StartupInv
    <3>4. InStore'
      BY <3>1, <3>2 DEF InStore, Stored, Window
    <3> QED BY <3>3, <3>4
  <2>2. CASE phase = "failed"
    <3>1. last' = last /\ store'.model = Absent
      BY <2>2 DEF Shutdown, SaveSettings, Stored, StartupInv
    <3>2. ASSUME last.window.models # <<>> PROVE last.window.model # Absent
      <4>1. IsCatalog(last.window.models) /\ last.window.model \in Range(Ids(last.window.models))
        BY <3>2 DEF StartupInv, WindowOK
      <4> QED BY <3>2, <4>1, FirstModel
    <3> QED BY <3>1, <3>2 DEF StartupInv, InStore
  <2>3. CASE phase = "noController"
    BY <2>3 DEF Shutdown, StartupInv, InStore
  <2> QED BY <2>1, <2>2, <2>3 DEF Shutdown
<1> QED BY <1>1, <1>2 DEF StartupInv

\* The invariant holds in every start.
LEMMA StartupStepKeepsInv == ASSUME StartupInv, [StartupNext]_startupVars PROVE StartupInv'
<1>1. ASSUME UNCHANGED startupVars PROVE StartupInv'
  BY <1>1 DEF startupVars, windowVars, StartupInv, Window, NamedRootIsUsed, InStore
<1>2. ASSUME NEW arguments \in CommandLines, LaunchRefused(arguments) PROVE StartupInv'
  BY <1>1, <1>2 DEF LaunchRefused
<1>3. ASSUME NEW arguments \in CommandLines, NEW found \in Worlds, NEW picked \in {Absent, "picked"},
             LaunchWithoutRoot(arguments, found, picked) \/ InitializeFails(arguments, found, picked)
               \/ Initialize(arguments, found, picked)
      PROVE  StartupInv'
  BY <1>3, StartFailsKeepsInv, InitializeKeepsInv
<1>4. ASSUME NEW w \in Worlds, Refresh(w.devices) PROVE StartupInv'
  BY <1>4, RefreshKeepsInv
<1>5. ASSUME NEW id, ChooseModel(id) \/ ChooseBackend(id) \/ ChooseCamera(id) PROVE StartupInv'
  BY <1>5, ChoosingKeepsInv
<1>6. ASSUME EditThreshold PROVE StartupInv'
  BY <1>6, ChoosingKeepsInv
<1> QED BY <1>1, <1>2, <1>3, <1>4, <1>5, <1>6, ShutdownKeepsInv DEF StartupNext

\* The invariant holds always.
THEOREM StartupCorrect == StartupSpec => []StartupInv
BY StartupInitInv, StartupStepKeepsInv, PTL DEF StartupSpec

\* A window offers what is there.
THEOREM WindowAlwaysOfWorld == StartupSpec => []WindowIsOfWorld
<1>1. ASSUME StartupInv PROVE WindowIsOfWorld
  <2>1. ASSUME phase = "running" PROVE BackendIsUsable /\ IndexIsOfDevice
    <3>1. /\ IsCatalog(models) /\ Absent \notin world.backends /\ model \in Range(Ids(models))
          /\ OneOf(backend, backends) /\ backends = BackendsOf(models, model, world.backends)
          /\ devices \in {<<>>, Enumerated(world.devices)} /\ AreDevices(world.devices)
      BY <1>1, <2>1 DEF StartupInv, WindowOK, Window, IsWorld
    <3>2. backends \in Seq(world.backends) /\ Range(backends) = Usable
      BY <3>1, BackendsAreUsable DEF Usable
    <3>3. backends = <<>> <=> Usable = {}
      BY <3>2, NoElements
    <3>4. BackendIsUsable
      BY <3>1, <3>2, <3>3 DEF BackendIsUsable, OneOf, Usable
    <3>5. IndexIsOfDevice
      <4>1. devices = <<>> => Range(devices) = {}
        BY DEF Range
      <4> QED BY <3>1, <4>1, EnumeratedDevices DEF IndexIsOfDevice
    <3> QED BY <3>4, <3>5
  <2> QED BY <1>1, <2>1 DEF WindowIsOfWorld, StartupInv
<1> QED BY <1>1, StartupCorrect, PTL

\* A start that finds the same again shows what the window showed when it was closed.
LEMMA SameIsShown ==
  ASSUME StartupInv, NEW arguments, NEW found \in Worlds, NEW picked \in {Absent, "picked"},
         Initialize(arguments, found, picked), SameAgain
  PROVE  Window' = last.window
<1>1. /\ world' = found /\ models' # <<>> /\ backends' = BackendsOf(models', model', found.backends)
      /\ IsCatalog(models') /\ Absent \notin found.backends
      /\ CameraOf(camera', devices') /\ OneOf(backend', backends')
      /\ model' \in Range(Ids(models'))
  BY InitializeShows DEF WindowOK, Window, IsWindow
<1>2. /\ models' = last.window.models /\ devices' = last.window.devices /\ found.backends = last.available
      /\ store.model = last.window.model /\ commandLine' = NoOptions
  BY <1>1 DEF SameAgain
<1>3. /\ WindowOK(last.window, last.available) /\ InStore
  BY <1>1, <1>2 DEF StartupInv
<1>4. /\ store.backend = last.window.backend /\ store.camera = last.window.camera
      /\ store.confidence = last.window.threshold
      /\ last.window.model \in Range(Ids(models'))
      /\ OneOf(last.window.backend, BackendsOf(models', last.window.model, found.backends))
      /\ CameraOf(last.window.camera, devices')
  BY <1>2, <1>3 DEF InStore, WindowOK
<1>5. /\ NoOptions.model = Absent /\ NoOptions.backend = Absent /\ NoOptions.confidence = NoNumber
  BY DEF NoOptions
<1>6. model' = Selected(Ids(models'), store.model, IF models' = <<>> THEN Absent ELSE models'[1].id)
  BY <1>2, <1>5 DEF Initialize, SetCatalog, Given
<1>7. model' = last.window.model
  BY <1>2, <1>4, <1>6 DEF Selected
<1>8. store.backend \in Range(backends') => backend' = store.backend
  BY <1>2, <1>5 DEF Initialize, SetCatalog, Given, Selected
<1>9. backend' = last.window.backend
  BY <1>1, <1>4, <1>7, <1>8 DEF OneOf
<1>10. store.camera \in DeviceIds(devices') => camera' = store.camera
  <2>1. Enumerate(found.devices, store.camera,
                  IF commandLine'.camera # NoNumber THEN commandLine'.camera ELSE store.legacy)
    BY DEF Initialize
  <2>2. AreDevices(found.devices)
    BY WorldsAssumption DEF IsWorld
  <2> QED BY <2>1, <2>2, EnumerateShows
<1>11. camera' = last.window.camera
  BY <1>1, <1>4, <1>10 DEF CameraOf
<1>12. threshold' = last.window.threshold
  BY <1>2, <1>4, <1>5 DEF Initialize
<1>13. IsWindow(last.window)
  BY <1>3 DEF WindowOK
<1> QED BY <1>2, <1>7, <1>9, <1>11, <1>12, <1>13 DEF Window, IsWindow

\* Closing and starting again restores the window, and Refresh keeps the camera.
THEOREM RestartAlwaysRestores == StartupSpec => RestartRestores
<1> DEFINE Restoring ==
        /\ phase = "ended" /\ phase' = "running" /\ SameAgain => Window' = last.window
        /\ phase = "running" /\ phase' = "running" /\ camera \in DeviceIds(devices') =>
              camera' = camera \/ devices' = devices
<1>1. ASSUME StartupInv, StartupNext PROVE Restoring
  <2>1. ASSUME phase = "ended", phase' = "running"
        PROVE  \E arguments \in CommandLines, found \in Worlds, picked \in {Absent, "picked"} :
                  Initialize(arguments, found, picked)
    BY <1>1, <2>1 DEF StartupNext, LaunchRefused, LaunchWithoutRoot, InitializeFails, ChooseModel, ChooseBackend,
                      ChooseCamera, Refresh, EditThreshold, Shutdown, startupVars
  <2>2. ASSUME phase = "ended", phase' = "running", SameAgain PROVE Window' = last.window
    BY <1>1, <2>1, <2>2, SameIsShown
  <2>3. ASSUME phase = "running", phase' = "running", camera \in DeviceIds(devices')
        PROVE  camera' = camera \/ devices' = devices
    <3>1. ASSUME NEW w \in Worlds, Refresh(w.devices) PROVE camera' = camera
      BY <1>1, <2>3, <3>1, RefreshKeepsInv
    <3> QED BY <1>1, <2>3, <3>1 DEF StartupNext, LaunchRefused, LaunchWithoutRoot, InitializeFails, Initialize,
                      StartProgram, ChooseModel, ChooseBackend, ChooseCamera, EditThreshold, Shutdown
  <2> QED BY <2>2, <2>3
<1>2. ASSUME StartupInv, StartupNext \/ UNCHANGED startupVars PROVE Restoring \/ UNCHANGED startupVars
  BY <1>1, <1>2
<1>3. StartupInv /\ [StartupNext]_startupVars => [Restoring]_startupVars
  BY <1>2
<1> QED BY <1>3, StartupCorrect, PTL DEF StartupSpec, RestartRestores
=============================================================================
