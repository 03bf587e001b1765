------------------------- MODULE InferenceProtocol -------------------------
(***************************************************************************)
(* The inference half of AppController and the InferenceWorker it talks    *)
(* to.  The controller loads models, changes the source of frames, submits *)
(* frames and shows the detections that come back; what it does between    *)
(* the critical sections and the notifications of one call interleaves     *)
(* with the worker.  A frame is the number of its submission.              *)
(***************************************************************************)
EXTENDS InferenceWorker

CONSTANTS MaxLoads, MaxSources, MaxFrames   \* bounds on what the GUI asks for

ASSUME InferenceBounds ==
    MaxLoads \in Nat /\ MaxSources \in Nat /\ MaxFrames \in Nat

VARIABLES modelState,        \* modelState_
          sourceGeneration,  \* sourceGeneration_
          packet,            \* currentPacket_: the detection that is drawn
          submitted,         \* how many frames were submitted
          clientPc           \* where the GUI thread is

clientVars == <<modelState, sourceGeneration, packet, submitted>>
inferenceVars == <<guiQueue, inferenceWorkerVars, clientVars, clientPc>>

ModelStates == {"NoModel", "Loading", "Ready", "Error", "Unloading"}
ClientPcs == {"loop", "requestLoad", "submit", "notify",
              "stop", "stopNotify", "join", "closed", "exited"}

\* thread_ is declared, and so started, before mutex_ and stopping_ are
\* initialised: run() may read a stopping_ that happens to be true and return.
InferenceInit == /\ guiQueue = <<>>
                 /\ InferenceWorkerInit({"waiting", "exited"}, EmptyInbox)
                 /\ modelState = "NoModel"
                 /\ sourceGeneration = 0
                 /\ packet = NoPacket
                 /\ submitted = 0
                 /\ clientPc = "loop"

-----------------------------------------------------------------------------
(* The GUI thread. *)

workerRest == <<inferencePc, job, detector, loadedGeneration>>

\* invalidateSource(): a new source; what is shown and what waits is dropped.
InvalidateSource == /\ sourceGeneration < MaxSources
                    /\ sourceGeneration' = sourceGeneration + 1
                    /\ packet' = NoPacket
                    /\ inbox' = WithSource(inbox, sourceGeneration + 1)

\* performModelLoad(): the Load button is disabled while a model is loading.
PerformModelLoad == /\ clientPc = "loop"
                    /\ modelState # "Loading"
                    /\ inbox.desired < MaxLoads
                    /\ InvalidateSource
                    /\ modelState' = "Loading"
                    /\ clientPc' = "requestLoad"
                    /\ UNCHANGED <<guiQueue, workerRest, submitted>>
\* A faulty variant: requestLoad() does not notify.
RequestLoadSilently == /\ clientPc = "requestLoad"
                       /\ inbox' = WithLoad(inbox)
                       /\ clientPc' = "loop"
                       /\ UNCHANGED <<guiQueue, workerRest, clientVars>>

RequestLoad == /\ clientPc = "requestLoad"
               /\ inbox' = WithLoad(inbox)
               /\ clientPc' = "notify"
               /\ UNCHANGED <<guiQueue, workerRest, clientVars>>

\* Opening an image or Refresh goes on to submit the image, if there is one;
\* starting and stopping the camera does not.
ChangeSource == /\ clientPc = "loop"
                /\ InvalidateSource
                /\ clientPc' \in {"loop", "submit"}
                /\ UNCHANGED <<guiQueue, workerRest, modelState, submitted>>
\* A camera frame or the retained image.
SubmitFrame == /\ clientPc \in {"loop", "submit"}
               /\ modelState = "Ready"
               /\ submitted < MaxFrames
               /\ submitted' = submitted + 1
               /\ IF TakesFrame(inbox, sourceGeneration)
                  THEN /\ inbox' = WithFrame(inbox, submitted + 1, sourceGeneration)
                       /\ clientPc' = "notify"
                  ELSE clientPc' = "loop" /\ UNCHANGED inbox
               /\ UNCHANGED <<guiQueue, workerRest, modelState, sourceGeneration, packet>>

\* No image is retained, no model is ready, or the bound is reached.
SubmitNothing == /\ clientPc = "submit"
                 /\ clientPc' = "loop"
                 /\ UNCHANGED <<guiQueue, inferenceWorkerVars, clientVars>>

NotifyWorker == /\ clientPc \in {"notify", "stopNotify"}
                /\ Notify
                /\ clientPc' = IF clientPc = "notify" THEN "loop" ELSE "join"
                /\ UNCHANGED <<guiQueue, inbox, job, detector, loadedGeneration, clientVars>>

\* The event loop delivers events until the application quits, those that are
\* queued when shutdown() returns included.
Handle(event) == /\ clientPc \in {"loop", "closed"}
                 /\ Deliver(event)
                 /\ UNCHANGED <<inferenceWorkerVars, sourceGeneration, submitted>>

Queued == Head(guiQueue)

\* The handler looks at no generation.  It goes on to submit the retained image.
OnModelLoaded ==
    /\ Handle(InferenceEvent("modelLoaded", Queued.load, NoFrame, 0))
    /\ modelState' = "Ready"
    /\ clientPc' \in IF clientPc = "loop" THEN {"loop", "submit"} ELSE {clientPc}
    /\ UNCHANGED packet

OnLoadFailed == /\ Handle(InferenceEvent("loadFailed", Queued.load, NoFrame, 0))
                /\ modelState' = "Error"
                /\ UNCHANGED <<packet, clientPc>>

\* It may stop the camera, which changes the source.
OnInferenceFailed == /\ Handle(InferenceEvent("inferenceFailed", NoLoad, Queued.frame, 0))
                     /\ UNCHANGED <<modelState, packet, clientPc>>
\* A faulty variant: the source is not compared.
OnAnyDetection ==
    /\ Handle(InferenceEvent("detection", Queued.load, Queued.frame, Queued.dropped))
    /\ packet' = Queued
    /\ UNCHANGED <<modelState, clientPc>>

OnDetection ==
    /\ Handle(InferenceEvent("detection", Queued.load, Queued.frame, Queued.dropped))
    /\ packet' = IF Queued.frame.source = sourceGeneration THEN Queued ELSE packet
    /\ UNCHANGED <<modelState, clientPc>>

\* shutdown(): the camera is stopped first, then the inference worker.
Shutdown == /\ clientPc = "loop"
            /\ modelState' = "Unloading"
            /\ clientPc' = "stop"
            /\ UNCHANGED <<guiQueue, inferenceWorkerVars, sourceGeneration, packet, submitted>>
StopWorker == /\ clientPc = "stop"
              /\ inbox' = WithStop(inbox)
              /\ clientPc' = "stopNotify"
              /\ UNCHANGED <<guiQueue, workerRest, clientVars>>

Joined == /\ clientPc = "join"
          /\ inferencePc = "exited"
          /\ clientPc' = "closed"
          /\ UNCHANGED <<guiQueue, inferenceWorkerVars, clientVars>>

Quit == /\ clientPc = "closed"
        /\ clientPc' = "exited"
        /\ UNCHANGED <<guiQueue, inferenceWorkerVars, clientVars>>

Terminated == clientPc = "exited" /\ UNCHANGED inferenceVars

\* What the GUI thread does of itself, and what the user or the camera may do.
Continue == \/ RequestLoad \/ NotifyWorker \/ SubmitNothing
            \/ StopWorker \/ Joined \/ Quit
            \/ OnModelLoaded \/ OnLoadFailed \/ OnInferenceFailed \/ OnDetection

Thread == InferenceThread /\ UNCHANGED <<clientVars, clientPc>>

Spurious == SpuriousWakeup /\ UNCHANGED <<clientVars, clientPc>>

InferenceNext == \/ PerformModelLoad \/ ChangeSource \/ SubmitFrame \/ Shutdown
                 \/ Continue \/ Thread \/ Spurious \/ Terminated

\* Both threads are scheduled; loading a model and detecting in a frame end.
InferenceSpec == /\ InferenceInit /\ [][InferenceNext]_inferenceVars
                 /\ WF_inferenceVars(Continue) /\ WF_inferenceVars(Thread)

-----------------------------------------------------------------------------
(* Properties. *)

FrameType == [frame : Nat, source : Nat]
InferenceEventType ==
    [event : {"modelLoaded", "loadFailed", "inferenceFailed", "detection"},
     load : Nat, frame : FrameType, dropped : Nat]

\* The types of the mailbox, the worker, its events and the controller.
InferenceTypeOK ==
    /\ guiQueue \in Seq(InferenceEventType)
    /\ inbox \in [stopping : BOOLEAN, desired : Nat, source : Nat, dropped : Nat,
                  load : Nat, frame : FrameType]
    /\ inferencePc \in InferencePcs
    /\ job \in [load : Nat, frame : FrameType, dropped : Nat]
    /\ detector \in BOOLEAN /\ loadedGeneration \in Nat
    /\ modelState \in ModelStates
    /\ sourceGeneration \in Nat /\ submitted \in Nat
    /\ packet \in InferenceEventType \cup {NoPacket}
    /\ clientPc \in ClientPcs

Answers == {"modelLoaded", "loadFailed"}

\* The places where a load can be: about to be requested (-2), in the mailbox
\* (-1), being carried out (0), or answered by an event that waits (its index).
LoadPlaces ==
    {place \in -2..0 : \/ place = -2 /\ clientPc = "requestLoad"
                       \/ place = -1 /\ inbox.load # NoLoad
                       \/ place = 0 /\ job.load # NoLoad}
      \cup {i \in 1..Len(guiQueue) : guiQueue[i].event \in Answers}

\* Until the window closes, exactly one load is under way while the window says
\* "Loading" and none otherwise: no answer is lost, and the handler, which does
\* not look at the generation, never takes an answer for another load's.
Open == clientPc \notin {"stop", "stopNotify", "join", "closed", "exited"}
LoadAccountedFor ==
    Open => IF modelState = "Loading" THEN \E place \in LoadPlaces : LoadPlaces = {place}
                                      ELSE LoadPlaces = {}

\* "Ready" means that the worker holds the detector of the last requested load,
\* so that a frame is never worked on without one: the failure run() reports for
\* that never reaches the user.
\* Once the worker was destroyed it says nothing: the answer to a load that ended
\* while the window closed is still delivered and sets "Ready" again.
ReadyIsLoaded ==
    /\ modelState = "Ready" /\ clientPc \notin {"closed", "exited"} =>
          detector /\ loadedGeneration = inbox.desired
    /\ inferencePc = "detecting" => detector

\* The detection in currentPacket_ is of the current source and of the model loaded last,
\* although the handler compares the source only.
ShownIsCurrent ==
    packet # NoPacket => /\ packet.frame.source = sourceGeneration
                         /\ packet.load = inbox.desired
                         /\ modelState # "Loading"

\* No lost wakeup: the worker sleeps on work only until a notification that the
\* GUI thread has still to make.
WorkerIsWoken ==
    inferencePc = "asleep" /\ HasWork(inbox) => clientPc \in {"notify", "stopNotify"}

\* The window steps forward in the frames of a source, and the drop count it
\* shows never exceeds the frames it skipped.
ShownGoesForward ==
    [][packet # NoPacket /\ packet' \notin {packet, NoPacket} =>
            /\ packet'.frame.frame > packet.frame.frame
            /\ packet'.dropped >= packet.dropped
            /\ packet'.dropped - packet.dropped < packet'.frame.frame - packet.frame.frame
      ]_inferenceVars

\* What is asked of the worker is done: a load is answered, by a thread that did
\* start, unless the window closes; a submitted frame is taken or discarded; and
\* closing the window in the middle of any work joins the thread and ends.
WorkIsDone ==
    /\ modelState = "Loading" ~> modelState # "Loading" \/ NeverRan
    /\ inbox.frame # NoFrame ~> inbox.frame = NoFrame
    /\ clientPc = "stop" ~> clientPc = "exited"
=============================================================================
