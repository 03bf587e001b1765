--------------------------- MODULE AppController ---------------------------
(***************************************************************************)
(* AppController: the object on the GUI thread that joins the window, the  *)
(* camera worker and the inference worker.  It adds to the two protocols   *)
(* what connects them: Refresh, a model load that waits for the camera,    *)
(* the sources of frames, the gating of the window's buttons, shutdown.    *)
(*                                                                         *)
(* A handler runs to its end before the next event; what it does to the    *)
(* mailbox of the inference worker is one step here (InferenceProtocol     *)
(* takes it apart).  Operators named after methods map a state of the      *)
(* GUI thread, `now`, to the state after the call.                         *)
(***************************************************************************)
EXTENDS CameraWorker, CameraSession, InferenceWorker, Subsequences

CONSTANTS MaxSessions,                     \* bound: camera sessions
          MaxLoads, MaxSources, MaxFrames  \* bounds on what the user asks for

ASSUME AppBounds == /\ MaxSessions \in Nat \ {0} /\ MaxLoads \in Nat \ {0}
                    /\ MaxSources \in Nat /\ MaxFrames \in Nat

VARIABLES session, sequence, watchdogs, releasePending, timedOut, guiPc,
          app    \* the other fields of the controller and of the window

Camera == INSTANCE CameraProtocol

cameraFields == <<session, sequence, watchdogs, releasePending, timedOut>>
cameraRest == <<cameraPc, activeSession, firstFrameSeen, timerArmed, reply>>
inferenceRest == <<job, detector, loadedGeneration>>
appVars == <<guiQueue, cameraWorkerVars, inferenceWorkerVars, cameraFields, guiPc, app>>

KeepCamera == UNCHANGED <<cameraFields, cameraQueue>>
CameraStartable == session.state \in {"Idle", "Error"}
CameraWanted == session.state \in {"Opening", "Running"}

One(condition) == IF condition THEN 1 ELSE 0

\* After initialize(): the first load is requested, unless nothing can be loaded,
\* and the image of the command line is retained.  The command line names an image
\* or a camera, not both; `camera` is one that was found.  The inference thread may
\* have returned already, because stopping_ was not initialised when it was started.
AppInit == \E load, image, camera, listed \in BOOLEAN :
    LET source == One(load) + One(image)
        box == WithSource(EmptyInbox, source)
    IN  /\ guiQueue = <<>>
        /\ CameraWorkerInit
        /\ InferenceWorkerInit({"waiting", "exited"}, IF load THEN WithLoad(box) ELSE box)
        /\ Camera!ControllerInit
        /\ guiPc = "loop"
        /\ ~(image /\ camera) /\ (camera => listed)
        /\ app = [modelState |-> IF load THEN "Loading" ELSE "Error",
                  sourceGeneration |-> source,
                  cameraSource |-> 0,          \* activeCameraSourceGeneration_
                  currentImage |-> image,      \* an image is retained
                  packet |-> NoPacket,         \* currentPacket_
                  afterCameraStop |-> "None",
                  pendingModelLoad |-> FALSE,
                  refreshActive |-> FALSE,
                  refreshRestartCamera |-> FALSE,
                  modelLoading |-> load,       \* the window says "Loading"
                  camerasListed |-> listed,    \* some camera is listed
                  initialCamera |-> camera,    \* --camera was not carried out yet
                  submitted |-> 0,             \* frames given to the worker
                  usedDestroyed |-> FALSE]     \* inference_ was used after reset()

-----------------------------------------------------------------------------
(* The state of the GUI thread that its methods read and write. *)

GuiState(fields, box, notify) == [app |-> fields, inbox |-> box, notify |-> notify]
WithFields(now, fields) == GuiState(fields, now.inbox, now.notify)
Now == GuiState(app, inbox, FALSE)

Become(now) == /\ app' = now.app
               /\ inbox' = now.inbox
               /\ IF now.notify THEN Notify ELSE UNCHANGED inferencePc
               /\ UNCHANGED inferenceRest

\* inference_ is reset at the end of shutdown().
WorkerExists == guiPc \notin {"closed", "exited"}
\* A faulty variant: the shown detection stays.
InvalidateSourceKeepingPacket(now) ==
    GuiState([now.app EXCEPT !.sourceGeneration = @ + 1],
             IF WorkerExists THEN WithSource(now.inbox, now.app.sourceGeneration + 1) ELSE now.inbox,
             now.notify)

InvalidateSource(now) ==
    GuiState([now.app EXCEPT !.sourceGeneration = @ + 1, !.packet = NoPacket],
             IF WorkerExists THEN WithSource(now.inbox, now.app.sourceGeneration + 1) ELSE now.inbox,
             now.notify)

RequestLoad(now) ==
    GuiState([now.app EXCEPT !.pendingModelLoad = FALSE,
                             !.afterCameraStop = "None",
                             !.modelState = "Loading",
                             !.modelLoading = TRUE,
                             !.usedDestroyed = ~WorkerExists],
             IF WorkerExists THEN WithLoad(now.inbox) ELSE now.inbox,
             WorkerExists)
PerformModelLoad(now) == RequestLoad(InvalidateSource(now))

SubmitFrame(now, source) ==
    IF WorkerExists /\ TakesFrame(now.inbox, source) /\ now.app.submitted < MaxFrames
    THEN GuiState([now.app EXCEPT !.submitted = @ + 1],
                  WithFrame(now.inbox, now.app.submitted + 1, source),
                  TRUE)
    ELSE now
SubmitCurrentImage(now) ==
    IF now.app.modelState = "Ready" /\ now.app.currentImage
    THEN SubmitFrame(now, now.app.sourceGeneration)
    ELSE now

CompleteRefresh(now) ==
    WithFields(now, [now.app EXCEPT !.refreshActive = FALSE, !.refreshRestartCamera = FALSE])

\* enumerateCameraDevices(): whether it succeeds, and what it finds.
Enumerate(now, listed) == WithFields(now, [now.app EXCEPT !.camerasListed = listed])
\* A faulty variant: the camera keeps the source from before the invalidation.
CameraStartedStale(now) ==
    LET invalid == InvalidateSource(now)
    IN  WithFields(invalid, [invalid.app EXCEPT !.cameraSource = now.app.sourceGeneration,
                                                !.currentImage = FALSE])

\* beginCameraStart() past its checks; the camera's part is Camera!BeginCameraStart.
CameraStarted(now) ==
    LET invalid == InvalidateSource(now)
    IN  WithFields(invalid, [invalid.app EXCEPT !.cameraSource = invalid.app.sourceGeneration,
                                                !.currentImage = FALSE])

-----------------------------------------------------------------------------
(* Commands of the user, as far as updateControls() enables the buttons. *)

Command == /\ guiPc = "loop"
           /\ app.sourceGeneration < MaxSources
           /\ UNCHANGED <<guiQueue, cameraRest, guiPc>>

PostponeLoad(now) ==
    WithFields(now, [now.app EXCEPT !.pendingModelLoad = TRUE,
                                    !.afterCameraStop = "LoadModel",
                                    !.modelLoading = TRUE])

LoadModel ==
    /\ Command
    /\ ~app.modelLoading /\ ~app.refreshActive /\ ~releasePending
    /\ inbox.desired < MaxLoads
    /\ \/ CameraStartable /\ KeepCamera /\ Become(PerformModelLoad(Now))
       \/ session.state = "Stopping" /\ KeepCamera /\ Become(PostponeLoad(Now))
       \/ Camera!BeginCameraStop /\ Become(InvalidateSource(PostponeLoad(Now)))

\* refreshSources() at once: a release is pending, or the camera is not in use.
RefreshBlocked == /\ releasePending
                  /\ \E listed \in BOOLEAN : Become(Enumerate(Now, listed))
                  /\ KeepCamera

RefreshIdle == /\ CameraStartable
               /\ \E listed \in BOOLEAN :
                    LET now == Enumerate(InvalidateSource(Now), listed)
                    IN  \/ ~listed /\ Become(now)
                        \/ Become(SubmitCurrentImage(now))
               /\ KeepCamera

\* refreshSources() that waits for the camera to stop.
BeginRefresh(restart) == WithFields(Now, [app EXCEPT !.refreshActive = TRUE,
                                                     !.refreshRestartCamera = restart,
                                                     !.afterCameraStop = "Refresh"])

RefreshAfterStop ==
    \/ session.state = "Stopping" /\ KeepCamera /\ Become(BeginRefresh(FALSE))
    \/ /\ sequence < MaxSessions
       /\ Camera!BeginCameraStop
       /\ Become(InvalidateSource(BeginRefresh(TRUE)))

RefreshSources ==
    /\ Command
    /\ ~app.modelLoading /\ ~app.refreshActive /\ app.modelState # "Loading"
    /\ \/ RefreshBlocked
       \/ ~releasePending /\ (RefreshIdle \/ RefreshAfterStop)

\* loadImagePath() of an image that can be read.
OpenImage ==
    /\ Command
    /\ app.modelState = "Ready" /\ ~app.refreshActive /\ CameraStartable
    /\ KeepCamera
    /\ Become(SubmitCurrentImage(InvalidateSource(WithFields(Now, [app EXCEPT !.currentImage = TRUE]))))

StartCamera ==
    /\ Command
    /\ app.modelState = "Ready" /\ app.camerasListed
    /\ ~app.refreshActive /\ ~releasePending
    /\ Camera!BeginCameraStart(session, watchdogs)
    /\ UNCHANGED <<releasePending, timedOut>>
    /\ Become(CameraStarted(Now))

StopCamera ==
    /\ Command
    /\ session.state = "Running" /\ app.modelState = "Ready" /\ ~app.refreshActive
    /\ Camera!BeginCameraStop
    /\ Become(InvalidateSource(Now))

\* updateThresholds()
UpdateThresholds == /\ Command
                    /\ CameraStartable
                    /\ KeepCamera
                    /\ Become(SubmitCurrentImage(Now))

-----------------------------------------------------------------------------
(* Signals of the camera worker and the watchdogs. *)

Handle(event) == /\ Camera!Dispatching
                 /\ Deliver(event)
                 /\ UNCHANGED <<cameraRest, guiPc>>

OnCameraStarted(s) ==
    /\ Handle(CameraEvent("started", s))
    /\ \/ Camera!AcceptStarted(s) /\ Become(CompleteRefresh(Now))
       \/ Camera!IgnoreStarted(s) /\ Become(Now)

OnCameraFrame(s) ==
    /\ Handle(CameraEvent("frame", s))
    /\ KeepCamera
    /\ Become(IF /\ Accepts(session, s) /\ session.state = "Running"
                 /\ app.cameraSource = app.sourceGeneration
              THEN SubmitFrame(Now, app.cameraSource)
              ELSE Now)

\* continueRefreshAfterStop() that does not restart the camera: the devices
\* cannot be listed, the camera is gone, or none was to be restarted.
FinishRefresh(now) ==
    \E listed \in BOOLEAN :
        \/ /\ app.refreshRestartCamera \/ ~listed
           /\ Become(CompleteRefresh(Enumerate(now, listed)))
        \/ /\ ~app.refreshRestartCamera
           /\ Become(CompleteRefresh(SubmitCurrentImage(Enumerate(now, listed))))

RestartRefused == app.modelState # "Ready"

\* What was to follow the stop of the camera is taken up.
StopHandled(now) == WithFields(now, [now.app EXCEPT !.afterCameraStop = "None"])

\* onCameraStopped() and what continueAfterCameraStop() goes on to.
AcceptStopped(s) ==
    LET now == StopHandled(Now)
        refresh == app.afterCameraStop = "Refresh" /\ app.refreshActive
        load == app.afterCameraStop = "LoadModel" /\ app.pendingModelLoad
    IN  \/ /\ Camera!AcceptStopped(s)
           /\ \/ ~refresh /\ load /\ Become(PerformModelLoad(now))
              \/ ~refresh /\ ~load /\ Become(now)
              \/ refresh /\ FinishRefresh(now)
              \/ /\ refresh /\ app.refreshRestartCamera /\ RestartRefused
                 /\ Become(Enumerate(now, TRUE))
        \/ /\ refresh /\ app.refreshRestartCamera /\ ~RestartRefused
           /\ Camera!AcceptStoppedAndRestart(s)
           /\ Become(CameraStarted(Enumerate(now, TRUE)))

OnCameraStopped(s) ==
    /\ Handle(CameraEvent("stopped", s))
    /\ \/ Camera!RecoverLate(s) /\ Become(Now)
       \/ AcceptStopped(s)
       \/ Camera!IgnoreStopped(s) /\ Become(Now)
\* A faulty variant: the failure drops the load that waits for the camera.
AcceptFailedDroppingLoad(s) ==
    /\ Camera!AcceptFailed(s)
    /\ Become(CompleteRefresh(StopHandled(InvalidateSource(Now))))

AcceptFailed(s) ==
    LET now == StopHandled(InvalidateSource(Now))
    IN  /\ Camera!AcceptFailed(s)
        /\ Become(IF app.afterCameraStop = "LoadModel" /\ app.pendingModelLoad
                  THEN PerformModelLoad(now)
                  ELSE CompleteRefresh(now))
\* A faulty variant: the late failure of a session that timed out is ignored.
OnCameraFailedForgetful(s) ==
    /\ Handle(CameraEvent("cameraFailed", s))
    /\ \/ Camera!Late(s) /\ KeepCamera /\ Become(Now)
       \/ AcceptFailed(s)
       \/ Camera!IgnoreFailed(s) /\ Become(Now)

OnCameraFailed(s) ==
    /\ Handle(CameraEvent("cameraFailed", s))
    /\ \/ Camera!RecoverLate(s) /\ Become(Now)
       \/ AcceptFailed(s)
       \/ Camera!IgnoreFailed(s) /\ Become(Now)
\* A faulty variant: the load that waits for the camera is not given up.
GiveUpKeepingLoad(now) ==
    CompleteRefresh(StopHandled(InvalidateSource(now)))

\* handleCameraWatchdogTimeout(): a pending load and a Refresh are given up.
GiveUpLoad(now) ==
    WithFields(now, [now.app EXCEPT !.pendingModelLoad = FALSE,
                                    !.afterCameraStop = "None",
                                    !.modelLoading = @ /\ ~now.app.pendingModelLoad])
GiveUp(now) == CompleteRefresh(GiveUpLoad(InvalidateSource(now)))

Timeout(timer) ==
    /\ Camera!Dispatching
    /\ Camera!TimeoutFires(timer)
    /\ Become(IF session.active = 0 THEN Now ELSE GiveUp(Now))
    /\ UNCHANGED <<guiQueue, cameraRest, guiPc>>

-----------------------------------------------------------------------------
(* Signals of the inference worker. *)

\* onModelLoaded() submits the image and, once, starts the camera of the command
\* line, if it is still there.
ModelReady == SubmitCurrentImage(WithFields(Now, [app EXCEPT !.modelState = "Ready",
                                                             !.modelLoading = FALSE,
                                                             !.initialCamera = FALSE]))

OnModelLoaded(load) ==
    /\ Handle(InferenceEvent("modelLoaded", load, NoFrame, 0))
    /\ \/ /\ app.initialCamera /\ app.camerasListed
          /\ Camera!BeginCameraStart(session, watchdogs)
          /\ UNCHANGED <<releasePending, timedOut>>
          /\ Become(CameraStarted(ModelReady))
       \/ KeepCamera /\ Become(ModelReady)

OnLoadFailed(load) ==
    /\ Handle(InferenceEvent("loadFailed", load, NoFrame, 0))
    /\ KeepCamera
    /\ Become(WithFields(Now, [app EXCEPT !.modelState = "Error", !.modelLoading = FALSE]))

\* onFailure("Inference"): the handler knows neither the source nor the session.
OnInferenceFailed(frame) ==
    /\ Handle(InferenceEvent("inferenceFailed", NoLoad, frame, 0))
    /\ \/ Camera!BeginCameraStop /\ Become(InvalidateSource(Now))
       \/ ~CameraWanted /\ KeepCamera /\ Become(Now)

OnDetection(packet) ==
    /\ packet.event = "detection"
    /\ Handle(packet)
    /\ KeepCamera
    /\ Become(IF packet.frame.source = app.sourceGeneration
              THEN WithFields(Now, [app EXCEPT !.packet = packet])
              ELSE Now)

-----------------------------------------------------------------------------
(* shutdown(), step by step where it blocks. *)

Shutdown == /\ Camera!Shutdown
            /\ Become(WithFields(Now, [app EXCEPT !.modelState = "Unloading"]))

StopCameraThread == /\ Camera!ShutdownStopped \/ Camera!CameraThreadJoined
                    /\ UNCHANGED <<inferenceWorkerVars, app>>

CameraThreadEnds == Camera!CameraThreadEnds /\ UNCHANGED <<inferenceWorkerVars, app>>

StopInference == /\ guiPc = "joinInference" /\ ~inbox.stopping
                 /\ Become(GuiState(app, WithStop(inbox), TRUE))
                 /\ UNCHANGED <<guiQueue, cameraWorkerVars, cameraFields, guiPc>>

InferenceJoined == /\ inferencePc = "exited"
                   /\ Camera!InferenceJoined
                   /\ UNCHANGED <<inferenceWorkerVars, app>>

Quit == Camera!Quit /\ UNCHANGED <<inferenceWorkerVars, app>>

Terminated == guiPc = "exited" /\ UNCHANGED appVars

-----------------------------------------------------------------------------
Commands == \/ LoadModel \/ RefreshSources \/ OpenImage
            \/ StartCamera \/ StopCamera \/ UpdateThresholds
            \/ Shutdown

IsCameraEvent(e) == e \in Camera!CameraEventType

Dispatch ==
    /\ guiQueue # <<>>
    /\ LET e == Head(guiQueue)
       IN  IF IsCameraEvent(e)
           THEN \/ OnCameraStarted(e.session) \/ OnCameraFrame(e.session)
                \/ OnCameraStopped(e.session) \/ OnCameraFailed(e.session)
           ELSE \/ OnModelLoaded(e.load) \/ OnLoadFailed(e.load)
                \/ OnInferenceFailed(e.frame) \/ OnDetection(e)

ShuttingDown == StopCameraThread \/ StopInference \/ InferenceJoined \/ Quit

CameraStep == /\ CameraThread
              /\ UNCHANGED <<inferenceWorkerVars, cameraFields, guiPc, app>>

InferenceStep == /\ InferenceThread
                 /\ UNCHANGED <<cameraWorkerVars, cameraFields, guiPc, app>>

AppNext == \/ Commands \/ Dispatch
           \/ \E timer \in {"open", "stop"} : Timeout(timer)
           \/ ShuttingDown \/ CameraThreadEnds
           \/ CameraStep \/ InferenceStep
           \/ Terminated

\* The GUI thread and the inference thread are scheduled, timers run out;
\* nothing is assumed of the camera driver.
AppSpec == /\ AppInit /\ [][AppNext]_appVars
           /\ WF_appVars(Dispatch) /\ WF_appVars(ShuttingDown)
           /\ WF_appVars(InferenceStep)
           /\ \A timer \in {"open", "stop"} : WF_appVars(Timeout(timer))

-----------------------------------------------------------------------------
(* Properties. *)

WindowOpen == guiPc = "loop"

LoadAnswers == [event : {"modelLoaded", "loadFailed"}, load : Nat, frame : {NoFrame}, dropped : {0}]
LoadsUnderWay ==
    One(inbox.load # NoLoad) + One(job.load # NoLoad) + Len(KeepIn(guiQueue, LoadAnswers))

\* The window says "Loading" exactly while one load is under way or waits for the
\* camera to stop; a load that waits has its continuation, in every order of
\* timeouts, failures and acknowledgements.
LoadingIsTrue ==
    WindowOpen =>
        /\ LoadsUnderWay = One(app.modelState = "Loading")
        /\ app.modelLoading <=> app.modelState = "Loading" \/ app.pendingModelLoad
        /\ app.pendingModelLoad <=> app.afterCameraStop = "LoadModel"
        /\ app.pendingModelLoad => session.state = "Stopping"

\* A camera that opens or runs has a model to detect with, and a running one the
\* current source: its frames are not silently discarded.  What is submitted finds
\* a detector.
CameraIsShown ==
    /\ inferencePc = "detecting" => detector
    /\ WindowOpen =>
          /\ CameraWanted => app.modelState = "Ready" /\ ~app.currentImage
          /\ session.state = "Running" => app.cameraSource = app.sourceGeneration

\* Controller and worker agree on the source; what waits for the worker and the
\* detection in currentPacket_ are of it, and that is of the model loaded last.
AppShowsCurrent ==
    WorkerExists =>
        /\ inbox.source = app.sourceGeneration
        /\ inbox.frame # NoFrame => inbox.frame.source = app.sourceGeneration
        /\ app.packet # NoPacket => /\ app.packet.frame.source = app.sourceGeneration
                                    /\ app.packet.load = inbox.desired

\* The camera's part of the controller implements the camera protocol.
Protocol == INSTANCE CameraProtocol WITH guiQueue <- KeepIn(guiQueue, Camera!CameraEventType)
ImplementsProtocol == Protocol!ProtocolSpec

\* Loading ends, if the window stays open and the inference thread did start, even
\* if the camera driver hangs.
LoadingEnds == app.modelLoading /\ WindowOpen ~> ~app.modelLoading \/ ~WindowOpen \/ NeverRan

\* An active Refresh is going on: the camera is being stopped for it, or being
\* restarted by it.
RefreshHasContinuation ==
    WindowOpen /\ app.refreshActive =>
        \/ session.state = "Stopping" /\ app.afterCameraStop = "Refresh"
        \/ session.state = "Opening" /\ app.refreshRestartCamera

\* inference_ is not used after shutdown() reset it.
NoUseAfterShutdown == ~app.usedDestroyed
=============================================================================
