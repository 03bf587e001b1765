--------------------------- MODULE CameraProtocol ---------------------------
(***************************************************************************)
(* The camera session protocol: the part of AppController that opens,      *)
(* watches, stops and recovers the camera, and the CameraWorker it talks   *)
(* to.  Commands may come whenever the controller accepts them.  Two       *)
(* watchdogs guard the native calls the worker may hang in; a session that *)
(* timed out is failed at once and its device is fenced off until the      *)
(* worker acknowledges that it was released.  Closing the window runs      *)
(* shutdown() in the middle of whatever is going on.                       *)
(***************************************************************************)
EXTENDS CameraWorker, CameraSession

CONSTANT MaxSessions     \* bound: how many sessions the controller starts

ASSUME MaxSessionsAssumption == MaxSessions \in Nat

VARIABLES session,         \* cameraSession_
          sequence,        \* cameraSessionSequence_
          watchdogs,       \* which of the two watchdog timers run
          releasePending,  \* cameraReleasePending_
          timedOut,        \* timedOutCameraSession_
          guiPc            \* where the GUI thread is: in its event loop, blocked
                           \* in shutdown(), past it, or out of the event loop

controllerVars == <<session, sequence, watchdogs, releasePending, timedOut>>
protocolVars == <<guiQueue, cameraWorkerVars, controllerVars, guiPc>>

GuiPcs == {"loop", "stopCamera", "joinCamera", "joinInference", "closed", "exited"}

ControllerInit == /\ session = IdleSession
                  /\ sequence = 0
                  /\ watchdogs = {}
                  /\ releasePending = FALSE
                  /\ timedOut = 0

ProtocolInit == /\ guiQueue = <<>>
                /\ CameraWorkerInit
                /\ ControllerInit
                /\ guiPc = "loop"

\* The event loop delivers events until the application quits.
Dispatching == guiPc \in {"loop", "closed"}

-----------------------------------------------------------------------------
(* What the handlers of the controller do to the camera session. *)
\* A faulty variant: the request carries the number before the increment.
BeginCameraStartStale(cs, armed) ==
    /\ sequence < MaxSessions
    /\ CanBeginOpening(cs, sequence + 1)
    /\ sequence' = sequence + 1
    /\ session' = BeginOpening(sequence + 1)
    /\ watchdogs' = armed \cup {"open"}
    /\ Send(Request("start", sequence))

\* beginCameraStart() from session state cs and with the watchdogs `armed`.
BeginCameraStart(cs, armed) ==
    /\ sequence < MaxSessions
    /\ CanBeginOpening(cs, sequence + 1)
    /\ sequence' = sequence + 1
    /\ session' = BeginOpening(sequence + 1)
    /\ watchdogs' = armed \cup {"open"}
    /\ Send(Request("start", sequence + 1))
\* A faulty variant: no watchdog guards the stop.
BeginCameraStopUnwatched ==
    /\ CanBeginStopping(session)
    /\ session' = BeginStopping(session)
    /\ watchdogs' = {}
    /\ Send(Request("stop", session.active))
    /\ UNCHANGED <<sequence, releasePending, timedOut>>

\* beginCameraStop() of a session that is opening or running.
BeginCameraStop ==
    /\ CanBeginStopping(session)
    /\ session' = BeginStopping(session)
    /\ watchdogs' = {"stop"}
    /\ Send(Request("stop", session.active))
    /\ UNCHANGED <<sequence, releasePending, timedOut>>

MarkCameraWorkerResponsive == releasePending' = FALSE /\ timedOut' = 0
\* A faulty variant: the watchdog of the opening is not stopped.
AcceptStartedWatched(s) == /\ CanAcknowledgeStarted(session, s)
                           /\ session' = AcknowledgeStarted(session)
                           /\ MarkCameraWorkerResponsive
                           /\ UNCHANGED <<sequence, watchdogs, cameraQueue>>

AcceptStarted(s) == /\ CanAcknowledgeStarted(session, s)
                    /\ session' = AcknowledgeStarted(session)
                    /\ watchdogs' = watchdogs \ {"open"}
                    /\ MarkCameraWorkerResponsive
                    /\ UNCHANGED <<sequence, cameraQueue>>

IgnoreStarted(s) == /\ ~CanAcknowledgeStarted(session, s)
                    /\ UNCHANGED <<controllerVars, cameraQueue>>

\* The answer of the worker that the controller had given up on.
Late(s) == releasePending /\ s = timedOut

RecoverLate(s) == /\ Late(s)
                  /\ MarkCameraWorkerResponsive
                  /\ UNCHANGED <<session, sequence, watchdogs, cameraQueue>>

StoppedAccepted(s) == ~Late(s) /\ CanAcknowledgeStopped(session, s)

\* The session ends and stays idle ...
AcceptStopped(s) == /\ StoppedAccepted(s)
                    /\ session' = AcknowledgeStopped
                    /\ watchdogs' = watchdogs \ {"stop"}
                    /\ MarkCameraWorkerResponsive
                    /\ UNCHANGED <<sequence, cameraQueue>>

\* ... or the handler goes on to start the next one, to restart after Refresh.
AcceptStoppedAndRestart(s) ==
    /\ StoppedAccepted(s)
    /\ MarkCameraWorkerResponsive
    /\ BeginCameraStart(AcknowledgeStopped, watchdogs \ {"stop"})

IgnoreStopped(s) == /\ ~Late(s) /\ ~CanAcknowledgeStopped(session, s)
                    /\ UNCHANGED <<controllerVars, cameraQueue>>

AcceptFailed(s) == /\ ~Late(s) /\ CanFail(session, s)
                   /\ session' = Fail
                   /\ watchdogs' = {}
                   /\ MarkCameraWorkerResponsive
                   /\ UNCHANGED <<sequence, cameraQueue>>

IgnoreFailed(s) == /\ ~Late(s) /\ ~CanFail(session, s)
                   /\ UNCHANGED <<controllerVars, cameraQueue>>
\* Faulty variants: the session that timed out is not fenced off, or the worker
\* is not asked to release it.
TimeoutUnfenced(timer) ==
    /\ timer \in watchdogs
    /\ session.active # 0
    /\ session' = Fail
    /\ watchdogs' = {}
    /\ Send(Request("stop", session.active))
    /\ UNCHANGED <<sequence, releasePending, timedOut>>

TimeoutWithoutRequest(timer) ==
    /\ timer \in watchdogs
    /\ session.active # 0
    /\ session' = Fail
    /\ watchdogs' = {}
    /\ releasePending' = TRUE
    /\ timedOut' = session.active
    /\ UNCHANGED <<sequence, cameraQueue>>

\* handleCameraWatchdogTimeout() of a timer that runs out; it does nothing more
\* when no session is active.
TimeoutFires(timer) ==
    /\ timer \in watchdogs
    /\ IF session.active = 0
       THEN /\ watchdogs' = watchdogs \ {timer}
            /\ UNCHANGED <<session, releasePending, timedOut, cameraQueue>>
       ELSE /\ session' = Fail
            /\ watchdogs' = {}
            /\ releasePending' = TRUE
            /\ timedOut' = session.active
            /\ Send(Request("stop", session.active))
    /\ UNCHANGED sequence

\* The session shutdown() stops: the active one, or the one still unreleased.
LastSession == IF session.active # 0 THEN session.active ELSE timedOut

-----------------------------------------------------------------------------
(* The actions of the GUI thread. *)

workerRest == <<cameraPc, activeSession, firstFrameSeen, timerArmed, reply>>

\* startCamera(): refused while a release is pending.  The answer to a model load
\* may start or stop the camera even after the window was closed.
StartCamera == /\ Dispatching
               /\ ~releasePending
               /\ BeginCameraStart(session, watchdogs)
               /\ UNCHANGED <<guiQueue, workerRest, releasePending, timedOut, guiPc>>

\* The Stop button, Refresh, a model load or a failed inference.
StopCamera == /\ Dispatching
              /\ BeginCameraStop
              /\ UNCHANGED <<guiQueue, workerRest, guiPc>>

Handle(event) == Dispatching /\ Deliver(event) /\ UNCHANGED <<workerRest, guiPc>>

\* The session a queued camera event belongs to.
Sender == Head(guiQueue).session

OnCameraStarted == /\ Handle(CameraEvent("started", Sender))
                   /\ AcceptStarted(Sender) \/ IgnoreStarted(Sender)

\* A frame goes to the inference worker or is discarded; the session stays.
OnCameraFrame == /\ Handle(CameraEvent("frame", Sender))
                 /\ UNCHANGED <<controllerVars, cameraQueue>>

OnCameraStopped == /\ Handle(CameraEvent("stopped", Sender))
                   /\ \/ RecoverLate(Sender)
                      \/ AcceptStopped(Sender)
                      \/ guiPc = "loop" /\ AcceptStoppedAndRestart(Sender)
                      \/ IgnoreStopped(Sender)

OnCameraFailed == /\ Handle(CameraEvent("cameraFailed", Sender))
                  /\ \/ RecoverLate(Sender)
                     \/ AcceptFailed(Sender)
                     \/ IgnoreFailed(Sender)

Timeout(timer) == /\ Dispatching
                  /\ TimeoutFires(timer)
                  /\ UNCHANGED <<guiQueue, workerRest, guiPc>>

\* shutdown() when the window closes: a blocking stop of the last session, if
\* there is one, then the end of the camera thread.
Shutdown == /\ guiPc = "loop"
            /\ watchdogs' = {}
            /\ \/ /\ LastSession # 0
                  /\ Send(Request("stop", LastSession))
                  /\ guiPc' = "stopCamera"
               \/ /\ LastSession = 0
                  /\ guiPc' = "joinCamera"
                  /\ UNCHANGED cameraQueue
            /\ UNCHANGED <<guiQueue, workerRest, session, sequence, releasePending, timedOut>>

\* The blocking request was the last one posted: it has been carried out when
\* the worker is between two requests and none is left.
ShutdownStopped == /\ guiPc = "stopCamera"
                   /\ cameraQueue = <<>> /\ cameraPc = "idle"
                   /\ guiPc' = "joinCamera"
                   /\ UNCHANGED <<guiQueue, cameraWorkerVars, controllerVars>>

\* The event loop of the camera thread has been told to quit: it leaves what it
\* has not taken from its queue, and the worker is deleted.
CameraThreadEnds == /\ guiPc = "joinCamera"
                    /\ cameraPc = "idle"
                    /\ cameraPc' = "ended"
                    /\ activeSession' = 0
                    /\ firstFrameSeen' = FALSE
                    /\ timerArmed' = FALSE
                    /\ cameraQueue' = <<>>
                    /\ UNCHANGED <<guiQueue, reply, controllerVars, guiPc>>
CameraThreadJoined == /\ guiPc = "joinCamera"
                      /\ cameraPc = "ended"
                      /\ guiPc' = "joinInference"
                      /\ UNCHANGED <<guiQueue, cameraWorkerVars, controllerVars>>

InferenceJoined == /\ guiPc = "joinInference"
                   /\ guiPc' = "closed"
                   /\ UNCHANGED <<guiQueue, cameraWorkerVars, controllerVars>>

\* The last window is closed and the event loop ends.
Quit == /\ guiPc = "closed"
        /\ guiPc' = "exited"
        /\ UNCHANGED <<guiQueue, cameraWorkerVars, controllerVars>>

Terminated == guiPc = "exited" /\ UNCHANGED protocolVars

Dispatch == OnCameraStarted \/ OnCameraFrame \/ OnCameraStopped \/ OnCameraFailed

ShuttingDown == ShutdownStopped \/ CameraThreadJoined \/ InferenceJoined \/ Quit

Worker == /\ CameraThread
          /\ UNCHANGED <<controllerVars, guiPc>>

ProtocolNext == \/ StartCamera \/ StopCamera
                \/ Dispatch
                \/ \E timer \in {"open", "stop"} : Timeout(timer)
                \/ Shutdown \/ ShuttingDown \/ CameraThreadEnds
                \/ Worker
                \/ Terminated

ProtocolSpec == ProtocolInit /\ [][ProtocolNext]_protocolVars

\* The GUI thread runs its event loop, and a timer that runs does run out.
\* Nothing is assumed of the native calls of the camera driver.
GuiFairness == /\ WF_protocolVars(Dispatch)
               /\ WF_protocolVars(ShuttingDown)
               /\ \A timer \in {"open", "stop"} : WF_protocolVars(Timeout(timer))

HangingDriverSpec == ProtocolSpec /\ GuiFairness

\* A driver whose calls return, with success or failure.  The camera thread's
\* event loop delivers posted requests between two timeouts of a timer that is
\* always started again, so a request is not passed over for ever.
DriverReturns == /\ WF_protocolVars(Worker)
                 /\ SF_protocolVars(Worker /\ TakeRequest)
                 /\ WF_protocolVars(CameraThreadEnds)

-----------------------------------------------------------------------------
(* Properties. *)

RequestType == [kind : {"start", "stop"}, session : Nat]
CameraEventType ==
    [event : {"started", "stopped", "frame", "cameraFailed"}, session : Nat]

\* The types of the two threads' variables and of the messages between them.
ProtocolTypeOK ==
    /\ guiQueue \in Seq(CameraEventType)
    /\ cameraQueue \in Seq(RequestType)
    /\ cameraPc \in {"idle", "opening", "reading", "releasing", "ended"}
    /\ activeSession \in Nat
    /\ firstFrameSeen \in BOOLEAN /\ timerArmed \in BOOLEAN
    /\ reply \in CameraEventType \cup {NoReply}
    /\ session \in [state : CameraStates, active : Nat]
    /\ sequence \in Nat
    /\ watchdogs \subseteq {"open", "stop"}
    /\ releasePending \in BOOLEAN /\ timedOut \in Nat
    /\ guiPc \in GuiPcs

Starting(s) == Request("start", s) \in ToSet(cameraQueue)
StartQueued == \E request \in ToSet(cameraQueue) : request.kind = "start"
Announced(event, s) == CameraEvent(event, s) \in ToSet(guiQueue)

\* A start request never finds the worker busy: the branch of start() that
\* refuses an overlapping session is never needed.
NoOverlap ==
    cameraPc = "idle" /\ cameraQueue # <<>> /\ Head(cameraQueue).kind = "start"
        => activeSession = 0

\* Whenever the controller would accept a new start, the device is closed and
\* no request to open it is under way, whatever timed out or failed before.
ReleasedWhenStartable ==
    session.state \in {"Idle", "Error"} /\ ~releasePending
        => ~DeviceHeld /\ ~StartQueued

\* An end of the last session is announced only after its device is released,
\* so the controller never takes a device for free that is still held.
AnnouncedMeansReleased ==
    \A event \in {"stopped", "cameraFailed"} :
        LastSession # 0 /\ Announced(event, LastSession)
            => ~DeviceHeld /\ ~StartQueued

\* Until the camera thread ends, a session the controller has not seen the end
\* of is opening or open in the worker, or its end is about to be announced.
SessionAccountedFor ==
    LastSession # 0 /\ cameraPc # "ended" =>
        \/ Starting(LastSession)
        \/ activeSession = LastSession
        \/ cameraPc = "releasing" /\ reply.session = LastSession
        \/ Announced("stopped", LastSession)
        \/ Announced("cameraFailed", LastSession)

\* While the window is open the watchdogs guard exactly the states in which the
\* controller waits for the worker: none expires on a session that runs.
WatchedWhileWaiting ==
    guiPc = "loop" =>
        /\ "open" \in watchdogs <=> session.state = "Opening"
        /\ "stop" \in watchdogs <=> session.state = "Stopping"

\* A session that ended never comes back: the worker opens sessions in
\* increasing order, the one it opens being the newest the controller made.
SessionsOpenInOrder ==
    [][activeSession' \notin {0, activeSession} =>
            activeSession' = sequence /\ LastSession = sequence]_protocolVars

\* Opening and stopping end, in the window's lifetime, even if the driver hangs.
WaitingEnds ==
    (guiPc = "loop" /\ session.state \in {"Opening", "Stopping"})
        ~> (guiPc # "loop" \/ session.state \notin {"Opening", "Stopping"})

\* If the driver's calls return, a timed-out camera can be used again, and
\* closing the window ends the program.
RecoveryEnds == DriverReturns => /\ releasePending ~> (~releasePending \/ guiPc # "loop")
                                 /\ (guiPc # "loop") ~> (guiPc = "exited")
=============================================================================
