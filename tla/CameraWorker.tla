---------------------------- MODULE CameraWorker ----------------------------
(***************************************************************************)
(* CameraWorker: the object on the camera thread that owns the capture     *)
(* device.  Its event loop takes start and stop requests, in order, and    *)
(* the timeouts of its own single-shot timer.  The native calls (open,     *)
(* read, release) block the thread: each is a pair of steps, and nothing   *)
(* but a fairness assumption says that it ever returns.                    *)
(***************************************************************************)
EXTENDS GuiEventLoop

CONSTANT MaxGuiEvents    \* bound: no frame is read while this many events wait

ASSUME MaxGuiEventsAssumption == MaxGuiEvents \in Nat

VARIABLES cameraQueue,     \* requests posted to the camera thread
          cameraPc,        \* where the camera thread is
          activeSession,   \* activeSession_, 0 if the worker is idle
          firstFrameSeen,  \* firstFrameSeen_
          timerArmed,      \* timer_ is running
          reply            \* the signal to emit once the device is released

cameraWorkerVars ==
    <<cameraQueue, cameraPc, activeSession, firstFrameSeen, timerArmed, reply>>

NoReply == [event |-> "none", session |-> 0]

CameraWorkerInit == /\ cameraQueue = <<>>
                    /\ cameraPc = "idle"
                    /\ activeSession = 0
                    /\ firstFrameSeen = FALSE
                    /\ timerArmed = FALSE
                    /\ reply = NoReply

CameraEvent(event, session) == [event |-> event, session |-> session]
Request(kind, session) == [kind |-> kind, session |-> session]

\* Nothing is delivered to a worker whose thread has ended.
Send(request) == cameraQueue' = IF cameraPc = "ended" THEN cameraQueue
                                ELSE Append(cameraQueue, request)

\* The device is open, being opened or being released.
DeviceHeld == activeSession # 0 \/ cameraPc = "releasing"

\* releaseActive() up to the native release; the device is held until it returns.
ReleaseThen(event) == /\ cameraPc' = "releasing"
                      /\ reply' = CameraEvent(event, activeSession)
                      /\ activeSession' = 0
                      /\ firstFrameSeen' = FALSE
                      /\ timerArmed' = FALSE

-----------------------------------------------------------------------------

\* The session named by the request at the head of the queue.
Requested == Head(cameraQueue).session

NextRequest(kind) == /\ cameraPc = "idle"
                     /\ cameraQueue # <<>>
                     /\ Head(cameraQueue).kind = kind
                     /\ cameraQueue' = Tail(cameraQueue)

\* start(request): the controller only builds valid requests.
Start ==
    /\ NextRequest("start")
    /\ IF activeSession # 0
       THEN /\ Post(<<CameraEvent("cameraFailed", Requested)>>)
            /\ UNCHANGED <<cameraPc, activeSession, firstFrameSeen>>
       ELSE /\ activeSession' = Requested
            /\ firstFrameSeen' = FALSE
            /\ cameraPc' = "opening"
            /\ UNCHANGED guiQueue
    /\ UNCHANGED <<timerArmed, reply>>

OpenSucceeds == /\ cameraPc = "opening"
                /\ cameraPc' = "idle"
                /\ timerArmed' = TRUE
                /\ UNCHANGED <<guiQueue, cameraQueue, activeSession, firstFrameSeen, reply>>
\* A faulty variant: the failure is not reported.
OpenFailsSilently == /\ cameraPc = "opening"
                     /\ cameraPc' = "idle"
                     /\ activeSession' = 0
                     /\ UNCHANGED <<guiQueue, cameraQueue, firstFrameSeen, timerArmed, reply>>

OpenFails == /\ cameraPc = "opening"
             /\ ReleaseThen("cameraFailed")
             /\ UNCHANGED <<guiQueue, cameraQueue>>

\* stop(session): a request to an idle worker, or for another session, is
\* acknowledged at once and leaves the device alone.
StopIgnored == /\ NextRequest("stop")
               /\ activeSession = 0 \/ Requested # activeSession
               /\ Post(<<CameraEvent("stopped", Requested)>>)
               /\ UNCHANGED <<cameraPc, activeSession, firstFrameSeen, timerArmed, reply>>
\* Faulty variants: the stop is acknowledged and the device kept, or it is
\* acknowledged before the device is released.
StopKeepsDevice == /\ NextRequest("stop")
                   /\ activeSession # 0 /\ Requested = activeSession
                   /\ Post(<<CameraEvent("stopped", activeSession)>>)
                   /\ UNCHANGED <<cameraPc, activeSession, firstFrameSeen, timerArmed, reply>>

StopAcknowledgesEarly == /\ NextRequest("stop")
                         /\ activeSession # 0 /\ Requested = activeSession
                         /\ ReleaseThen("stopped")
                         /\ Post(<<CameraEvent("stopped", activeSession)>>)

Stop == /\ NextRequest("stop")
        /\ activeSession # 0 /\ Requested = activeSession
        /\ ReleaseThen("stopped")
        /\ UNCHANGED guiQueue
\* A faulty variant: the session is cleared before it is announced.
ReleasedForgetful == /\ cameraPc = "releasing"
                     /\ cameraPc' = "idle"
                     /\ reply' = NoReply
                     /\ Post(<<NoReply>>)
                     /\ UNCHANGED <<cameraQueue, activeSession, firstFrameSeen, timerArmed>>

Released == /\ cameraPc = "releasing"
            /\ cameraPc' = "idle"
            /\ Post(<<reply>>)
            /\ reply' = NoReply
            /\ UNCHANGED <<cameraQueue, activeSession, firstFrameSeen, timerArmed>>

\* The timer fires between two requests and captureNext() reads a frame.
CaptureNext == /\ cameraPc = "idle"
               /\ timerArmed /\ activeSession # 0
               /\ Len(guiQueue) < MaxGuiEvents
               /\ timerArmed' = FALSE
               /\ cameraPc' = "reading"
               /\ UNCHANGED <<guiQueue, cameraQueue, activeSession, firstFrameSeen, reply>>

\* The first frame of a session acknowledges that the session has started.
ReadSucceeds ==
    /\ cameraPc = "reading"
    /\ Post(IF firstFrameSeen
            THEN <<CameraEvent("frame", activeSession)>>
            ELSE <<CameraEvent("started", activeSession), CameraEvent("frame", activeSession)>>)
    /\ firstFrameSeen' = TRUE
    /\ timerArmed' = TRUE
    /\ cameraPc' = "idle"
    /\ UNCHANGED <<cameraQueue, activeSession, reply>>

ReadFails == /\ cameraPc = "reading"
             /\ ReleaseThen("cameraFailed")
             /\ UNCHANGED <<guiQueue, cameraQueue>>

TakeRequest == Start \/ Stop \/ StopIgnored

CameraThread == \/ TakeRequest
                \/ OpenSucceeds \/ OpenFails
                \/ CaptureNext \/ ReadSucceeds \/ ReadFails
                \/ Released
=============================================================================
