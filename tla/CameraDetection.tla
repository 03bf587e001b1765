-------------------------- MODULE CameraDetection --------------------------
(***************************************************************************)
(* The camera example program: a capture thread pushes frames into a       *)
(* LatestFrameBuffer, the main thread takes them, detects, draws and polls *)
(* the keyboard.  Either side may end the run: the camera by failing, the  *)
(* main thread by a key, the smoke test or a failed detection.             *)
(***************************************************************************)
EXTENDS LatestFrameBuffer

CONSTANT MaxFrames        \* bound: how many frames the camera delivers

ASSUME MaxFramesAssumption == MaxFrames \in Nat

VARIABLES stop,           \* the atomic flag the capture loop polls
          capturePc,      \* where the capture thread is
          frameId,        \* the frame the capture thread read last
          mainPc,         \* where the main thread is
          current         \* the frame the main thread took last

vars == <<bufferVars, stop, capturePc, frameId, mainPc, current>>
captureVars == <<capturePc, frameId>>
mainVars == <<mainPc, current, stop>>

CapturePcs == {"loop", "read", "push", "notify", "close", "closeNotify", "exited"}
MainPcs == {"take", "process", "stop", "close", "closeNotify", "join", "returned"}

Init == /\ BufferInit
        /\ stop = FALSE
        /\ capturePc = "loop" /\ frameId = 0
        /\ mainPc = "take" /\ current = NoFrame

-----------------------------------------------------------------------------
(* The capture thread. *)

CaptureTestStop == /\ capturePc = "loop"
                   /\ capturePc' = IF stop THEN "close" ELSE "read"
                   /\ UNCHANGED <<bufferVars, frameId, mainVars>>

CaptureRead == /\ capturePc = "read"
               /\ frameId < MaxFrames
               /\ frameId' = frameId + 1
               /\ capturePc' = "push"
               /\ UNCHANGED <<bufferVars, mainVars>>

\* No frame, an empty frame or an image that cannot be converted.
CaptureReadFails == /\ capturePc = "read"
                    /\ capturePc' = "close"
                    /\ UNCHANGED <<bufferVars, frameId, mainVars>>
\* A faulty variant: push() does not notify.
CapturePushSilently ==
    /\ capturePc = "push"
    /\ \/ PushAccepted(frameId) /\ capturePc' = "loop"
       \/ PushRefused /\ capturePc' = "close"
    /\ UNCHANGED <<frameId, mainVars>>

CapturePush == /\ capturePc = "push"
               /\ \/ PushAccepted(frameId) /\ capturePc' = "notify"
                  \/ PushRefused /\ capturePc' = "close"
               /\ UNCHANGED <<frameId, mainVars>>

CaptureNotify == /\ capturePc = "notify"
                 /\ NotifyOne
                 /\ capturePc' = "loop"
                 /\ UNCHANGED <<frameId, mainVars>>

CaptureClose == /\ capturePc = "close"
                /\ Close
                /\ capturePc' = "closeNotify"
                /\ UNCHANGED <<frameId, mainVars>>
\* A faulty variant: close() does not notify.
CaptureCloseSilently == /\ capturePc = "closeNotify"
                        /\ capturePc' = "exited"
                        /\ UNCHANGED <<bufferVars, frameId, mainVars>>

CaptureCloseNotify == /\ capturePc = "closeNotify"
                      /\ NotifyAll
                      /\ capturePc' = "exited"
                      /\ UNCHANGED <<frameId, mainVars>>

Capture == \/ CaptureTestStop \/ CaptureRead \/ CaptureReadFails
           \/ CapturePush \/ CaptureNotify
           \/ CaptureClose \/ CaptureCloseNotify

-----------------------------------------------------------------------------
(* The main thread. *)

MainTake == /\ mainPc = "take"
            /\ Take("main")
            /\ current' = latest
            /\ mainPc' = "process"
            /\ UNCHANGED <<captureVars, stop>>

MainSleep == /\ mainPc = "take"
             /\ FallAsleep("main")
             /\ UNCHANGED <<captureVars, mainVars>>

MainSpuriousWakeup == /\ SpuriousWakeup("main")
                      /\ UNCHANGED <<captureVars, mainVars>>

MainCancelled == /\ mainPc = "take"
                 /\ Cancelled("main")
                 /\ mainPc' = "stop"
                 /\ UNCHANGED <<captureVars, current, stop>>

\* detect, renderDetections, imshow and waitKey: the loop goes on, or an error,
\* the smoke test or the user's key leaves it.
MainProcess == /\ mainPc = "process"
               /\ mainPc' \in {"take", "stop"}
               /\ UNCHANGED <<bufferVars, captureVars, current, stop>>

MainStop == /\ mainPc = "stop"
            /\ stop' = TRUE
            /\ mainPc' = "close"
            /\ UNCHANGED <<bufferVars, captureVars, current>>

MainClose == /\ mainPc = "close"
             /\ Close
             /\ mainPc' = "closeNotify"
             /\ UNCHANGED <<captureVars, current, stop>>

MainCloseNotify == /\ mainPc = "closeNotify"
                   /\ NotifyAll
                   /\ mainPc' = "join"
                   /\ UNCHANGED <<captureVars, current, stop>>
\* A faulty variant: main returns without joining the thread.
MainReturns == /\ mainPc = "join"
               /\ mainPc' = "returned"
               /\ UNCHANGED <<bufferVars, captureVars, current, stop>>

\* join() returns once the thread has ended; the buffer, a local variable of
\* main, is destroyed when main returns.
MainJoin == /\ mainPc = "join"
            /\ capturePc = "exited"
            /\ mainPc' = "returned"
            /\ UNCHANGED <<bufferVars, captureVars, current, stop>>

Main == \/ MainTake \/ MainSleep \/ MainCancelled \/ MainProcess
        \/ MainStop \/ MainClose \/ MainCloseNotify \/ MainJoin

-----------------------------------------------------------------------------
\* The process has ended.
Terminated == mainPc = "returned" /\ UNCHANGED vars

Next == Capture \/ Main \/ MainSpuriousWakeup \/ Terminated

Spec == Init /\ [][Next]_vars

\* Both threads are scheduled, and a read of the camera returns: with a frame
\* or, after MaxFrames of them, with a failure.
FairSpec == Spec /\ WF_vars(Capture) /\ WF_vars(Main)

-----------------------------------------------------------------------------
(* Properties. *)

\* The state of the two threads and of the buffer stays within its types.
TypeOK ==
    /\ latest \in Nat
    /\ closed \in BOOLEAN
    /\ statistics \in [captured : Nat, consumed : Nat, dropped : Nat]
    /\ sleeping \subseteq {"main"}
    /\ stop \in BOOLEAN
    /\ capturePc \in CapturePcs /\ frameId \in Nat
    /\ mainPc \in MainPcs /\ current \in Nat

\* The statistics drawn into the preview account for every accepted frame:
\* it was consumed, dropped (overwritten or discarded by close), or waits.
FramesAccounted ==
    statistics.captured = statistics.consumed + statistics.dropped + Occupied

\* The slot holds the newest frame accepted, and it is newer than the frame the
\* main thread is working on: taking it can neither repeat nor go back.  A closed
\* buffer holds none: a push that races with close is refused, so no frame is
\* accepted and then left behind, unconsumed and uncounted.
SlotIsNewest ==
    latest # NoFrame => latest = statistics.captured /\ latest > current /\ ~closed

\* No lost wakeup: while the main thread sleeps on a condition that holds, the
\* thread that made it hold has its notification still to make.
NoLostWakeup ==
    "main" \in sleeping =>
        /\ mainPc = "take"
        /\ latest # NoFrame => capturePc = "notify"
        /\ closed => capturePc = "closeNotify"

\* When main returns and the buffer is destroyed nobody can touch it any more:
\* the capture thread has ended and no thread sleeps in the condition variable.
DestroyedUnused ==
    mainPc = "returned" => capturePc = "exited" /\ sleeping = {} /\ closed

\* The frames reach the detector as through a latest-value mailbox.
Mailbox == INSTANCE NewestValue WITH
    sent <- statistics.captured, pending <- latest, delivered <- current
DeliversNewest == Mailbox!NVSpec

\* Whoever ends the run, the program returns: the camera failing wakes the main
\* thread, and the main thread stopping ends the capture thread.
ProgramEnds == (closed \/ mainPc = "stop") ~> (mainPc = "returned")
=============================================================================
