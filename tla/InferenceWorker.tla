-------------------------- MODULE InferenceWorker --------------------------
(***************************************************************************)
(* InferenceWorker: a thread that loads models and runs detections for the *)
(* GUI thread.  Requests go through a mailbox under mutex_: at most one    *)
(* load and at most one frame wait, and a newer one replaces an older.     *)
(* Generations of loads and of image sources tell what has become stale.   *)
(* The results are signals, posted to the GUI thread after the mutex was   *)
(* released, so what was checked under the mutex may be stale when posted. *)
(***************************************************************************)
EXTENDS GuiEventLoop

VARIABLES inbox,             \* the fields mutex_ protects
          inferencePc,       \* where run() is
          job,               \* the load or the frame run() has taken
          detector,          \* a detector is loaded
          loadedGeneration   \* the load the detector came from

inferenceWorkerVars == <<inbox, inferencePc, job, detector, loadedGeneration>>

NoFrame == [frame |-> 0, source |-> 0]
NoLoad == 0

Inbox(stopping, desired, source, dropped, load, frame) ==
    [stopping |-> stopping,   \* stopping_
     desired |-> desired,     \* desiredGeneration_
     source |-> source,       \* activeSourceGeneration_
     dropped |-> dropped,     \* droppedFrames_
     load |-> load,           \* pendingLoad_: its generation
     frame |-> frame]         \* pendingFrame_

EmptyInbox == Inbox(FALSE, 0, 0, 0, NoLoad, NoFrame)

\* What run() works on: a load, or a frame with the drop count of its metrics.
Job(load, frame, dropped) == [load |-> load, frame |-> frame, dropped |-> dropped]
NoJob == Job(NoLoad, NoFrame, 0)

InferencePcs == {"waiting", "asleep", "loading", "loaded", "announcing",
                 "detecting", "detected", "publishing", "exited"}

\* The thread took a stopping_ that was not yet initialised for a request to stop.
NeverRan == inferencePc = "exited" /\ ~inbox.stopping

\* The thread is where the constructor's race has left it.
InferenceWorkerInit(pcs, box) == /\ inbox = box
                                 /\ inferencePc \in pcs
                                 /\ job = NoJob
                                 /\ detector = FALSE
                                 /\ loadedGeneration = 0

-----------------------------------------------------------------------------
(* The critical sections of the operations the GUI thread calls. *)

\* requestLoad()
WithLoad(b) == Inbox(b.stopping, b.desired + 1, b.source, 0, b.desired + 1, NoFrame)

\* invalidateSource(source)
WithSource(b, source) == Inbox(b.stopping, b.desired, source, 0, b.load, NoFrame)

\* submitFrame(frame, source): refused if stale or stopping.
TakesFrame(b, source) == ~b.stopping /\ source = b.source
\* Faulty variants: every submission counts as a drop, or the counter goes down
\* when nothing was dropped.
WithFrameOvercounted(b, frame, source) ==
    Inbox(b.stopping, b.desired, b.source, b.dropped + 1,
          b.load, [frame |-> frame, source |-> source])

WithFrameMiscounted(b, frame, source) ==
    Inbox(b.stopping, b.desired, b.source,
          IF b.frame = NoFrame THEN b.dropped - 1 ELSE b.dropped + 1,
          b.load, [frame |-> frame, source |-> source])

WithFrame(b, frame, source) ==
    Inbox(b.stopping, b.desired, b.source,
          IF b.frame = NoFrame THEN b.dropped ELSE b.dropped + 1,
          b.load, [frame |-> frame, source |-> source])

\* stop()
WithStop(b) == Inbox(TRUE, b.desired, b.source, b.dropped, NoLoad, NoFrame)

\* The condition run() waits for.
HasWork(b) == b.stopping \/ b.load # NoLoad \/ b.frame # NoFrame
\* condition_.notify_one(): only run() ever waits.
Notify == inferencePc' = IF inferencePc = "asleep" THEN "waiting" ELSE inferencePc

-----------------------------------------------------------------------------
(* run(). *)

InferenceEvent(event, load, frame, dropped) ==
    [event |-> event, load |-> load, frame |-> frame, dropped |-> dropped]

\* The GUI shows no detection.
NoPacket == InferenceEvent("none", NoLoad, NoFrame, 0)

\* One signal ends the work on a job.
Emit(event) == /\ Post(<<event>>)
               /\ inferencePc' = "waiting"
               /\ job' = NoJob

Abandon == inferencePc' = "waiting" /\ job' = NoJob

FallAsleep == /\ inferencePc = "waiting" /\ ~HasWork(inbox)
              /\ inferencePc' = "asleep"
              /\ UNCHANGED <<guiQueue, inbox, job, detector, loadedGeneration>>

SpuriousWakeup == /\ inferencePc = "asleep"
                  /\ inferencePc' = "waiting"
                  /\ UNCHANGED <<guiQueue, inbox, job, detector, loadedGeneration>>

Exit == /\ inferencePc = "waiting" /\ inbox.stopping
        /\ inferencePc' = "exited"
        /\ detector' = FALSE
        /\ UNCHANGED <<guiQueue, inbox, job, loadedGeneration>>

\* A load goes before a frame, and takes the frame out of the mailbox as well.
\* The old detector is gone before the new one is created.
TakeLoad == /\ inferencePc = "waiting" /\ ~inbox.stopping /\ inbox.load # NoLoad
            /\ job' = Job(inbox.load, NoFrame, 0)
            /\ inbox' = Inbox(FALSE, inbox.desired, inbox.source, inbox.dropped, NoLoad, NoFrame)
            /\ inferencePc' = "loading"
            /\ detector' = FALSE
            /\ UNCHANGED <<guiQueue, loadedGeneration>>

TakeFrame == /\ inferencePc = "waiting" /\ ~inbox.stopping
             /\ inbox.load = NoLoad /\ inbox.frame # NoFrame
             /\ job' = Job(NoLoad, inbox.frame, inbox.dropped)
             /\ inbox' = Inbox(FALSE, inbox.desired, inbox.source, inbox.dropped, NoLoad, NoFrame)
             /\ inferencePc' = "detecting"
             /\ UNCHANGED <<guiQueue, detector, loadedGeneration>>
\* A faulty variant: the failure is not reported.
LoadFailsSilently == /\ inferencePc = "loading"
                     /\ Abandon
                     /\ UNCHANGED <<guiQueue, inbox, detector, loadedGeneration>>

\* createLoadedDetector() fails, or what it loaded has no metadata.
LoadFails == /\ inferencePc = "loading"
             /\ Emit(InferenceEvent("loadFailed", job.load, NoFrame, 0))
             /\ UNCHANGED <<inbox, detector, loadedGeneration>>

LoadSucceeds == /\ inferencePc = "loading"
                /\ inferencePc' = "loaded"
                /\ UNCHANGED <<guiQueue, inbox, job, detector, loadedGeneration>>
\* A faulty variant: the comparison is turned around.
CheckLoadInverted == /\ inferencePc = "loaded"
                     /\ IF job.load # inbox.desired
                        THEN inferencePc' = "announcing" /\ UNCHANGED job
                        ELSE Abandon
                     /\ UNCHANGED <<guiQueue, inbox, detector, loadedGeneration>>

\* The generation is checked under the mutex, before the signal is emitted.
CheckLoad == /\ inferencePc = "loaded"
             /\ IF job.load = inbox.desired
                THEN inferencePc' = "announcing" /\ UNCHANGED job
                ELSE Abandon
             /\ UNCHANGED <<guiQueue, inbox, detector, loadedGeneration>>
\* A faulty variant: the generation of the detector is not recorded.
AnnounceLoadUnrecorded ==
    /\ inferencePc = "announcing"
    /\ detector' = TRUE
    /\ Emit(InferenceEvent("modelLoaded", job.load, NoFrame, 0))
    /\ UNCHANGED <<inbox, loadedGeneration>>

AnnounceLoad == /\ inferencePc = "announcing"
                /\ detector' = TRUE
                /\ loadedGeneration' = job.load
                /\ Emit(InferenceEvent("modelLoaded", job.load, NoFrame, 0))
                /\ UNCHANGED inbox

\* No detector is loaded, or detect() fails.  The signal says nothing of the
\* frame; the frame is kept in the event only to state properties about it.
DetectFails == /\ inferencePc = "detecting"
               /\ Emit(InferenceEvent("inferenceFailed", NoLoad, job.frame, 0))
               /\ UNCHANGED <<inbox, detector, loadedGeneration>>

DetectSucceeds == /\ inferencePc = "detecting" /\ detector
                  /\ inferencePc' = "detected"
                  /\ UNCHANGED <<guiQueue, inbox, job, detector, loadedGeneration>>

CheckDetection == /\ inferencePc = "detected"
                  /\ IF loadedGeneration = inbox.desired /\ job.frame.source = inbox.source
                     THEN inferencePc' = "publishing" /\ UNCHANGED job
                     ELSE Abandon
                  /\ UNCHANGED <<guiQueue, inbox, detector, loadedGeneration>>

Publish == /\ inferencePc = "publishing"
           /\ Emit(InferenceEvent("detection", loadedGeneration, job.frame, job.dropped))
           /\ UNCHANGED <<inbox, detector, loadedGeneration>>

InferenceThread == \/ FallAsleep \/ Exit \/ TakeLoad \/ TakeFrame
                   \/ LoadFails \/ LoadSucceeds \/ CheckLoad \/ AnnounceLoad
                   \/ DetectFails \/ DetectSucceeds \/ CheckDetection \/ Publish
=============================================================================
