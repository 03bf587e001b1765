----------------------- MODULE InferenceProtocolProofs -----------------------
(***************************************************************************)
(* What the window says and shows of models and frames, for every number   *)
(* of loads, sources and frames.  The argument: at most one load is under  *)
(* way, so every answer is of the generation requested last; a frame is    *)
(* submitted only while the detector of that generation is loaded, and a   *)
(* new generation comes with a new source, so a result of the current      *)
(* source is of the current model; and the results of one source pass      *)
(* through mailbox, thread and queue in the order of their submission.     *)
(***************************************************************************)
EXTENDS InferenceProtocol, TLAPS

\* No answer to a load waits for the GUI thread, and at most one does.
NoAnswer == \A i \in 1..Len(guiQueue) : guiQueue[i].event \notin Answers

OneAnswer == \A i, j \in 1..Len(guiQueue) :
                 guiQueue[i].event \in Answers /\ guiQueue[j].event \in Answers => i = j

\* LoadAccountedFor, place by place.
OneLoad ==
    /\ modelState # "Loading" =>
          clientPc # "requestLoad" /\ inbox.load = NoLoad /\ job.load = NoLoad /\ NoAnswer
    /\ modelState = "Loading" =>
          clientPc = "requestLoad" \/ inbox.load # NoLoad \/ job.load # NoLoad \/ ~NoAnswer
    /\ clientPc = "requestLoad" => inbox.load = NoLoad /\ job.load = NoLoad /\ NoAnswer
    /\ inbox.load # NoLoad => job.load = NoLoad /\ NoAnswer
    /\ job.load # NoLoad => NoAnswer
    /\ OneAnswer

\* What the thread works on fits where it is; a stopped mailbox is empty; the
\* window closes in order.
Shape ==
    /\ inferencePc \in {"loading", "loaded", "announcing"} <=> job.load # NoLoad
    /\ inferencePc \in {"detecting", "detected", "publishing"} <=> job.frame # NoFrame
    /\ inbox.stopping <=> clientPc \in {"stopNotify", "join", "closed", "exited"}
    /\ inbox.stopping => inbox.load = NoLoad /\ inbox.frame = NoFrame
    /\ inbox.source = sourceGeneration
    /\ ~Open => modelState # "Loading"
    /\ clientPc \in {"stop", "stopNotify", "join"} => modelState = "Unloading"

\* The detector is the one requested last, and no load is under way.
Loaded == /\ detector /\ loadedGeneration = inbox.desired
          /\ inbox.load = NoLoad /\ job.load = NoLoad

\* Every load under way is the last one requested; "Ready", its announcement and
\* a waiting frame mean that its detector is there.
OfLastLoad ==
    /\ inbox.load \in {NoLoad, inbox.desired} /\ job.load \in {NoLoad, inbox.desired}
    /\ modelState = "Ready" /\ clientPc \notin {"closed", "exited"} => Loaded
    /\ inferencePc = "detecting" => detector
    /\ Open => \A i \in 1..Len(guiQueue) : guiQueue[i].event = "modelLoaded" => Loaded
    /\ inbox.frame # NoFrame => /\ Loaded
                                /\ Open => modelState = "Ready"
                                /\ inbox.frame.source = inbox.source
                                /\ inbox.frame.frame <= submitted

\* Frame `number`, taken with a drop count of `dropped`, comes after the result
\* `earlier`: no more was dropped in between than lies between them.
After(earlier, number, dropped) ==
    /\ earlier.dropped <= dropped
    /\ dropped - earlier.dropped < number - earlier.frame.frame

\* A result or a frame at work that is of the current source is of the current
\* model, and comes before what is still to be submitted or taken.
Fresh(e) == /\ modelState # "Loading"
            /\ After(e, submitted + 1, inbox.dropped)
            /\ inbox.frame # NoFrame => After(e, inbox.frame.frame, inbox.dropped)

JobIsFresh == job.frame # NoFrame =>
    /\ job.frame.source <= sourceGeneration
    /\ job.frame.source = sourceGeneration => Fresh(job) /\ loadedGeneration = inbox.desired

\* A result that the window shows or would show.
FreshResult(e) == /\ Fresh(e)
                  /\ e.load = inbox.desired
                  /\ job.frame # NoFrame /\ job.frame.source = sourceGeneration =>
                        After(e, job.frame.frame, job.dropped)

Showable(i) == guiQueue[i].event = "detection" /\ guiQueue[i].frame.source = sourceGeneration

ResultsAreFresh ==
    /\ \A i \in 1..Len(guiQueue) :
          /\ guiQueue[i].frame.source <= sourceGeneration
          /\ Showable(i) => FreshResult(guiQueue[i])
    /\ \A i, j \in 1..Len(guiQueue) :
          i < j /\ Showable(i) /\ Showable(j) =>
              After(guiQueue[i], guiQueue[j].frame.frame, guiQueue[j].dropped)
    /\ packet # NoPacket =>
          /\ packet.frame.source = sourceGeneration
          /\ FreshResult(packet)
          /\ \A i \in 1..Len(guiQueue) :
                Showable(i) => After(packet, guiQueue[i].frame.frame, guiQueue[i].dropped)

IInv == /\ InferenceTypeOK
        /\ Open => OneLoad
        /\ Shape
        /\ OfLastLoad
        /\ JobIsFresh
        /\ ResultsAreFresh
        /\ WorkerIsWoken

-----------------------------------------------------------------------------
\* Posting an event leaves the queue as it was, with one event more.
LEMMA Posted ==
  ASSUME NEW S, NEW q \in Seq(S), NEW m \in S
  PROVE  /\ q \o <<m>> \in Seq(S)
         /\ Len(q \o <<m>>) = Len(q) + 1
         /\ \A i \in 1..Len(q) : (q \o <<m>>)[i] = q[i]
         /\ (q \o <<m>>)[Len(q) + 1] = m
OBVIOUS

\* Delivering one moves the others up.
LEMMA Delivered ==
  ASSUME NEW S, NEW q \in Seq(S), q # <<>>
  PROVE  /\ Tail(q) \in Seq(S)
         /\ Len(q) \in Nat \ {0} /\ Len(Tail(q)) = Len(q) - 1
         /\ \A i \in 1..Len(Tail(q)) : i + 1 \in 1..Len(q) /\ Tail(q)[i] = q[i + 1]
         /\ Head(q) = q[1] /\ Head(q) \in S
OBVIOUS

\* Initially nothing is under way.
LEMMA InitIInv == InferenceInit => IInv
<1> SUFFICES ASSUME InferenceInit PROVE IInv
  OBVIOUS
<1> USE DEF InferenceInit, InferenceWorkerInit, EmptyInbox, Inbox, NoJob, Job, NoFrame, NoLoad
<1>1. InferenceTypeOK
  <2>1. inbox \in [stopping : BOOLEAN, desired : Nat, source : Nat, dropped : Nat, load : Nat, frame : FrameType]
    BY DEF FrameType
  <2>2. job \in [load : Nat, frame : FrameType, dropped : Nat]
    BY DEF FrameType
  <2>3. guiQueue \in Seq(InferenceEventType) /\ packet \in InferenceEventType \cup {NoPacket}
    OBVIOUS
  <2>4. inferencePc \in InferencePcs /\ modelState \in ModelStates /\ clientPc \in ClientPcs
    BY DEF InferencePcs, ModelStates, ClientPcs
  <2>5. detector \in BOOLEAN /\ loadedGeneration \in Nat /\ sourceGeneration \in Nat /\ submitted \in Nat
    OBVIOUS
  <2> QED BY <2>1, <2>2, <2>3, <2>4, <2>5 DEF InferenceTypeOK
<1>2. OneLoad /\ Shape /\ OfLastLoad
  BY DEF OneLoad, NoAnswer, OneAnswer, Shape, Open, OfLastLoad, Loaded, Answers
<1>3. JobIsFresh /\ ResultsAreFresh /\ WorkerIsWoken
  BY DEF JobIsFresh, ResultsAreFresh, Showable, WorkerIsWoken, HasWork
<1> QED BY <1>1, <1>2, <1>3 DEF IInv

-----------------------------------------------------------------------------
(* Types. *)

\* The mailbox and the work of the thread, field by field.
LEMMA Fields ==
  ASSUME InferenceTypeOK
  PROVE  /\ inbox.stopping \in BOOLEAN /\ inbox.desired \in Nat /\ inbox.source \in Nat
         /\ inbox.dropped \in Nat /\ inbox.load \in Nat
         /\ inbox.frame \in FrameType /\ inbox.frame.frame \in Nat /\ inbox.frame.source \in Nat
         /\ job.load \in Nat /\ job.frame \in FrameType /\ job.dropped \in Nat
         /\ job.frame.frame \in Nat /\ job.frame.source \in Nat
BY DEF InferenceTypeOK, FrameType

\* The mailbox, field by field.
BoxType == [stopping : BOOLEAN, desired : Nat, source : Nat, dropped : Nat, load : Nat, frame : FrameType]

\* What the critical sections leave in the mailbox is a mailbox.
LEMMA Boxes ==
  ASSUME InferenceTypeOK
  PROVE  /\ WithLoad(inbox) \in BoxType /\ WithStop(inbox) \in BoxType
         /\ WithSource(inbox, sourceGeneration + 1) \in BoxType
         /\ WithFrame(inbox, submitted + 1, sourceGeneration) \in BoxType
         /\ Inbox(FALSE, inbox.desired, inbox.source, inbox.dropped, NoLoad, NoFrame) \in BoxType
BY Fields DEF InferenceTypeOK, WithLoad, WithStop, WithSource, WithFrame, Inbox, NoLoad, NoFrame, FrameType, BoxType

\* Jobs and events of well-typed parts are well-typed.
LEMMA Works ==
  /\ NoFrame \in FrameType
  /\ \A load, dropped \in Nat : \A frame \in FrameType :
        /\ Job(load, frame, dropped) \in [load : Nat, frame : FrameType, dropped : Nat]
        /\ \A event \in {"modelLoaded", "loadFailed", "inferenceFailed", "detection"} :
              InferenceEvent(event, load, frame, dropped) \in InferenceEventType
BY DEF NoFrame, FrameType, Job, InferenceEvent, InferenceEventType

\* Every step keeps the types.
LEMMA KeepsTypes == ASSUME InferenceTypeOK, [InferenceNext]_inferenceVars PROVE InferenceTypeOK'
<1> USE Fields, Boxes, Works DEF InferenceTypeOK, BoxType, InferencePcs, ModelStates, ClientPcs, NoJob, NoLoad
<1>1. CASE PerformModelLoad
  <2>1. sourceGeneration + 1 \in Nat /\ inbox' = WithSource(inbox, sourceGeneration + 1)
    BY <1>1 DEF PerformModelLoad, InvalidateSource
  <2>2. inbox' \in BoxType
    BY <2>1
  <2> QED BY <1>1, <2>1, <2>2 DEF PerformModelLoad, InvalidateSource, workerRest
<1>2. CASE ChangeSource
  <2>1. sourceGeneration + 1 \in Nat /\ inbox' = WithSource(inbox, sourceGeneration + 1)
    BY <1>2 DEF ChangeSource, InvalidateSource
  <2>2. inbox' \in BoxType
    BY <2>1
  <2> QED BY <1>2, <2>1, <2>2 DEF ChangeSource, InvalidateSource, workerRest
<1>3. CASE RequestLoad
  BY <1>3 DEF RequestLoad, workerRest, clientVars
<1>4. CASE SubmitFrame
  <2>1. submitted' \in Nat /\ inbox' \in {inbox, WithFrame(inbox, submitted + 1, sourceGeneration)}
    BY <1>4 DEF SubmitFrame
  <2>2. inbox' \in BoxType
    BY <2>1
  <2> QED BY <1>4, <2>1, <2>2 DEF SubmitFrame, workerRest
<1>5. CASE SubmitNothing
  BY <1>5 DEF SubmitNothing, inferenceWorkerVars, clientVars
<1>6. CASE NotifyWorker
  BY <1>6 DEF NotifyWorker, Notify, clientVars
<1>7. CASE Shutdown
  BY <1>7 DEF Shutdown, inferenceWorkerVars
<1>8. CASE StopWorker
  BY <1>8 DEF StopWorker, workerRest, clientVars
<1>9. CASE Joined
  BY <1>9 DEF Joined, inferenceWorkerVars, clientVars
<1>10. CASE Quit
  BY <1>10 DEF Quit, inferenceWorkerVars, clientVars
<1>11. CASE OnModelLoaded
  BY <1>11, Delivered DEF OnModelLoaded, Handle, Deliver, Queued, inferenceWorkerVars
<1>12. CASE OnLoadFailed
  BY <1>12, Delivered DEF OnLoadFailed, Handle, Deliver, Queued, inferenceWorkerVars
<1>13. CASE OnInferenceFailed
  BY <1>13, Delivered DEF OnInferenceFailed, Handle, Deliver, Queued, inferenceWorkerVars
<1>14. CASE OnDetection
  BY <1>14, Delivered DEF OnDetection, Handle, Deliver, Queued, inferenceWorkerVars
<1>15. CASE FallAsleep /\ UNCHANGED <<clientVars, clientPc>>
  BY <1>15 DEF FallAsleep, clientVars
<1>16. CASE SpuriousWakeup /\ UNCHANGED <<clientVars, clientPc>>
  BY <1>16 DEF SpuriousWakeup, clientVars
<1>17. CASE Exit /\ UNCHANGED <<clientVars, clientPc>>
  BY <1>17 DEF Exit, clientVars
<1>18. CASE TakeLoad /\ UNCHANGED <<clientVars, clientPc>>
  BY <1>18 DEF TakeLoad, clientVars
<1>19. CASE TakeFrame /\ UNCHANGED <<clientVars, clientPc>>
  BY <1>19 DEF TakeFrame, clientVars
<1>20. CASE LoadSucceeds /\ UNCHANGED <<clientVars, clientPc>>
  BY <1>20 DEF LoadSucceeds, clientVars
<1>21. CASE CheckLoad /\ UNCHANGED <<clientVars, clientPc>>
  BY <1>21 DEF CheckLoad, Abandon, clientVars
<1>22. CASE DetectSucceeds /\ UNCHANGED <<clientVars, clientPc>>
  BY <1>22 DEF DetectSucceeds, clientVars
<1>23. CASE CheckDetection /\ UNCHANGED <<clientVars, clientPc>>
  BY <1>23 DEF CheckDetection, Abandon, clientVars
<1>24. CASE LoadFails /\ UNCHANGED <<clientVars, clientPc>>
  BY <1>24, Posted DEF LoadFails, Emit, Post, clientVars
<1>25. CASE AnnounceLoad /\ UNCHANGED <<clientVars, clientPc>>
  BY <1>25, Posted DEF AnnounceLoad, Emit, Post, clientVars
<1>26. CASE DetectFails /\ UNCHANGED <<clientVars, clientPc>>
  BY <1>26, Posted DEF DetectFails, Emit, Post, clientVars
<1>27. CASE Publish /\ UNCHANGED <<clientVars, clientPc>>
  BY <1>27, Posted DEF Publish, Emit, Post, clientVars
<1>28. CASE UNCHANGED inferenceVars
  BY <1>28 DEF inferenceVars, inferenceWorkerVars, clientVars
<1> QED BY <1>1, <1>2, <1>3, <1>4, <1>5, <1>6, <1>7, <1>8, <1>9, <1>10, <1>11, <1>12, <1>13, <1>14, <1>15, <1>16, <1>17, <1>18, <1>19, <1>20, <1>21, <1>22, <1>23, <1>24, <1>25, <1>26, <1>27, <1>28 DEF InferenceNext, Continue, Thread, InferenceThread, Spurious, Terminated

-----------------------------------------------------------------------------
(* The invariant, conjunct by conjunct. *)

\* The boxes and the work of the thread, opened.
LEMMA KeepsShape == ASSUME IInv, [InferenceNext]_inferenceVars PROVE Shape'
<1> USE Fields DEF IInv, Shape, Open, Inbox, Job, NoJob, NoLoad
<1>1. CASE PerformModelLoad
  BY <1>1 DEF PerformModelLoad, InvalidateSource, WithSource, workerRest
<1>2. CASE ChangeSource
  BY <1>2 DEF ChangeSource, InvalidateSource, WithSource, workerRest
<1>3. CASE RequestLoad
  BY <1>3 DEF RequestLoad, WithLoad, workerRest, clientVars
<1>4. CASE SubmitFrame
  BY <1>4 DEF SubmitFrame, TakesFrame, WithFrame, workerRest
<1>5. CASE SubmitNothing
  BY <1>5 DEF SubmitNothing, inferenceWorkerVars, clientVars
<1>6. CASE NotifyWorker
  BY <1>6 DEF NotifyWorker, Notify, clientVars
<1>7. CASE Shutdown
  BY <1>7 DEF Shutdown, inferenceWorkerVars
<1>8. CASE StopWorker
  BY <1>8 DEF StopWorker, WithStop, workerRest, clientVars
<1>9. CASE Joined
  BY <1>9 DEF Joined, inferenceWorkerVars, clientVars
<1>10. CASE Quit
  BY <1>10 DEF Quit, inferenceWorkerVars, clientVars
<1>11. CASE OnModelLoaded
  BY <1>11, Delivered DEF OnModelLoaded, Handle, Deliver, Queued, inferenceWorkerVars
<1>12. CASE OnLoadFailed
  BY <1>12, Delivered DEF OnLoadFailed, Handle, Deliver, Queued, inferenceWorkerVars
<1>13. CASE OnInferenceFailed
  BY <1>13, Delivered DEF OnInferenceFailed, Handle, Deliver, Queued, inferenceWorkerVars
<1>14. CASE OnDetection
  BY <1>14, Delivered DEF OnDetection, Handle, Deliver, Queued, inferenceWorkerVars
<1>15. CASE FallAsleep /\ UNCHANGED <<clientVars, clientPc>>
  BY <1>15 DEF FallAsleep, clientVars
<1>16. CASE SpuriousWakeup /\ UNCHANGED <<clientVars, clientPc>>
  BY <1>16 DEF SpuriousWakeup, clientVars
<1>17. CASE Exit /\ UNCHANGED <<clientVars, clientPc>>
  BY <1>17 DEF Exit, clientVars
<1>18. CASE TakeLoad /\ UNCHANGED <<clientVars, clientPc>>
  BY <1>18 DEF TakeLoad, clientVars
<1>19. CASE TakeFrame /\ UNCHANGED <<clientVars, clientPc>>
  BY <1>19 DEF TakeFrame, clientVars
<1>20. CASE LoadSucceeds /\ UNCHANGED <<clientVars, clientPc>>
  BY <1>20 DEF LoadSucceeds, clientVars
<1>21. CASE CheckLoad /\ UNCHANGED <<clientVars, clientPc>>
  BY <1>21 DEF CheckLoad, Abandon, clientVars
<1>22. CASE DetectSucceeds /\ UNCHANGED <<clientVars, clientPc>>
  BY <1>22 DEF DetectSucceeds, clientVars
<1>23. CASE CheckDetection /\ UNCHANGED <<clientVars, clientPc>>
  BY <1>23 DEF CheckDetection, Abandon, clientVars
<1>24. CASE LoadFails /\ UNCHANGED <<clientVars, clientPc>>
  BY <1>24, Posted DEF LoadFails, Emit, Post, clientVars
<1>25. CASE AnnounceLoad /\ UNCHANGED <<clientVars, clientPc>>
  BY <1>25, Posted DEF AnnounceLoad, Emit, Post, clientVars
<1>26. CASE DetectFails /\ UNCHANGED <<clientVars, clientPc>>
  BY <1>26, Posted DEF DetectFails, Emit, Post, clientVars
<1>27. CASE Publish /\ UNCHANGED <<clientVars, clientPc>>
  BY <1>27, Posted DEF Publish, Emit, Post, clientVars
<1>28. CASE UNCHANGED inferenceVars
  BY <1>28 DEF inferenceVars, inferenceWorkerVars, clientVars
<1> QED BY <1>1, <1>2, <1>3, <1>4, <1>5, <1>6, <1>7, <1>8, <1>9, <1>10, <1>11, <1>12, <1>13, <1>14, <1>15, <1>16, <1>17, <1>18, <1>19, <1>20, <1>21, <1>22, <1>23, <1>24, <1>25, <1>26, <1>27, <1>28 DEF InferenceNext, Continue, Thread, InferenceThread, Spurious, Terminated

\* No step wakes the thread for nothing or leaves it asleep with work to do.
LEMMA KeepsWoken == ASSUME IInv, [InferenceNext]_inferenceVars PROVE WorkerIsWoken'
<1> USE Fields DEF IInv, WorkerIsWoken, HasWork, Inbox, NoLoad
<1>1. CASE PerformModelLoad
  BY <1>1 DEF PerformModelLoad, InvalidateSource, WithSource, workerRest
<1>2. CASE ChangeSource
  BY <1>2 DEF ChangeSource, InvalidateSource, WithSource, workerRest
<1>3. CASE RequestLoad
  BY <1>3 DEF RequestLoad, WithLoad, workerRest, clientVars
<1>4. CASE SubmitFrame
  BY <1>4 DEF SubmitFrame, TakesFrame, WithFrame, workerRest
<1>5. CASE SubmitNothing
  BY <1>5 DEF SubmitNothing, inferenceWorkerVars, clientVars
<1>6. CASE NotifyWorker
  BY <1>6 DEF NotifyWorker, Notify, clientVars
<1>7. CASE Shutdown
  BY <1>7 DEF Shutdown, inferenceWorkerVars
<1>8. CASE StopWorker
  BY <1>8 DEF StopWorker, WithStop, workerRest, clientVars
<1>9. CASE Joined
  BY <1>9 DEF Joined, inferenceWorkerVars, clientVars
<1>10. CASE Quit
  BY <1>10 DEF Quit, inferenceWorkerVars, clientVars
<1>11. CASE OnModelLoaded
  BY <1>11, Delivered DEF OnModelLoaded, Handle, Deliver, Queued, inferenceWorkerVars
<1>12. CASE OnLoadFailed
  BY <1>12, Delivered DEF OnLoadFailed, Handle, Deliver, Queued, inferenceWorkerVars
<1>13. CASE OnInferenceFailed
  BY <1>13, Delivered DEF OnInferenceFailed, Handle, Deliver, Queued, inferenceWorkerVars
<1>14. CASE OnDetection
  BY <1>14, Delivered DEF OnDetection, Handle, Deliver, Queued, inferenceWorkerVars
<1>15. CASE FallAsleep /\ UNCHANGED <<clientVars, clientPc>>
  BY <1>15 DEF FallAsleep, clientVars
<1>16. CASE SpuriousWakeup /\ UNCHANGED <<clientVars, clientPc>>
  BY <1>16 DEF SpuriousWakeup, clientVars
<1>17. CASE Exit /\ UNCHANGED <<clientVars, clientPc>>
  BY <1>17 DEF Exit, clientVars
<1>18. CASE TakeLoad /\ UNCHANGED <<clientVars, clientPc>>
  BY <1>18 DEF TakeLoad, clientVars
<1>19. CASE TakeFrame /\ UNCHANGED <<clientVars, clientPc>>
  BY <1>19 DEF TakeFrame, clientVars
<1>20. CASE LoadSucceeds /\ UNCHANGED <<clientVars, clientPc>>
  BY <1>20 DEF LoadSucceeds, clientVars
<1>21. CASE CheckLoad /\ UNCHANGED <<clientVars, clientPc>>
  BY <1>21 DEF CheckLoad, Abandon, clientVars
<1>22. CASE DetectSucceeds /\ UNCHANGED <<clientVars, clientPc>>
  BY <1>22 DEF DetectSucceeds, clientVars
<1>23. CASE CheckDetection /\ UNCHANGED <<clientVars, clientPc>>
  BY <1>23 DEF CheckDetection, Abandon, clientVars
<1>24. CASE LoadFails /\ UNCHANGED <<clientVars, clientPc>>
  BY <1>24, Posted DEF LoadFails, Emit, Post, clientVars
<1>25. CASE AnnounceLoad /\ UNCHANGED <<clientVars, clientPc>>
  BY <1>25, Posted DEF AnnounceLoad, Emit, Post, clientVars
<1>26. CASE DetectFails /\ UNCHANGED <<clientVars, clientPc>>
  BY <1>26, Posted DEF DetectFails, Emit, Post, clientVars
<1>27. CASE Publish /\ UNCHANGED <<clientVars, clientPc>>
  BY <1>27, Posted DEF Publish, Emit, Post, clientVars
<1>28. CASE UNCHANGED inferenceVars
  BY <1>28 DEF inferenceVars, inferenceWorkerVars, clientVars
<1> QED BY <1>1, <1>2, <1>3, <1>4, <1>5, <1>6, <1>7, <1>8, <1>9, <1>10, <1>11, <1>12, <1>13, <1>14, <1>15, <1>16, <1>17, <1>18, <1>19, <1>20, <1>21, <1>22, <1>23, <1>24, <1>25, <1>26, <1>27, <1>28 DEF InferenceNext, Continue, Thread, InferenceThread, Spurious, Terminated

\* A posted event, whatever it is, is the last one; the others stay.
LEMMA QueuePosted ==
  ASSUME InferenceTypeOK, NEW e \in InferenceEventType, Post(<<e>>)
  PROVE  /\ Len(guiQueue) \in Nat /\ Len(guiQueue') = Len(guiQueue) + 1
         /\ \A i \in 1..Len(guiQueue) : guiQueue'[i] = guiQueue[i]
         /\ guiQueue'[Len(guiQueue) + 1] = e
BY Posted DEF Post, InferenceTypeOK

\* A delivered event was the first one; the others move up.
LEMMA QueueDelivered ==
  ASSUME InferenceTypeOK, NEW e, Deliver(e)
  PROVE  /\ Len(guiQueue) \in Nat \ {0} /\ Len(guiQueue') = Len(guiQueue) - 1
         /\ \A i \in 1..Len(guiQueue') : i + 1 \in 1..Len(guiQueue) /\ guiQueue'[i] = guiQueue[i + 1]
         /\ e = guiQueue[1] /\ e \in InferenceEventType
BY Delivered DEF Deliver, InferenceTypeOK

\* Posting an answer where there was none makes one; posting anything else none.
LEMMA AnswerPosted ==
  ASSUME InferenceTypeOK, NEW e \in InferenceEventType, Post(<<e>>)
  PROVE  /\ e.event \notin Answers => (NoAnswer' <=> NoAnswer) /\ (OneAnswer => OneAnswer')
         /\ e.event \in Answers /\ NoAnswer => ~NoAnswer' /\ OneAnswer'
<1> USE QueuePosted DEF NoAnswer, OneAnswer
<1>1. ASSUME e.event \notin Answers PROVE (NoAnswer' <=> NoAnswer) /\ (OneAnswer => OneAnswer')
  <2>1. \A i \in 1..Len(guiQueue') : i \in 1..Len(guiQueue) \/ guiQueue'[i].event \notin Answers
    BY <1>1
  <2>2. \A i \in 1..Len(guiQueue) : i \in 1..Len(guiQueue')
    OBVIOUS
  <2> QED BY <2>1, <2>2
<1>2. ASSUME e.event \in Answers, NoAnswer PROVE ~NoAnswer' /\ OneAnswer'
  BY <1>2
<1> QED BY <1>1, <1>2

\* The answer that is delivered was the only one.
LEMMA AnswerDelivered ==
  ASSUME InferenceTypeOK, NEW e, Deliver(e)
  PROVE  /\ e.event \notin Answers => (NoAnswer' <=> NoAnswer) /\ (OneAnswer => OneAnswer')
         /\ e.event \in Answers /\ OneAnswer => ~NoAnswer /\ NoAnswer' /\ OneAnswer'
<1> USE QueueDelivered DEF NoAnswer, OneAnswer
<1>1. ASSUME e.event \notin Answers PROVE (NoAnswer' <=> NoAnswer) /\ (OneAnswer => OneAnswer')
  <2>1. ASSUME NEW i \in 1..Len(guiQueue), i # 1
        PROVE  \E j \in 1..Len(guiQueue') : guiQueue'[j] = guiQueue[i]
    <3>1. i - 1 \in 1..Len(guiQueue') /\ (i - 1) + 1 = i
      BY <2>1
    <3> QED BY <3>1
  <2>2. guiQueue[1].event \notin Answers
    BY <1>1
  <2>3. OneAnswer => OneAnswer'
    OBVIOUS
  <2> QED BY <2>1, <2>2, <2>3
<1>2. ASSUME e.event \in Answers, OneAnswer PROVE ~NoAnswer /\ NoAnswer' /\ OneAnswer'
  BY <1>2
<1> QED BY <1>1, <1>2

\* One load at a time.
LEMMA KeepsOneLoad == ASSUME IInv, [InferenceNext]_inferenceVars PROVE (Open => OneLoad)'
<1> USE Fields DEF IInv, Shape, OneLoad, Open, Inbox, Job, NoJob, NoLoad
<1>1. CASE PerformModelLoad
  BY <1>1 DEF PerformModelLoad, InvalidateSource, WithSource, workerRest, NoAnswer, OneAnswer
<1>2. CASE ChangeSource
  BY <1>2 DEF ChangeSource, InvalidateSource, WithSource, workerRest, NoAnswer, OneAnswer
<1>3. CASE RequestLoad
  BY <1>3 DEF RequestLoad, WithLoad, workerRest, clientVars, NoAnswer, OneAnswer
<1>4. CASE SubmitFrame
  BY <1>4 DEF SubmitFrame, TakesFrame, WithFrame, workerRest, NoAnswer, OneAnswer
<1>5. CASE SubmitNothing
  BY <1>5 DEF SubmitNothing, inferenceWorkerVars, clientVars, NoAnswer, OneAnswer
<1>6. CASE NotifyWorker
  BY <1>6 DEF NotifyWorker, Notify, clientVars, NoAnswer, OneAnswer
<1>7. CASE Shutdown
  BY <1>7 DEF Shutdown, inferenceWorkerVars, NoAnswer, OneAnswer
<1>8. CASE StopWorker
  BY <1>8 DEF StopWorker, WithStop, workerRest, clientVars, NoAnswer, OneAnswer
<1>9. CASE Joined
  BY <1>9 DEF Joined, inferenceWorkerVars, clientVars, NoAnswer, OneAnswer
<1>10. CASE Quit
  BY <1>10 DEF Quit, inferenceWorkerVars, clientVars, NoAnswer, OneAnswer
<1>11. CASE OnModelLoaded
  <2> DEFINE e == InferenceEvent("modelLoaded", Queued.load, NoFrame, 0)
  <2>1. Deliver(e) /\ e.event \in Answers
    BY <1>11 DEF OnModelLoaded, Handle, InferenceEvent, Answers
  <2> HIDE DEF e
  <2> QED BY <1>11, <2>1, AnswerDelivered DEF OnModelLoaded, Handle, inferenceWorkerVars
<1>12. CASE OnLoadFailed
  <2> DEFINE e == InferenceEvent("loadFailed", Queued.load, NoFrame, 0)
  <2>1. Deliver(e) /\ e.event \in Answers
    BY <1>12 DEF OnLoadFailed, Handle, InferenceEvent, Answers
  <2> HIDE DEF e
  <2> QED BY <1>12, <2>1, AnswerDelivered DEF OnLoadFailed, Handle, inferenceWorkerVars
<1>13. CASE OnInferenceFailed
  <2> DEFINE e == InferenceEvent("inferenceFailed", NoLoad, Queued.frame, 0)
  <2>1. Deliver(e) /\ e.event \notin Answers
    BY <1>13 DEF OnInferenceFailed, Handle, InferenceEvent, Answers
  <2> HIDE DEF e
  <2> QED BY <1>13, <2>1, AnswerDelivered DEF OnInferenceFailed, Handle, inferenceWorkerVars
<1>14. CASE OnDetection
  <2> DEFINE e == InferenceEvent("detection", Queued.load, Queued.frame, Queued.dropped)
  <2>1. Deliver(e) /\ e.event \notin Answers
    BY <1>14 DEF OnDetection, Handle, InferenceEvent, Answers
  <2> HIDE DEF e
  <2> QED BY <1>14, <2>1, AnswerDelivered DEF OnDetection, Handle, inferenceWorkerVars
<1>15. CASE FallAsleep /\ UNCHANGED <<clientVars, clientPc>>
  BY <1>15 DEF FallAsleep, clientVars, NoAnswer, OneAnswer
<1>16. CASE SpuriousWakeup /\ UNCHANGED <<clientVars, clientPc>>
  BY <1>16 DEF SpuriousWakeup, clientVars, NoAnswer, OneAnswer
<1>17. CASE Exit /\ UNCHANGED <<clientVars, clientPc>>
  BY <1>17 DEF Exit, clientVars, NoAnswer, OneAnswer
<1>18. CASE TakeLoad /\ UNCHANGED <<clientVars, clientPc>>
  BY <1>18 DEF TakeLoad, clientVars, NoAnswer, OneAnswer
<1>19. CASE TakeFrame /\ UNCHANGED <<clientVars, clientPc>>
  BY <1>19 DEF TakeFrame, clientVars, NoAnswer, OneAnswer
<1>20. CASE LoadSucceeds /\ UNCHANGED <<clientVars, clientPc>>
  BY <1>20 DEF LoadSucceeds, clientVars, NoAnswer, OneAnswer
<1>21. CASE CheckLoad /\ UNCHANGED <<clientVars, clientPc>>
  BY <1>21 DEF CheckLoad, Abandon, clientVars, OfLastLoad, NoAnswer, OneAnswer
<1>22. CASE DetectSucceeds /\ UNCHANGED <<clientVars, clientPc>>
  BY <1>22 DEF DetectSucceeds, clientVars, NoAnswer, OneAnswer
<1>23. CASE CheckDetection /\ UNCHANGED <<clientVars, clientPc>>
  BY <1>23 DEF CheckDetection, Abandon, clientVars, NoAnswer, OneAnswer
<1>24. CASE LoadFails /\ UNCHANGED <<clientVars, clientPc>>
  <2> DEFINE e == InferenceEvent("loadFailed", job.load, NoFrame, 0)
  <2>1. Post(<<e>>) /\ e \in InferenceEventType
    BY <1>24, Works DEF LoadFails, Emit, InferenceTypeOK
  <2>2. e.event \in Answers
    BY DEF InferenceEvent, Answers
  <2> HIDE DEF e
  <2> QED BY <1>24, <2>1, <2>2, AnswerPosted DEF LoadFails, Emit, clientVars
<1>25. CASE AnnounceLoad /\ UNCHANGED <<clientVars, clientPc>>
  <2> DEFINE e == InferenceEvent("modelLoaded", job.load, NoFrame, 0)
  <2>1. Post(<<e>>) /\ e \in InferenceEventType
    BY <1>25, Works DEF AnnounceLoad, Emit, InferenceTypeOK
  <2>2. e.event \in Answers
    BY DEF InferenceEvent, Answers
  <2> HIDE DEF e
  <2> QED BY <1>25, <2>1, <2>2, AnswerPosted DEF AnnounceLoad, Emit, clientVars
<1>26. CASE DetectFails /\ UNCHANGED <<clientVars, clientPc>>
  <2> DEFINE e == InferenceEvent("inferenceFailed", NoLoad, job.frame, 0)
  <2>1. Post(<<e>>) /\ e \in InferenceEventType
    BY <1>26, Works DEF DetectFails, Emit, InferenceTypeOK
  <2>2. e.event \notin Answers
    BY DEF InferenceEvent, Answers
  <2> HIDE DEF e
  <2> QED BY <1>26, <2>1, <2>2, AnswerPosted DEF DetectFails, Emit, clientVars
<1>27. CASE Publish /\ UNCHANGED <<clientVars, clientPc>>
  <2> DEFINE e == InferenceEvent("detection", loadedGeneration, job.frame, job.dropped)
  <2>1. Post(<<e>>) /\ e \in InferenceEventType
    BY <1>27, Works DEF Publish, Emit, InferenceTypeOK
  <2>2. e.event \notin Answers
    BY DEF InferenceEvent, Answers
  <2> HIDE DEF e
  <2> QED BY <1>27, <2>1, <2>2, AnswerPosted DEF Publish, Emit, clientVars
<1>28. CASE UNCHANGED inferenceVars
  BY <1>28 DEF inferenceVars, inferenceWorkerVars, clientVars, NoAnswer, OneAnswer
<1> QED BY <1>1, <1>2, <1>3, <1>4, <1>5, <1>6, <1>7, <1>8, <1>9, <1>10, <1>11, <1>12, <1>13, <1>14, <1>15, <1>16, <1>17, <1>18, <1>19, <1>20, <1>21, <1>22, <1>23, <1>24, <1>25, <1>26, <1>27, <1>28 DEF InferenceNext, Continue, Thread, InferenceThread, Spurious, Terminated

\* Loads, "Ready" and waiting frames keep to the last load.
LEMMA KeepsOfLastLoad == ASSUME IInv, [InferenceNext]_inferenceVars PROVE OfLastLoad'
<1> USE Fields DEF IInv, Shape, OneLoad, OfLastLoad, Loaded, Open, Inbox, Job, NoJob, NoLoad
<1>1. CASE PerformModelLoad
  BY <1>1 DEF PerformModelLoad, InvalidateSource, WithSource, workerRest
<1>2. CASE ChangeSource
  BY <1>2 DEF ChangeSource, InvalidateSource, WithSource, workerRest
<1>3. CASE RequestLoad
  BY <1>3 DEF RequestLoad, WithLoad, workerRest, clientVars, NoAnswer, Answers
<1>4. CASE SubmitFrame
  <2>1. CASE TakesFrame(inbox, sourceGeneration)
    <3>1. /\ inbox' = WithFrame(inbox, submitted + 1, sourceGeneration) /\ inbox.source = sourceGeneration
          /\ Loaded /\ modelState' = "Ready" /\ submitted' = submitted + 1 /\ submitted \in Nat
      BY <1>4, <2>1 DEF SubmitFrame, TakesFrame, InferenceTypeOK
    <3>2. /\ inbox'.frame.frame = submitted + 1 /\ inbox'.frame.source = sourceGeneration
          /\ inbox'.desired = inbox.desired /\ inbox'.load = NoLoad /\ inbox'.source = sourceGeneration
      BY <3>1 DEF WithFrame
    <3> QED BY <1>4, <3>1, <3>2 DEF SubmitFrame, workerRest
  <2>2. CASE ~TakesFrame(inbox, sourceGeneration)
    BY <1>4, <2>2 DEF SubmitFrame, workerRest, InferenceTypeOK
  <2> QED BY <2>1, <2>2
<1>5. CASE SubmitNothing
  BY <1>5 DEF SubmitNothing, inferenceWorkerVars, clientVars
<1>6. CASE NotifyWorker
  BY <1>6 DEF NotifyWorker, Notify, clientVars
<1>7. CASE Shutdown
  BY <1>7 DEF Shutdown, inferenceWorkerVars
<1>8. CASE StopWorker
  BY <1>8 DEF StopWorker, WithStop, workerRest, clientVars
<1>9. CASE Joined
  BY <1>9 DEF Joined, inferenceWorkerVars, clientVars
<1>10. CASE Quit
  BY <1>10 DEF Quit, inferenceWorkerVars, clientVars
<1>11. CASE OnModelLoaded
  <2> DEFINE e == InferenceEvent("modelLoaded", Queued.load, NoFrame, 0)
  <2>1. Deliver(e) /\ e.event = "modelLoaded"
    BY <1>11 DEF OnModelLoaded, Handle, InferenceEvent
  <2> HIDE DEF e
  <2> QED BY <1>11, <2>1, QueueDelivered DEF OnModelLoaded, Handle, inferenceWorkerVars, NoAnswer, Answers
<1>12. CASE OnLoadFailed
  <2> DEFINE e == InferenceEvent("loadFailed", Queued.load, NoFrame, 0)
  <2>1. Deliver(e) /\ e.event = "loadFailed"
    BY <1>12 DEF OnLoadFailed, Handle, InferenceEvent
  <2> HIDE DEF e
  <2>2. Open => modelState = "Loading"
    BY <1>12, <2>1, QueueDelivered DEF NoAnswer, Answers, OnLoadFailed, Handle
  <2> QED BY <1>12, <2>1, <2>2, QueueDelivered DEF OnLoadFailed, Handle, inferenceWorkerVars, NoAnswer, Answers
<1>13. CASE OnInferenceFailed
  <2> DEFINE e == InferenceEvent("inferenceFailed", NoLoad, Queued.frame, 0)
  <2>1. Deliver(e) /\ e.event # "modelLoaded"
    BY <1>13 DEF OnInferenceFailed, Handle, InferenceEvent
  <2> HIDE DEF e
  <2> QED BY <1>13, <2>1, QueueDelivered DEF OnInferenceFailed, Handle, inferenceWorkerVars, NoAnswer, Answers
<1>14. CASE OnDetection
  <2> DEFINE e == InferenceEvent("detection", Queued.load, Queued.frame, Queued.dropped)
  <2>1. Deliver(e) /\ e.event # "modelLoaded"
    BY <1>14 DEF OnDetection, Handle, InferenceEvent
  <2> HIDE DEF e
  <2> QED BY <1>14, <2>1, QueueDelivered DEF OnDetection, Handle, inferenceWorkerVars, NoAnswer, Answers
<1>15. CASE FallAsleep /\ UNCHANGED <<clientVars, clientPc>>
  BY <1>15 DEF FallAsleep, clientVars
<1>16. CASE SpuriousWakeup /\ UNCHANGED <<clientVars, clientPc>>
  BY <1>16 DEF SpuriousWakeup, clientVars
<1>17. CASE Exit /\ UNCHANGED <<clientVars, clientPc>>
  BY <1>17 DEF Exit, clientVars
<1>18. CASE TakeLoad /\ UNCHANGED <<clientVars, clientPc>>
  BY <1>18 DEF TakeLoad, clientVars, NoAnswer, Answers
<1>19. CASE TakeFrame /\ UNCHANGED <<clientVars, clientPc>>
  BY <1>19 DEF TakeFrame, clientVars
<1>20. CASE LoadSucceeds /\ UNCHANGED <<clientVars, clientPc>>
  BY <1>20 DEF LoadSucceeds, clientVars
<1>21. CASE CheckLoad /\ UNCHANGED <<clientVars, clientPc>>
  BY <1>21 DEF CheckLoad, Abandon, clientVars
<1>22. CASE DetectSucceeds /\ UNCHANGED <<clientVars, clientPc>>
  BY <1>22 DEF DetectSucceeds, clientVars
<1>23. CASE CheckDetection /\ UNCHANGED <<clientVars, clientPc>>
  BY <1>23 DEF CheckDetection, Abandon, clientVars
<1>24. CASE LoadFails /\ UNCHANGED <<clientVars, clientPc>>
  <2> DEFINE e == InferenceEvent("loadFailed", job.load, NoFrame, 0)
  <2>1. Post(<<e>>) /\ e \in InferenceEventType
    BY <1>24, Works DEF LoadFails, Emit, InferenceTypeOK
  <2>2. e.event # "modelLoaded"
    BY <1>24 DEF LoadFails, Emit, InferenceEvent
  <2> HIDE DEF e
  <2>3. \A i \in 1..Len(guiQueue') :
          (i \in 1..Len(guiQueue) /\ guiQueue'[i] = guiQueue[i]) \/ guiQueue'[i] = e
    BY <2>1, QueuePosted
  <2> QED BY <1>24, <2>2, <2>3 DEF LoadFails, Emit, clientVars
<1>25. CASE AnnounceLoad /\ UNCHANGED <<clientVars, clientPc>>
  <2> DEFINE e == InferenceEvent("modelLoaded", job.load, NoFrame, 0)
  <2>1. Post(<<e>>) /\ e \in InferenceEventType
    BY <1>25, Works DEF AnnounceLoad, Emit, InferenceTypeOK
  <2>2. Open => Loaded'
    BY <1>25 DEF AnnounceLoad, Emit, InferenceEvent
  <2> HIDE DEF e
  <2>3. \A i \in 1..Len(guiQueue') :
          (i \in 1..Len(guiQueue) /\ guiQueue'[i] = guiQueue[i]) \/ guiQueue'[i] = e
    BY <2>1, QueuePosted
  <2> QED BY <1>25, <2>2, <2>3 DEF AnnounceLoad, Emit, clientVars
<1>26. CASE DetectFails /\ UNCHANGED <<clientVars, clientPc>>
  <2> DEFINE e == InferenceEvent("inferenceFailed", NoLoad, job.frame, 0)
  <2>1. Post(<<e>>) /\ e \in InferenceEventType
    BY <1>26, Works DEF DetectFails, Emit, InferenceTypeOK
  <2>2. e.event # "modelLoaded"
    BY <1>26 DEF DetectFails, Emit, InferenceEvent
  <2> HIDE DEF e
  <2>3. \A i \in 1..Len(guiQueue') :
          (i \in 1..Len(guiQueue) /\ guiQueue'[i] = guiQueue[i]) \/ guiQueue'[i] = e
    BY <2>1, QueuePosted
  <2> QED BY <1>26, <2>2, <2>3 DEF DetectFails, Emit, clientVars
<1>27. CASE Publish /\ UNCHANGED <<clientVars, clientPc>>
  <2> DEFINE e == InferenceEvent("detection", loadedGeneration, job.frame, job.dropped)
  <2>1. Post(<<e>>) /\ e \in InferenceEventType
    BY <1>27, Works DEF Publish, Emit, InferenceTypeOK
  <2>2. e.event # "modelLoaded"
    BY <1>27 DEF Publish, Emit, InferenceEvent
  <2> HIDE DEF e
  <2>3. \A i \in 1..Len(guiQueue') :
          (i \in 1..Len(guiQueue) /\ guiQueue'[i] = guiQueue[i]) \/ guiQueue'[i] = e
    BY <2>1, QueuePosted
  <2> QED BY <1>27, <2>2, <2>3 DEF Publish, Emit, clientVars
<1>28. CASE UNCHANGED inferenceVars
  BY <1>28 DEF inferenceVars, inferenceWorkerVars, clientVars
<1> QED BY <1>1, <1>2, <1>3, <1>4, <1>5, <1>6, <1>7, <1>8, <1>9, <1>10, <1>11, <1>12, <1>13, <1>14, <1>15, <1>16, <1>17, <1>18, <1>19, <1>20, <1>21, <1>22, <1>23, <1>24, <1>25, <1>26, <1>27, <1>28 DEF InferenceNext, Continue, Thread, InferenceThread, Spurious, Terminated

\* A frame that is submitted comes after everything that was fresh.
LEMMA SubmittedLater ==
  ASSUME IInv, SubmitFrame, NEW e, e.frame.frame \in Nat, e.dropped \in Nat, Fresh(e)
  PROVE  /\ modelState' # "Loading"
         /\ After(e, submitted' + 1, inbox'.dropped)
         /\ inbox'.frame # NoFrame => After(e, inbox'.frame.frame, inbox'.dropped)
<1>1. submitted' = submitted + 1 /\ modelState' # "Loading"
  BY DEF SubmitFrame
<1>2. submitted \in Nat /\ inbox.dropped \in Nat /\ inbox.frame.frame \in Nat
  BY Fields DEF IInv, InferenceTypeOK
<1>3. After(e, submitted + 1, inbox.dropped)
  BY DEF Fresh
<1>4. CASE ~TakesFrame(inbox, sourceGeneration)
  <2>1. inbox' = inbox
    BY <1>4 DEF SubmitFrame
  <2>2. inbox.frame # NoFrame => After(e, inbox.frame.frame, inbox.dropped)
    BY DEF Fresh
  <2> QED BY <1>1, <1>2, <1>3, <2>1, <2>2 DEF After
<1>5. CASE TakesFrame(inbox, sourceGeneration) /\ inbox.frame = NoFrame
  <2>1. inbox'.dropped = inbox.dropped /\ inbox'.frame.frame = submitted + 1
    BY <1>5 DEF SubmitFrame, WithFrame, Inbox
  <2> QED BY <1>1, <1>2, <1>3, <2>1 DEF After
<1>6. CASE TakesFrame(inbox, sourceGeneration) /\ inbox.frame # NoFrame
  <2>1. inbox'.dropped = inbox.dropped + 1 /\ inbox'.frame.frame = submitted + 1
    BY <1>6 DEF SubmitFrame, WithFrame, Inbox
  <2>2. inbox.frame.frame <= submitted /\ After(e, inbox.frame.frame, inbox.dropped)
    BY <1>6 DEF IInv, OfLastLoad, Fresh
  <2> QED BY <1>1, <1>2, <2>1, <2>2 DEF After
<1> QED BY <1>4, <1>5, <1>6

\* The frame at work is of the past or of the current model.
LEMMA KeepsJobIsFresh == ASSUME IInv, [InferenceNext]_inferenceVars PROVE JobIsFresh'
<1> USE Fields DEF IInv, InferenceTypeOK, Shape, JobIsFresh, Fresh, After, Inbox, Job, NoJob
<1>1. CASE PerformModelLoad
  BY <1>1 DEF PerformModelLoad, InvalidateSource, WithSource, workerRest
<1>2. CASE ChangeSource
  BY <1>2 DEF ChangeSource, InvalidateSource, WithSource, workerRest
<1>3. CASE RequestLoad
  BY <1>3 DEF RequestLoad, WithLoad, workerRest, clientVars, OneLoad, Open
<1>4. CASE SubmitFrame
  <2>1. job' = job /\ sourceGeneration' = sourceGeneration /\ loadedGeneration' = loadedGeneration
    BY <1>4 DEF SubmitFrame, workerRest
  <2>2. inbox'.desired = inbox.desired
    BY <1>4 DEF SubmitFrame, WithFrame
  <2> QED BY <1>4, <2>1, <2>2, SubmittedLater
<1>5. CASE SubmitNothing
  BY <1>5 DEF SubmitNothing, inferenceWorkerVars, clientVars
<1>6. CASE NotifyWorker
  BY <1>6 DEF NotifyWorker, Notify, clientVars
<1>7. CASE Shutdown
  BY <1>7 DEF Shutdown, inferenceWorkerVars
<1>8. CASE StopWorker
  BY <1>8 DEF StopWorker, WithStop, workerRest, clientVars
<1>9. CASE Joined
  BY <1>9 DEF Joined, inferenceWorkerVars, clientVars
<1>10. CASE Quit
  BY <1>10 DEF Quit, inferenceWorkerVars, clientVars
<1>11. CASE OnModelLoaded
  BY <1>11 DEF OnModelLoaded, Handle, Deliver, Queued, inferenceWorkerVars
<1>12. CASE OnLoadFailed
  BY <1>12 DEF OnLoadFailed, Handle, Deliver, Queued, inferenceWorkerVars
<1>13. CASE OnInferenceFailed
  BY <1>13 DEF OnInferenceFailed, Handle, Deliver, Queued, inferenceWorkerVars
<1>14. CASE OnDetection
  BY <1>14 DEF OnDetection, Handle, Deliver, Queued, inferenceWorkerVars
<1>15. CASE FallAsleep /\ UNCHANGED <<clientVars, clientPc>>
  BY <1>15 DEF FallAsleep, clientVars
<1>16. CASE SpuriousWakeup /\ UNCHANGED <<clientVars, clientPc>>
  BY <1>16 DEF SpuriousWakeup, clientVars
<1>17. CASE Exit /\ UNCHANGED <<clientVars, clientPc>>
  BY <1>17 DEF Exit, clientVars
<1>18. CASE TakeLoad /\ UNCHANGED <<clientVars, clientPc>>
  BY <1>18 DEF TakeLoad, clientVars
<1>19. CASE TakeFrame /\ UNCHANGED <<clientVars, clientPc>>
  <2>1. /\ job'.frame = inbox.frame /\ job'.dropped = inbox.dropped
        /\ inbox'.dropped = inbox.dropped /\ inbox'.frame = NoFrame /\ inbox'.desired = inbox.desired
    BY <1>19 DEF TakeFrame
  <2>2. /\ inbox.frame.source = sourceGeneration /\ inbox.frame.frame <= submitted
        /\ loadedGeneration = inbox.desired /\ modelState # "Loading"
    BY <1>19 DEF TakeFrame, OfLastLoad, Loaded, Open
  <2> QED BY <1>19, <2>1, <2>2 DEF TakeFrame, clientVars
<1>20. CASE LoadSucceeds /\ UNCHANGED <<clientVars, clientPc>>
  BY <1>20 DEF LoadSucceeds, clientVars
<1>21. CASE CheckLoad /\ UNCHANGED <<clientVars, clientPc>>
  BY <1>21 DEF CheckLoad, Abandon, clientVars
<1>22. CASE DetectSucceeds /\ UNCHANGED <<clientVars, clientPc>>
  BY <1>22 DEF DetectSucceeds, clientVars
<1>23. CASE CheckDetection /\ UNCHANGED <<clientVars, clientPc>>
  BY <1>23 DEF CheckDetection, Abandon, clientVars
<1>24. CASE LoadFails /\ UNCHANGED <<clientVars, clientPc>>
  BY <1>24 DEF LoadFails, Emit, Post, clientVars
<1>25. CASE AnnounceLoad /\ UNCHANGED <<clientVars, clientPc>>
  BY <1>25 DEF AnnounceLoad, Emit, Post, clientVars
<1>26. CASE DetectFails /\ UNCHANGED <<clientVars, clientPc>>
  BY <1>26 DEF DetectFails, Emit, Post, clientVars
<1>27. CASE Publish /\ UNCHANGED <<clientVars, clientPc>>
  BY <1>27 DEF Publish, Emit, Post, clientVars
<1>28. CASE UNCHANGED inferenceVars
  BY <1>28 DEF inferenceVars, inferenceWorkerVars, clientVars
<1> QED BY <1>1, <1>2, <1>3, <1>4, <1>5, <1>6, <1>7, <1>8, <1>9, <1>10, <1>11, <1>12, <1>13, <1>14, <1>15, <1>16, <1>17, <1>18, <1>19, <1>20, <1>21, <1>22, <1>23, <1>24, <1>25, <1>26, <1>27, <1>28 DEF InferenceNext, Continue, Thread, InferenceThread, Spurious, Terminated

\* What waits in the queue and what is shown, field by field.
LEMMA EventFields ==
  ASSUME InferenceTypeOK
  PROVE  /\ \A i \in 1..Len(guiQueue) :
               /\ guiQueue[i].frame.frame \in Nat /\ guiQueue[i].frame.source \in Nat
               /\ guiQueue[i].dropped \in Nat
         /\ packet # NoPacket => /\ packet.frame.frame \in Nat /\ packet.frame.source \in Nat
                                 /\ packet.dropped \in Nat
<1>1. \A e \in InferenceEventType : e.frame.frame \in Nat /\ e.frame.source \in Nat /\ e.dropped \in Nat
  BY DEF InferenceEventType, FrameType
<1>2. \A i \in 1..Len(guiQueue) : guiQueue[i] \in InferenceEventType
  BY DEF InferenceTypeOK
<1> QED BY <1>1, <1>2 DEF InferenceTypeOK

\* A new source leaves nothing to show.
LEMMA NewSource ==
  ASSUME IInv, sourceGeneration' = sourceGeneration + 1, packet' = NoPacket, guiQueue' = guiQueue
  PROVE  ResultsAreFresh'
<1>1. sourceGeneration \in Nat
  BY DEF IInv, InferenceTypeOK
<1>2. \A i \in 1..Len(guiQueue) :
        /\ guiQueue[i].frame.source \in Nat
        /\ guiQueue[i].frame.source <= sourceGeneration
  BY EventFields DEF IInv, ResultsAreFresh
<1>3. \A i \in 1..Len(guiQueue) : guiQueue[i].frame.source <= sourceGeneration' /\ ~Showable(i)'
  BY <1>1, <1>2 DEF Showable
<1> QED BY <1>3 DEF ResultsAreFresh

\* What is fresh stays so while nothing is submitted or requested.
LEMMA StillFresh ==
  ASSUME NEW e, FreshResult(e), UNCHANGED <<inbox, submitted, sourceGeneration>>,
         modelState' # "Loading", job' = job \/ job'.frame = NoFrame
  PROVE  FreshResult(e)'
BY DEF FreshResult, Fresh, After

\* An event that ends the work on a frame comes after all others.
LEMMA PostKeepsResults ==
  ASSUME IInv, NEW e \in InferenceEventType, Post(<<e>>), job'.frame = NoFrame,
         UNCHANGED <<inbox, submitted, sourceGeneration, modelState, packet>>,
         e.frame.source <= sourceGeneration,
         e.event = "detection" => /\ job.frame # NoFrame
                                  /\ e.frame = job.frame /\ e.dropped = job.dropped /\ e.load = loadedGeneration
  PROVE  ResultsAreFresh'
<1>1. ResultsAreFresh /\ InferenceTypeOK /\ JobIsFresh
  BY DEF IInv
<1>2. \A i \in 1..Len(guiQueue) : Showable(i)' <=> Showable(i)
  BY <1>1, QueuePosted DEF Showable
<1>3. ASSUME NEW i \in 1..Len(guiQueue') PROVE i \in 1..Len(guiQueue) \/ (guiQueue'[i] = e /\ i = Len(guiQueue) + 1)
  <2>1. Len(guiQueue) \in Nat /\ Len(guiQueue') = Len(guiQueue) + 1 /\ guiQueue'[Len(guiQueue) + 1] = e
    BY <1>1, QueuePosted
  <2>2. i \in 1..Len(guiQueue) \/ i = Len(guiQueue) + 1
    BY <2>1
  <2>3. CASE i = Len(guiQueue) + 1
    BY <2>1, <2>3, Zenon
  <2> QED BY <2>2, <2>3
<1>4. ASSUME e.event = "detection", e.frame.source = sourceGeneration PROVE FreshResult(e)'
  BY <1>1, <1>4 DEF JobIsFresh, FreshResult, Fresh, After
<1>5. ASSUME NEW i \in 1..Len(guiQueue')
      PROVE  guiQueue'[i].frame.source <= sourceGeneration' /\ (Showable(i)' => FreshResult(guiQueue[i])')
  <2>1. CASE i \in 1..Len(guiQueue)
    <3>1. guiQueue'[i] = guiQueue[i] /\ (Showable(i)' => FreshResult(guiQueue[i]))
      BY <1>1, <1>2, <2>1, QueuePosted DEF ResultsAreFresh
    <3>2. Showable(i)' => modelState' # "Loading"
      BY <3>1 DEF FreshResult, Fresh
    <3> QED BY <1>1, <2>1, <3>1, <3>2, StillFresh DEF ResultsAreFresh
  <2>2. CASE guiQueue'[i] = e
    BY <1>4, <2>2 DEF Showable
  <2> QED BY <1>3, <2>1, <2>2
<1>6. ASSUME e.event = "detection", e.frame.source = sourceGeneration
      PROVE  /\ \A i \in 1..Len(guiQueue) : Showable(i) => After(guiQueue[i], e.frame.frame, e.dropped)
             /\ packet # NoPacket => After(packet, e.frame.frame, e.dropped)
  BY <1>1, <1>6 DEF ResultsAreFresh, FreshResult
<1>7. ASSUME NEW i \in 1..Len(guiQueue'), NEW j \in 1..Len(guiQueue'), i < j, Showable(i)', Showable(j)'
      PROVE  After(guiQueue[i], guiQueue[j].frame.frame, guiQueue[j].dropped)'
  <2>1. i \in 1..Len(guiQueue) /\ guiQueue'[i] = guiQueue[i] /\ Showable(i)
    BY <1>1, <1>2, <1>3, <1>7, QueuePosted
  <2>2. CASE j \in 1..Len(guiQueue)
    <3>1. guiQueue'[j] = guiQueue[j] /\ Showable(j)
      BY <1>1, <1>2, <1>7, <2>2, QueuePosted
    <3> QED BY <1>1, <1>7, <2>1, <2>2, <3>1 DEF ResultsAreFresh, After
  <2>3. CASE guiQueue'[j] = e /\ j = Len(guiQueue) + 1
    <3>1. e.event = "detection" /\ e.frame.source = sourceGeneration
      BY <1>7, <2>3 DEF Showable
    <3> QED BY <1>6, <2>1, <2>3, <3>1 DEF After
  <2> QED BY <1>3, <2>2, <2>3
<1>8. ASSUME packet' # NoPacket
      PROVE  /\ packet'.frame.source = sourceGeneration' /\ FreshResult(packet)'
             /\ \A i \in 1..Len(guiQueue') :
                   Showable(i)' => After(packet, guiQueue[i].frame.frame, guiQueue[i].dropped)'
  <2>1. packet' = packet /\ packet.frame.source = sourceGeneration /\ FreshResult(packet)
    BY <1>1, <1>8 DEF ResultsAreFresh
  <2>2. modelState' # "Loading"
    BY <2>1 DEF FreshResult, Fresh
  <2>3. FreshResult(packet)'
    BY <2>1, <2>2, StillFresh
  <2>4. ASSUME NEW i \in 1..Len(guiQueue'), Showable(i)'
        PROVE  After(packet, guiQueue[i].frame.frame, guiQueue[i].dropped)'
    <3>1. CASE i \in 1..Len(guiQueue)
      BY <1>1, <1>2, <1>8, <2>1, <2>4, <3>1, QueuePosted DEF ResultsAreFresh, After
    <3>2. CASE guiQueue'[i] = e /\ i = Len(guiQueue) + 1
      <4>1. e.event = "detection" /\ e.frame.source = sourceGeneration
        BY <2>4, <3>2 DEF Showable
      <4> QED BY <1>6, <1>8, <2>1, <3>2, <4>1 DEF After
    <3> QED BY <1>3, <3>1, <3>2
  <2> QED BY <2>1, <2>3, <2>4
<1> QED BY <1>5, <1>7, <1>8 DEF ResultsAreFresh

\* What is delivered may be shown; the others still come after it.
LEMMA DeliverKeepsResults ==
  ASSUME IInv, NEW e, Deliver(e), UNCHANGED <<inferenceWorkerVars, submitted, sourceGeneration>>,
         modelState' \in {modelState, "Ready", "Error"},
         packet' = packet \/ (packet' = e /\ e.event = "detection" /\ e.frame.source = sourceGeneration)
  PROVE  ResultsAreFresh'
<1>1. ResultsAreFresh /\ InferenceTypeOK
  BY DEF IInv
<1>2. \A i \in 1..Len(guiQueue') :
        i + 1 \in 1..Len(guiQueue) /\ guiQueue'[i] = guiQueue[i + 1] /\ (Showable(i)' <=> Showable(i + 1))
  BY <1>1, QueueDelivered DEF Showable
<1>3. e = guiQueue[1] /\ 1 \in 1..Len(guiQueue)
  BY <1>1, QueueDelivered
<1>4. UNCHANGED <<inbox, job, submitted, sourceGeneration>>
  BY DEF inferenceWorkerVars
<1>5. ASSUME NEW i \in 1..Len(guiQueue')
      PROVE  guiQueue'[i].frame.source <= sourceGeneration' /\ (Showable(i)' => FreshResult(guiQueue[i])')
  <2>1. guiQueue[i + 1].frame.source <= sourceGeneration /\ (Showable(i + 1) => FreshResult(guiQueue[i + 1]))
    BY <1>1, <1>2 DEF ResultsAreFresh
  <2>2. Showable(i + 1) => modelState' # "Loading"
    BY <2>1 DEF FreshResult, Fresh
  <2> QED BY <1>2, <1>4, <2>1, <2>2, StillFresh
<1>6. ASSUME NEW i \in 1..Len(guiQueue'), NEW j \in 1..Len(guiQueue'), i < j, Showable(i)', Showable(j)'
      PROVE  After(guiQueue[i], guiQueue[j].frame.frame, guiQueue[j].dropped)'
  <2>1. i + 1 < j + 1
    BY <1>6
  <2> QED BY <1>1, <1>2, <1>6, <2>1 DEF ResultsAreFresh, After
<1>7. CASE packet' = packet
  <2>1. ASSUME packet # NoPacket PROVE FreshResult(packet)'
    <3>1. FreshResult(packet) /\ modelState' # "Loading"
      BY <1>1, <2>1 DEF ResultsAreFresh, FreshResult, Fresh
    <3> QED BY <1>4, <1>7, <3>1, StillFresh
  <2> QED BY <1>1, <1>2, <1>4, <1>5, <1>6, <1>7, <2>1 DEF ResultsAreFresh, After
<1>8. CASE packet' = e /\ e.event = "detection" /\ e.frame.source = sourceGeneration
  <2>1. Showable(1) /\ FreshResult(e)
    BY <1>1, <1>3, <1>8 DEF Showable, ResultsAreFresh
  <2>2. FreshResult(packet)'
    <3>1. modelState' # "Loading"
      BY <2>1 DEF FreshResult, Fresh
    <3> QED BY <1>4, <1>8, <2>1, <3>1, StillFresh
  <2>3. ASSUME NEW i \in 1..Len(guiQueue'), Showable(i)'
        PROVE  After(packet, guiQueue[i].frame.frame, guiQueue[i].dropped)'
    <3>1. 1 < i + 1
      OBVIOUS
    <3> QED BY <1>1, <1>2, <1>3, <1>8, <2>1, <2>3, <3>1 DEF ResultsAreFresh, After
  <2> QED BY <1>4, <1>5, <1>6, <1>8, <2>2, <2>3 DEF ResultsAreFresh
<1> QED BY <1>7, <1>8

\* What is shown, and what will be, is of the current source and model, and in
\* the order of submission.
LEMMA KeepsResults == ASSUME IInv, [InferenceNext]_inferenceVars PROVE ResultsAreFresh'
<1>1. InferenceTypeOK /\ ResultsAreFresh /\ Shape /\ (Open => OneLoad)
  BY DEF IInv
<1>2. ASSUME UNCHANGED <<guiQueue, packet, sourceGeneration, inbox, submitted>>,
             modelState' = modelState \/ modelState' # "Loading",
             job' = job \/ job'.frame = NoFrame
      PROVE  ResultsAreFresh'
  <2>1. \A i \in 1..Len(guiQueue) : Showable(i)' <=> Showable(i)
    BY <1>2 DEF Showable
  <2>2. ASSUME NEW e, FreshResult(e) PROVE FreshResult(e)'
    <3>1. modelState' # "Loading"
      BY <1>2, <2>2 DEF FreshResult, Fresh
    <3> QED BY <1>2, <2>2, <3>1, StillFresh
  <2> QED BY <1>1, <1>2, <2>1, <2>2 DEF ResultsAreFresh, After
<1>3. CASE PerformModelLoad
  BY <1>3, NewSource DEF PerformModelLoad, InvalidateSource
<1>4. CASE ChangeSource
  BY <1>4, NewSource DEF ChangeSource, InvalidateSource
<1>5. CASE RequestLoad
  <2>1. modelState = "Loading"
    BY <1>5, <1>1 DEF RequestLoad, Open, OneLoad
  <2>2. packet = NoPacket /\ \A i \in 1..Len(guiQueue) : ~Showable(i)
    BY <1>1, <2>1 DEF ResultsAreFresh, FreshResult, Fresh
  <2>3. UNCHANGED <<guiQueue, packet, sourceGeneration>>
    BY <1>5 DEF RequestLoad, clientVars
  <2> QED BY <1>1, <2>2, <2>3 DEF ResultsAreFresh, Showable
<1>6. CASE SubmitFrame
  <2>1. UNCHANGED <<guiQueue, packet, sourceGeneration, job>> /\ inbox'.desired = inbox.desired
    BY <1>6 DEF SubmitFrame, WithFrame, Inbox, workerRest
  <2>2. ASSUME NEW e, e.frame.frame \in Nat, e.dropped \in Nat, FreshResult(e) PROVE FreshResult(e)'
    BY <1>6, <2>1, <2>2, SubmittedLater DEF FreshResult, Fresh, After
  <2>3. \A i \in 1..Len(guiQueue) : Showable(i)' <=> Showable(i)
    BY <2>1 DEF Showable
  <2> QED BY <1>1, <2>1, <2>2, <2>3, EventFields DEF ResultsAreFresh, After
<1>7. CASE SubmitNothing
  BY <1>7, <1>2 DEF SubmitNothing, inferenceWorkerVars, clientVars
<1>8. CASE NotifyWorker
  BY <1>8, <1>2 DEF NotifyWorker, Notify, inferenceWorkerVars, clientVars
<1>9. CASE Shutdown
  BY <1>9, <1>2 DEF Shutdown, inferenceWorkerVars, clientVars
<1>10. CASE StopWorker
  <2>1. UNCHANGED <<guiQueue, packet, sourceGeneration, job, submitted, modelState>>
    BY <1>10 DEF StopWorker, workerRest, clientVars
  <2>2. inbox'.desired = inbox.desired /\ inbox'.dropped = inbox.dropped /\ inbox'.frame = NoFrame
    BY <1>10 DEF StopWorker, WithStop, Inbox
  <2>3. ASSUME NEW e, FreshResult(e) PROVE FreshResult(e)'
    BY <2>1, <2>2, <2>3 DEF FreshResult, Fresh, After
  <2>4. \A i \in 1..Len(guiQueue) : Showable(i)' <=> Showable(i)
    BY <2>1 DEF Showable
  <2> QED BY <1>1, <2>1, <2>3, <2>4 DEF ResultsAreFresh, After
<1>11. CASE Joined
  BY <1>11, <1>2 DEF Joined, inferenceWorkerVars, clientVars
<1>12. CASE Quit
  BY <1>12, <1>2 DEF Quit, inferenceWorkerVars, clientVars
<1>13. CASE OnModelLoaded
  <2> DEFINE e == InferenceEvent("modelLoaded", Queued.load, NoFrame, 0)
  <2>1. Deliver(e) /\ UNCHANGED <<inferenceWorkerVars, submitted, sourceGeneration>>
    BY <1>13 DEF OnModelLoaded, Handle
  <2>2. modelState' \in {modelState, "Ready", "Error"}
    BY <1>13 DEF OnModelLoaded
  <2>3. packet' = packet \/ (packet' = e /\ e.event = "detection" /\ e.frame.source = sourceGeneration)
    BY <1>13 DEF OnModelLoaded
  <2> HIDE DEF e
  <2> QED BY <2>1, <2>2, <2>3, DeliverKeepsResults
<1>14. CASE OnLoadFailed
  <2> DEFINE e == InferenceEvent("loadFailed", Queued.load, NoFrame, 0)
  <2>1. Deliver(e) /\ UNCHANGED <<inferenceWorkerVars, submitted, sourceGeneration>>
    BY <1>14 DEF OnLoadFailed, Handle
  <2>2. modelState' \in {modelState, "Ready", "Error"}
    BY <1>14 DEF OnLoadFailed
  <2>3. packet' = packet \/ (packet' = e /\ e.event = "detection" /\ e.frame.source = sourceGeneration)
    BY <1>14 DEF OnLoadFailed
  <2> HIDE DEF e
  <2> QED BY <2>1, <2>2, <2>3, DeliverKeepsResults
<1>15. CASE OnInferenceFailed
  <2> DEFINE e == InferenceEvent("inferenceFailed", NoLoad, Queued.frame, 0)
  <2>1. Deliver(e) /\ UNCHANGED <<inferenceWorkerVars, submitted, sourceGeneration>>
    BY <1>15 DEF OnInferenceFailed, Handle
  <2>2. modelState' \in {modelState, "Ready", "Error"}
    BY <1>15 DEF OnInferenceFailed
  <2>3. packet' = packet \/ (packet' = e /\ e.event = "detection" /\ e.frame.source = sourceGeneration)
    BY <1>15 DEF OnInferenceFailed
  <2> HIDE DEF e
  <2> QED BY <2>1, <2>2, <2>3, DeliverKeepsResults
<1>16. CASE OnDetection
  <2> DEFINE e == InferenceEvent("detection", Queued.load, Queued.frame, Queued.dropped)
  <2>1. Deliver(e) /\ UNCHANGED <<inferenceWorkerVars, submitted, sourceGeneration>>
    BY <1>16 DEF OnDetection, Handle
  <2>2. modelState' \in {modelState, "Ready", "Error"}
    BY <1>16 DEF OnDetection
  <2>3. packet' = packet \/ (packet' = e /\ e.event = "detection" /\ e.frame.source = sourceGeneration)
    <3>1. Queued = e
      BY <1>16, <1>1, <2>1 DEF OnDetection, Handle, Deliver, Queued
    <3>2. e.event = "detection"
      BY DEF InferenceEvent
    <3> HIDE DEF e
    <3> QED BY <1>16, <3>1, <3>2 DEF OnDetection
  <2> HIDE DEF e
  <2> QED BY <2>1, <2>2, <2>3, DeliverKeepsResults
<1>17. CASE FallAsleep /\ UNCHANGED <<clientVars, clientPc>>
  BY <1>17, <1>2 DEF FallAsleep, clientVars, NoJob, Job
<1>18. CASE SpuriousWakeup /\ UNCHANGED <<clientVars, clientPc>>
  BY <1>18, <1>2 DEF SpuriousWakeup, clientVars, NoJob, Job
<1>19. CASE Exit /\ UNCHANGED <<clientVars, clientPc>>
  BY <1>19, <1>2 DEF Exit, clientVars, NoJob, Job
<1>20. CASE TakeLoad /\ UNCHANGED <<clientVars, clientPc>>
  <2>1. UNCHANGED <<guiQueue, packet, sourceGeneration, submitted, modelState>>
    BY <1>20 DEF TakeLoad, clientVars
  <2>2. inbox'.desired = inbox.desired /\ inbox'.dropped = inbox.dropped /\ inbox'.frame = NoFrame
    BY <1>20 DEF TakeLoad, Inbox
  <2>3. job'.frame = NoFrame
    BY <1>20 DEF TakeLoad, Job
  <2>4. ASSUME NEW e, FreshResult(e) PROVE FreshResult(e)'
    BY <2>1, <2>2, <2>3, <2>4 DEF FreshResult, Fresh, After
  <2>5. \A i \in 1..Len(guiQueue) : Showable(i)' <=> Showable(i)
    BY <2>1 DEF Showable
  <2> QED BY <1>1, <2>1, <2>4, <2>5 DEF ResultsAreFresh, After
<1>21. CASE TakeFrame /\ UNCHANGED <<clientVars, clientPc>>
  <2>1. UNCHANGED <<guiQueue, packet, sourceGeneration, submitted, modelState>>
    BY <1>21 DEF TakeFrame, clientVars
  <2>2. inbox'.desired = inbox.desired /\ inbox'.dropped = inbox.dropped /\ inbox'.frame = NoFrame
    BY <1>21 DEF TakeFrame, Inbox
  <2>3. inbox.frame # NoFrame /\ job'.frame = inbox.frame /\ job'.dropped = inbox.dropped
    BY <1>21 DEF TakeFrame, Job
  <2>4. ASSUME NEW e, FreshResult(e) PROVE FreshResult(e)'
    BY <2>1, <2>2, <2>3, <2>4 DEF FreshResult, Fresh, After
  <2>5. \A i \in 1..Len(guiQueue) : Showable(i)' <=> Showable(i)
    BY <2>1 DEF Showable
  <2> QED BY <1>1, <2>1, <2>4, <2>5 DEF ResultsAreFresh, After
<1>22. CASE LoadSucceeds /\ UNCHANGED <<clientVars, clientPc>>
  BY <1>22, <1>2 DEF LoadSucceeds, clientVars, NoJob, Job
<1>23. CASE CheckLoad /\ UNCHANGED <<clientVars, clientPc>>
  BY <1>23, <1>2 DEF CheckLoad, Abandon, clientVars, NoJob, Job
<1>24. CASE DetectSucceeds /\ UNCHANGED <<clientVars, clientPc>>
  BY <1>24, <1>2 DEF DetectSucceeds, clientVars, NoJob, Job
<1>25. CASE CheckDetection /\ UNCHANGED <<clientVars, clientPc>>
  BY <1>25, <1>2 DEF CheckDetection, Abandon, clientVars, NoJob, Job
<1>26. CASE LoadFails /\ UNCHANGED <<clientVars, clientPc>>
  <2> DEFINE e == InferenceEvent("loadFailed", job.load, NoFrame, 0)
  <2>1. Post(<<e>>) /\ e \in InferenceEventType /\ job'.frame = NoFrame
    BY <1>26, <1>1, Works DEF LoadFails, Emit, InferenceTypeOK, NoJob, Job
  <2>2. UNCHANGED <<inbox, submitted, sourceGeneration, modelState, packet>>
    BY <1>26 DEF LoadFails, clientVars
  <2>3. e.frame.source <= sourceGeneration
    BY <1>26, <1>1, Fields DEF LoadFails, IInv, JobIsFresh, Shape, InferenceTypeOK, InferenceEvent, NoFrame
  <2>4. e.event = "detection" => /\ job.frame # NoFrame
                                 /\ e.frame = job.frame /\ e.dropped = job.dropped /\ e.load = loadedGeneration
    BY <1>26, <1>1 DEF LoadFails, Shape, InferenceEvent
  <2> HIDE DEF e
  <2> QED BY <2>1, <2>2, <2>3, <2>4, PostKeepsResults
<1>27. CASE AnnounceLoad /\ UNCHANGED <<clientVars, clientPc>>
  <2> DEFINE e == InferenceEvent("modelLoaded", job.load, NoFrame, 0)
  <2>1. Post(<<e>>) /\ e \in InferenceEventType /\ job'.frame = NoFrame
    BY <1>27, <1>1, Works DEF AnnounceLoad, Emit, InferenceTypeOK, NoJob, Job
  <2>2. UNCHANGED <<inbox, submitted, sourceGeneration, modelState, packet>>
    BY <1>27 DEF AnnounceLoad, clientVars
  <2>3. e.frame.source <= sourceGeneration
    BY <1>27, <1>1, Fields DEF AnnounceLoad, IInv, JobIsFresh, Shape, InferenceTypeOK, InferenceEvent, NoFrame
  <2>4. e.event = "detection" => /\ job.frame # NoFrame
                                 /\ e.frame = job.frame /\ e.dropped = job.dropped /\ e.load = loadedGeneration
    BY <1>27, <1>1 DEF AnnounceLoad, Shape, InferenceEvent
  <2> HIDE DEF e
  <2> QED BY <2>1, <2>2, <2>3, <2>4, PostKeepsResults
<1>28. CASE DetectFails /\ UNCHANGED <<clientVars, clientPc>>
  <2> DEFINE e == InferenceEvent("inferenceFailed", NoLoad, job.frame, 0)
  <2>1. Post(<<e>>) /\ e \in InferenceEventType /\ job'.frame = NoFrame
    BY <1>28, <1>1, Works DEF DetectFails, Emit, InferenceTypeOK, NoJob, Job, NoLoad
  <2>2. UNCHANGED <<inbox, submitted, sourceGeneration, modelState, packet>>
    BY <1>28 DEF DetectFails, clientVars
  <2>3. e.frame.source <= sourceGeneration
    BY <1>28, <1>1, Fields DEF DetectFails, IInv, JobIsFresh, Shape, InferenceTypeOK, InferenceEvent, NoFrame
  <2>4. e.event = "detection" => /\ job.frame # NoFrame
                                 /\ e.frame = job.frame /\ e.dropped = job.dropped /\ e.load = loadedGeneration
    BY <1>28, <1>1 DEF DetectFails, Shape, InferenceEvent
  <2> HIDE DEF e
  <2> QED BY <2>1, <2>2, <2>3, <2>4, PostKeepsResults
<1>29. CASE Publish /\ UNCHANGED <<clientVars, clientPc>>
  <2> DEFINE e == InferenceEvent("detection", loadedGeneration, job.frame, job.dropped)
  <2>1. Post(<<e>>) /\ e \in InferenceEventType /\ job'.frame = NoFrame
    BY <1>29, <1>1, Works DEF Publish, Emit, InferenceTypeOK, NoJob, Job
  <2>2. UNCHANGED <<inbox, submitted, sourceGeneration, modelState, packet>>
    BY <1>29 DEF Publish, clientVars
  <2>3. e.frame.source <= sourceGeneration
    BY <1>29, <1>1, Fields DEF Publish, IInv, JobIsFresh, Shape, InferenceTypeOK, InferenceEvent, NoFrame
  <2>4. e.event = "detection" => /\ job.frame # NoFrame
                                 /\ e.frame = job.frame /\ e.dropped = job.dropped /\ e.load = loadedGeneration
    BY <1>29, <1>1 DEF Publish, Shape, InferenceEvent
  <2> HIDE DEF e
  <2> QED BY <2>1, <2>2, <2>3, <2>4, PostKeepsResults
<1>30. CASE UNCHANGED inferenceVars
  BY <1>30, <1>2 DEF inferenceVars, inferenceWorkerVars, clientVars
<1> QED BY <1>3, <1>4, <1>5, <1>6, <1>7, <1>8, <1>9, <1>10, <1>11, <1>12, <1>13, <1>14, <1>15, <1>16, <1>17, <1>18, <1>19, <1>20, <1>21, <1>22, <1>23, <1>24, <1>25, <1>26, <1>27, <1>28, <1>29, <1>30 DEF InferenceNext, Continue, Thread, InferenceThread, Spurious, Terminated

\* The invariant holds in every behaviour.
LEMMA Inductive == InferenceSpec => []IInv
<1>1. IInv /\ [InferenceNext]_inferenceVars => IInv'
  BY KeepsTypes, KeepsOneLoad, KeepsShape, KeepsOfLastLoad, KeepsJobIsFresh, KeepsResults, KeepsWoken
     DEF IInv
<1> QED BY <1>1, InitIInv, PTL DEF InferenceSpec

-----------------------------------------------------------------------------
\* The mailbox, the worker and the controller keep their types.
THEOREM TypesHold == InferenceSpec => []InferenceTypeOK
BY Inductive, PTL DEF IInv

\* One load is under way while the window says "Loading", and none otherwise:
\* requestLoad() replaces what waits, and run() answers what it takes.
THEOREM LoadsAccountedFor == InferenceSpec => []LoadAccountedFor
<1>1. IInv => LoadAccountedFor
  <2> SUFFICES ASSUME IInv, Open PROVE LoadAccountedFor
    BY DEF LoadAccountedFor
  <2>1. OneLoad /\ InferenceTypeOK
    BY DEF IInv
  <2>2. /\ -2 \in LoadPlaces <=> clientPc = "requestLoad"
        /\ -1 \in LoadPlaces <=> inbox.load # NoLoad
        /\ 0 \in LoadPlaces <=> job.load # NoLoad
    BY <2>1 DEF LoadPlaces, InferenceTypeOK
  <2>3. \A place \in LoadPlaces : \/ place = -2 \/ place = -1 \/ place = 0
                                  \/ place \in 1..Len(guiQueue) /\ guiQueue[place].event \in Answers
    BY DEF LoadPlaces
  <2>4. \A i \in 1..Len(guiQueue) : guiQueue[i].event \in Answers => i \in LoadPlaces
    BY DEF LoadPlaces
  <2>5. CASE modelState # "Loading"
    BY <2>1, <2>2, <2>3, <2>5 DEF OneLoad, NoAnswer, LoadAccountedFor
  <2>6. CASE modelState = "Loading"
    <3>1. PICK place : place \in LoadPlaces
      BY <2>1, <2>2, <2>4, <2>6 DEF OneLoad, NoAnswer
    <3>2. \A other \in LoadPlaces : other = place
      BY <2>1, <2>2, <2>3, <3>1 DEF OneLoad, NoAnswer, OneAnswer
    <3>3. LoadPlaces = {place}
      BY <3>1, <3>2
    <3> QED BY <2>6, <3>1, <3>3 DEF LoadAccountedFor
  <2> QED BY <2>5, <2>6
<1> QED BY <1>1, Inductive, PTL

\* While the window says "Ready", the worker holds the detector of the load that
\* was requested last, and no frame is worked on without one.
THEOREM ReadyHasDetector == InferenceSpec => []ReadyIsLoaded
<1>1. IInv => ReadyIsLoaded
  BY DEF IInv, OfLastLoad, Loaded, ReadyIsLoaded
<1> QED BY <1>1, Inductive, PTL

\* Stale results never stay visible: onDetection() compares the source, and what
\* it lets through is of the model loaded last as well.
THEOREM CurrentIsShown == InferenceSpec => []ShownIsCurrent
<1>1. IInv => ShownIsCurrent
  BY DEF IInv, ResultsAreFresh, FreshResult, Fresh, ShownIsCurrent
<1> QED BY <1>1, Inductive, PTL

\* condition_.notify_one() comes after every change run() may wait for.
THEOREM WorkerNotForgotten == InferenceSpec => []WorkerIsWoken
<1>1. IInv => WorkerIsWoken
  BY DEF IInv
<1> QED BY <1>1, Inductive, PTL

\* The window never steps back to an older frame of a source, nor shows a drop
\* count that the frames it skipped do not explain.
THEOREM FramesGoForward == InferenceSpec => ShownGoesForward
<1> DEFINE Forward == packet # NoPacket /\ packet' \notin {packet, NoPacket} =>
              /\ packet'.frame.frame > packet.frame.frame
              /\ packet'.dropped >= packet.dropped
              /\ packet'.dropped - packet.dropped < packet'.frame.frame - packet.frame.frame
<1>1. IInv /\ [InferenceNext]_inferenceVars => [Forward]_inferenceVars
  <2> SUFFICES ASSUME IInv, InferenceNext, packet # NoPacket, packet' \notin {packet, NoPacket}
               PROVE  Forward
    OBVIOUS
  <2>1. InferenceTypeOK /\ ResultsAreFresh
    BY DEF IInv
  <2>2. OnDetection
    BY DEF InferenceNext, Continue, Thread, Spurious, Terminated, inferenceVars, inferenceWorkerVars, clientVars,
           PerformModelLoad, ChangeSource, InvalidateSource, SubmitFrame, Shutdown, RequestLoad, NotifyWorker,
           SubmitNothing, StopWorker, Joined, Quit, OnModelLoaded, OnLoadFailed, OnInferenceFailed
  <2> DEFINE e == InferenceEvent("detection", Queued.load, Queued.frame, Queued.dropped)
  <2>3. Deliver(e) /\ e.event = "detection"
    BY <2>2 DEF OnDetection, Handle, InferenceEvent
  <2>4. packet' = Queued /\ Queued = e /\ Queued.frame.source = sourceGeneration
    BY <2>2 DEF OnDetection, Handle, Deliver, Queued
  <2> HIDE DEF e
  <2>5. 1 \in 1..Len(guiQueue) /\ packet' = guiQueue[1] /\ Showable(1)
    BY <2>1, <2>3, <2>4, QueueDelivered DEF Showable
  <2>6. After(packet, packet'.frame.frame, packet'.dropped)
    BY <2>1, <2>5 DEF ResultsAreFresh
  <2>7. /\ packet.frame.frame \in Nat /\ packet.dropped \in Nat
        /\ packet'.frame.frame \in Nat /\ packet'.dropped \in Nat
    BY <2>1, <2>5, EventFields
  <2> QED BY <2>6, <2>7 DEF After
<1> QED BY <1>1, Inductive, PTL DEF InferenceSpec, ShownGoesForward

=============================================================================
