------------------------- MODULE LatestFrameBuffer -------------------------
(***************************************************************************)
(* The class odf::camera::LatestFrameBuffer: a one-slot mailbox between a  *)
(* capturing and a consuming thread, with a mutex, a condition variable    *)
(* and a "closed" flag.                                                    *)
(*                                                                         *)
(* A frame is its frame id; ids start at 1.  Each operator below is one    *)
(* critical section of mutex_ or one notification; the notifications are   *)
(* made after the mutex is released, so other threads run in between.      *)
(***************************************************************************)
EXTENDS Naturals

VARIABLES latest,      \* latest_: the frame in the slot, NoFrame if none
          closed,      \* closed_
          statistics,  \* statistics_: captured, consumed and dropped frames
          sleeping     \* the threads asleep in condition_

bufferVars == <<latest, closed, statistics, sleeping>>

NoFrame == 0

BufferInit == /\ latest = NoFrame
              /\ closed = FALSE
              /\ statistics = [captured |-> 0, consumed |-> 0, dropped |-> 0]
              /\ sleeping = {}

Occupied == IF latest = NoFrame THEN 0 ELSE 1
\* A faulty variant of push(): the overwritten frame is not counted.
PushUncounted(frame) ==
    /\ ~closed
    /\ latest' = frame
    /\ statistics' = [statistics EXCEPT !.captured = @ + 1]
    /\ UNCHANGED <<closed, sleeping>>

\* push(frame) up to the end of its critical section, for a valid image.
PushAccepted(frame) ==
    /\ ~closed
    /\ latest' = frame
    /\ statistics' = [captured |-> statistics.captured + 1,
                       consumed |-> statistics.consumed,
                       dropped |-> statistics.dropped + Occupied]
    /\ UNCHANGED <<closed, sleeping>>

PushRefused == closed /\ UNCHANGED bufferVars

NotifyOne == /\ \/ sleeping = {} /\ UNCHANGED sleeping
                \/ \E t \in sleeping : sleeping' = sleeping \ {t}
             /\ UNCHANGED <<latest, closed, statistics>>

\* waitAndTake() of thread t: the predicate of condition_.wait is evaluated
\* with the mutex held; t either falls asleep or returns.
FallAsleep(t) == /\ t \notin sleeping
                 /\ latest = NoFrame /\ ~closed
                 /\ sleeping' = sleeping \cup {t}
                 /\ UNCHANGED <<latest, closed, statistics>>

SpuriousWakeup(t) == /\ t \in sleeping
                     /\ sleeping' = sleeping \ {t}
                     /\ UNCHANGED <<latest, closed, statistics>>
\* A faulty variant of waitAndTake(): the slot is not reset.
TakeCopies(t) == /\ t \notin sleeping
                 /\ latest # NoFrame
                 /\ statistics' = [statistics EXCEPT !.consumed = @ + 1]
                 /\ UNCHANGED <<latest, closed, sleeping>>

Take(t) == /\ t \notin sleeping
           /\ latest # NoFrame
           /\ latest' = NoFrame
           /\ statistics' = [statistics EXCEPT !.consumed = @ + 1]
           /\ UNCHANGED <<closed, sleeping>>

Cancelled(t) == /\ t \notin sleeping
                /\ latest = NoFrame /\ closed
                /\ UNCHANGED bufferVars
\* Faulty variants of close(): the waiting frame is left in the slot, or its
\* drop is subtracted.
CloseKeepsFrame == closed' = TRUE /\ UNCHANGED <<latest, statistics, sleeping>>

CloseMiscounts == /\ closed' = TRUE
                  /\ latest' = NoFrame
                  /\ statistics' = [statistics EXCEPT !.dropped = @ - Occupied]
                  /\ UNCHANGED sleeping

\* close() up to the end of its critical section.
Close == /\ closed' = TRUE
         /\ latest' = NoFrame
         /\ statistics' = [statistics EXCEPT !.dropped = @ + Occupied]
         /\ UNCHANGED sleeping

NotifyAll == sleeping' = {} /\ UNCHANGED <<latest, closed, statistics>>
=============================================================================
