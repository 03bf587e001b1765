---------------------------- MODULE GuiEventLoop ----------------------------
(***************************************************************************)
(* The event queue of the Qt thread that runs the window and the           *)
(* controller (Qt itself, external).  Signals of the camera worker and of  *)
(* the inference worker cross threads, so Qt posts them to this one queue  *)
(* and the event loop delivers them in the order they were posted.  What   *)
(* is already posted is still delivered after its sender was destroyed.    *)
(***************************************************************************)
EXTENDS Sequences, Naturals, SequencesExt

VARIABLE guiQueue

Post(events) == guiQueue' = guiQueue \o events

Deliver(event) == /\ guiQueue # <<>>
                  /\ event = Head(guiQueue)
                  /\ guiQueue' = Tail(guiQueue)
=============================================================================
