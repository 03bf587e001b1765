---------------------------- MODULE NewestValue ----------------------------
(***************************************************************************)
(* What a latest-value mailbox promises.  Values are numbered in the order *)
(* they are sent.  The mailbox may lose values, but never the newest one   *)
(* in favour of an older one: a delivered value is newer than every value  *)
(* delivered before it, so nothing is duplicated or reordered.             *)
(***************************************************************************)
EXTENDS Naturals

VARIABLES sent,       \* how many values were sent
          pending,    \* the value waiting to be delivered, 0 if there is none
          delivered   \* the value delivered last, 0 if none was

nvVars == <<sent, pending, delivered>>

NVInit == sent = 0 /\ pending = 0 /\ delivered = 0

\* A new value replaces whatever was waiting.
Send == /\ sent' = sent + 1
        /\ pending' = sent'
        /\ UNCHANGED delivered

Deliver == /\ pending > delivered
           /\ delivered' = pending
           /\ pending' = 0
           /\ UNCHANGED sent

\* Values may be given up, for instance when the mailbox closes.
Discard == /\ pending' = 0
           /\ UNCHANGED <<sent, delivered>>

NVSpec == NVInit /\ [][Send \/ Deliver \/ Discard]_nvVars
=============================================================================
