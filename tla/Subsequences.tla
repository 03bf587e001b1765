---------------------------- MODULE Subsequences ----------------------------
(***************************************************************************)
(* The members of a set among the elements of a sequence, in their order,   *)
(* the order a stable sort gives to numbers, and their sum.                 *)
(***************************************************************************)
EXTENDS Integers, Sequences, FiniteSets

\* The sequence `kept`, with e after it if S has it.
WithMember(kept, e, S) == IF e \in S THEN Append(kept, e) ELSE kept

\* What is kept of each prefix of q.
KeptOf(q, S) ==
    LET kept[n \in 0..Len(q)] ==
            IF n = 0 THEN <<>> ELSE WithMember(kept[n - 1], q[n], S)
    IN  kept

KeepIn(q, S) == KeptOf(q, S)[Len(q)]

\* The places of numbers by rising number, equal ones as they were.
Precedes(key, i, j) == key[i] < key[j] \/ (key[i] = key[j] /\ i < j)
PlacesBefore(key, i) == Cardinality({j \in DOMAIN key : Precedes(key, j, i)})
SortedPlaces(key) == [k \in DOMAIN key |-> CHOOSE i \in DOMAIN key : PlacesBefore(key, i) = k - 1]

\* The sum of each prefix of q.
SumsOf(q) ==
    LET sum[n \in 0..Len(q)] == IF n = 0 THEN 0 ELSE sum[n - 1] + q[n]
    IN  sum

SumOf(q) == SumsOf(q)[Len(q)]
=============================================================================
