--------------------------- MODULE MCClassSelection ---------------------------
(***************************************************************************)
(* Two models with different numbers of classes.                            *)
(***************************************************************************)
EXTENDS ClassSelection, TLC

MCClassCount == [small |-> 1, large |-> 2]
=============================================================================
