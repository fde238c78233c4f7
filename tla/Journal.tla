------------------------------ MODULE Journal ------------------------------
(***************************************************************************)
(* What the way from a bridge to the database promises: data sets are       *)
(* offered one after the other, and those that are stored are stored in     *)
(* that order and at most once.  Some may never be stored.                  *)
(***************************************************************************)
EXTENDS Integers, Sequences

VARIABLES
  offered,       \* how many data sets have been offered
  stored         \* the numbers of those stored, in order

vars == <<offered, stored>>

Newest == IF stored = <<>> THEN 0 ELSE stored[Len(stored)]

Init == offered = 0 /\ stored = <<>>

Offer == offered' = offered + 1 /\ UNCHANGED stored

Store == \E n \in Newest + 1 .. offered :
           stored' = Append(stored, n) /\ UNCHANGED offered

Next == Offer \/ Store

Spec == Init /\ [][Next]_vars
=============================================================================
