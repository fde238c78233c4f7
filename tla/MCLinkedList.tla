---------------------------- MODULE MCLinkedList ----------------------------
(* An instance of LinkedList: the way the three programs use their lists,   *)
(* one thread that consumes beside one that produces.                       *)
EXTENDS LinkedList, TLC

CONSTANTS t1, t2

\* t1 calls every operation, the indexed read among them; t2 adds and looks.
SharedOps == (t1 :> OpNames) @@ (t2 :> {"push_front", "push_back", "back"})
=============================================================================
