------------------------------- MODULE Deque -------------------------------
(***************************************************************************)
(* What the circular linked list of list.c promises its callers: a double  *)
(* ended queue whose every operation takes effect at one instant between   *)
(* its call and its return, whatever the other threads are doing.          *)
(***************************************************************************)
EXTENDS Integers, Sequences

CONSTANTS Threads,  \* the threads that share one list
          Data,     \* the payload pointers the callers store
          NoData,   \* the absence of a payload argument
          Ops,      \* Ops[t]: the operations thread t calls on the list
          MaxIndex  \* bound on the index of an indexed read

VARIABLES
  seq,   \* the contents, front first
  call   \* call[t]: the call thread t is in, with its result once it has one

vars == <<seq, call>>

Pushes   == {"push_front", "push_back"}
Removals == {"remove_front", "remove_back", "empty_list"}
Reads    == {"front", "back", "is_empty", "size", "traverse",
             "get_node_data_at_index"}
OpNames  == Pushes \union Removals \union Reads

\* A thread that is not inside the list.
Idle == [op |-> "none", arg |-> NoData, idx |-> 0,
         done |-> FALSE, seen |-> <<>>, num |-> 0]

Init ==
  /\ seq = <<>>
  /\ call = [t \in Threads |-> Idle]

Invoke(t) ==
  /\ call[t] = Idle
  /\ \E o \in Ops[t], d \in Data \union {NoData}, k \in 0 .. MaxIndex :
       /\ o \in Pushes <=> d # NoData
       /\ o # "get_node_data_at_index" => k = 0
       /\ call' = [call EXCEPT ![t] = [Idle EXCEPT !.op = o, !.arg = d, !.idx = k]]
  /\ UNCHANGED seq

\* The operation of t takes effect: the contents become s, the payloads the
\* call hands out are seen, in that order, and num is its numeric result.
Effect(t, s, seen, num) ==
  /\ seq' = s
  /\ call' = [call EXCEPT ![t] = [Idle EXCEPT !.op = call[t].op, !.done = TRUE,
                                              !.seen = seen, !.num = num]]

LastOf(s)    == s[Len(s)]
AllButLast(s) == SubSeq(s, 1, Len(s) - 1)

\* An index equal to the length wraps around to the front.
Indexed(s, k) == IF s = <<>> \/ Len(s) < k THEN <<>>
                 ELSE <<s[IF k = Len(s) THEN 1 ELSE k + 1]>>

Apply(t) ==
  LET o == call[t].op
      k == call[t].idx
  IN /\ call[t] # Idle
     /\ ~call[t].done
     /\ \/ o = "push_front" /\ Effect(t, <<call[t].arg>> \o seq, <<>>, 0)
        \/ o = "push_back"  /\ Effect(t, Append(seq, call[t].arg), <<>>, 0)
        \/ o \in {"remove_front", "remove_back"} /\ seq = <<>> /\ Effect(t, seq, <<>>, -1)
        \/ o = "remove_front" /\ seq # <<>> /\ Effect(t, Tail(seq), <<Head(seq)>>, 0)
        \/ o = "remove_back"  /\ seq # <<>>
             /\ Effect(t, AllButLast(seq), <<LastOf(seq)>>, 0)
        \/ o = "empty_list" /\ Effect(t, <<>>, seq, 0)
        \/ o = "front" /\ Effect(t, seq, IF seq = <<>> THEN <<>> ELSE <<Head(seq)>>, 0)
        \/ o = "back"  /\ Effect(t, seq, IF seq = <<>> THEN <<>> ELSE <<LastOf(seq)>>, 0)
        \/ o = "is_empty" /\ Effect(t, seq, <<>>, IF seq = <<>> THEN 1 ELSE 0)
        \/ o = "size"     /\ Effect(t, seq, <<>>, Len(seq))
        \/ o = "traverse" /\ Effect(t, seq, seq, 0)
        \/ o = "get_node_data_at_index" /\ Effect(t, seq, Indexed(seq, k), 0)

Return(t) ==
  /\ call[t].done
  /\ call' = [call EXCEPT ![t] = Idle]
  /\ UNCHANGED seq

Next == \E t \in Threads : Invoke(t) \/ Apply(t) \/ Return(t)

Spec == Init /\ [][Next]_vars
=============================================================================
