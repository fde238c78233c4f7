----------------------------- MODULE LinkedList -----------------------------
(***************************************************************************)
(* list.c: a circular doubly linked list of heap nodes behind one mutex,   *)
(* shared by the threads of centralServer (and, with the indexed read of   *)
(* get_node_data_at_index, by bbridge and cloudServer).  Every call is     *)
(* taken apart at the points where another thread can run: the malloc      *)
(* before the lock, the lock, the reads of the header and the neighbours,  *)
(* the writes, each turn of a loop, the unlock and, for                    *)
(* get_node_data_at_index, the read of the payload after the unlock.       *)
(***************************************************************************)
EXTENDS Integers, Sequences

CONSTANTS Threads,   \* the threads that share the list
          Node,      \* the addresses malloc can return for a node
          NULL,      \* the null pointer
          Data,      \* the payload pointers
          NoData,    \* not a payload
          Ops,       \* Ops[t]: the operations thread t calls
          MaxIndex   \* bound on the index passed to get_node_data_at_index

VARIABLES
  mutex,  \* the thread that holds llist->mutex, or NULL
  head,   \* llist->head
  size,   \* llist->size
  next, prev, data,  \* the fields of the nodes
  heap,   \* the nodes malloc has handed out and free has not taken back
  pc, op, idx,       \* per thread: where it is, the function, its index argument
  node,   \* per thread: the node a push allocated
  cur, oth,          \* per thread: the locals head/current/tbr and prev/next/nb
  i,      \* per thread: the loop counter
  seen,   \* per thread: the payloads passed to the callback or returned
  num,    \* per thread: the integer result
  order   \* history: the linked nodes, front first

header == <<mutex, head, size>>
nodes  == <<next, prev, data, heap, order>>
locals == <<op, idx, node, cur, oth, i, seen, num>>
vars   == <<mutex, head, size, next, prev, data, heap, pc, op, idx, node,
            cur, oth, i, seen, num, order>>

Pushes   == {"push_front", "push_back"}
Removals == {"remove_front", "remove_back", "empty_list"}
Reads    == {"front", "back", "is_empty", "size", "traverse",
             "get_node_data_at_index"}
OpNames  == Pushes \union Removals \union Reads
Pointer  == Node \union {NULL}

ASSUME NullIsNoAddress == NULL \notin Node \union Threads
ASSUME Payloads == Data # {} /\ NoData \notin Data
ASSUME OpsAreOperations == Ops \in [Threads -> SUBSET OpNames]
ASSUME MaxIndexIsNat == MaxIndex \in Nat

\* The payload is read after the unlock, so a thread that reads by index must
\* be the only one that removes nodes; bbridge and cloudServer use one thread.
ASSUME IndexedReaderRemovesAlone ==
  \A t \in Threads : "get_node_data_at_index" \in Ops[t] =>
    \A u \in Threads \ {t} : Ops[u] \intersect Removals = {}

Init ==                                                     \* create_list
  /\ mutex = NULL /\ head = NULL /\ size = 0
  /\ next = [n \in Node |-> NULL]
  /\ prev = [n \in Node |-> NULL]
  /\ data = [n \in Node |-> CHOOSE d \in Data : TRUE]
  /\ heap = {}
  /\ pc = [t \in Threads |-> "idle"]
  /\ op = [t \in Threads |-> "none"]
  /\ idx = [t \in Threads |-> 0]
  /\ node = [t \in Threads |-> NULL]
  /\ cur = [t \in Threads |-> NULL]
  /\ oth = [t \in Threads |-> NULL]
  /\ i = [t \in Threads |-> 0]
  /\ seen = [t \in Threads |-> <<>>]
  /\ num = [t \in Threads |-> 0]
  /\ order = <<>>

-----------------------------------------------------------------------------
(* Calls and the mutex.                                                     *)

\* push_front and push_back allocate and fill the node before they lock.
CallPush(t) ==
  /\ pc[t] = "idle"
  /\ \E o \in Ops[t] \intersect Pushes, n \in Node \ heap, d \in Data :
       /\ heap' = heap \union {n}
       /\ data' = [data EXCEPT ![n] = d]
       /\ next' = [next EXCEPT ![n] = NULL]
       /\ prev' = [prev EXCEPT ![n] = NULL]
       /\ node' = [node EXCEPT ![t] = n]
       /\ op' = [op EXCEPT ![t] = o]
  /\ pc' = [pc EXCEPT ![t] = "lock"]
  /\ UNCHANGED <<header, order, idx, cur, oth, i, seen, num>>

CallOther(t) ==
  /\ pc[t] = "idle"
  /\ \E o \in Ops[t] \ Pushes, k \in 0 .. MaxIndex :
       /\ o # "get_node_data_at_index" => k = 0
       /\ op' = [op EXCEPT ![t] = o]
       /\ idx' = [idx EXCEPT ![t] = k]
  /\ pc' = [pc EXCEPT ![t] = "lock"]
  /\ UNCHANGED <<header, nodes, node, cur, oth, i, seen, num>>

\* Mutant: the lock does not exclude.
LockNothing(t) ==
  /\ pc[t] = "lock"
  /\ mutex' = t
  /\ pc' = [pc EXCEPT ![t] = "enter"]
  /\ UNCHANGED <<head, size, nodes, locals>>

Lock(t) ==
  /\ pc[t] = "lock"
  /\ mutex = NULL
  /\ mutex' = t
  /\ pc' = [pc EXCEPT ![t] = "enter"]
  /\ UNCHANGED <<head, size, nodes, locals>>

\* The function returns: its locals are gone.
Leave(t) ==
  /\ pc' = [pc EXCEPT ![t] = "idle"]
  /\ op' = [op EXCEPT ![t] = "none"]
  /\ idx' = [idx EXCEPT ![t] = 0]
  /\ node' = [node EXCEPT ![t] = NULL]
  /\ cur' = [cur EXCEPT ![t] = NULL]
  /\ oth' = [oth EXCEPT ![t] = NULL]
  /\ i' = [i EXCEPT ![t] = 0]
  /\ seen' = [seen EXCEPT ![t] = <<>>]
  /\ num' = [num EXCEPT ![t] = 0]

Unlock(t) ==
  /\ pc[t] = "unlock"
  /\ mutex' = NULL
  /\ IF op[t] = "get_node_data_at_index" /\ cur[t] # NULL
     THEN pc' = [pc EXCEPT ![t] = "fetch"] /\ UNCHANGED locals
     ELSE Leave(t)
  /\ UNCHANGED <<head, size, nodes>>

\* get_node_data_at_index: return (void *)current->data, after the unlock.
Fetch(t) ==
  /\ pc[t] = "fetch"
  /\ Leave(t)
  /\ UNCHANGED <<header, nodes>>

-----------------------------------------------------------------------------
(* The first reads under the lock: the emptiness test and the neighbours.  *)

\* Go on to pc label l with the locals c and o.
Take(t, l, c, o) ==
  /\ pc' = [pc EXCEPT ![t] = l]
  /\ cur' = [cur EXCEPT ![t] = c]
  /\ oth' = [oth EXCEPT ![t] = o]
  /\ UNCHANGED <<header, nodes, op, idx, node, i, seen, num>>

\* Go on to the unlock with the payloads s and the integer r as the result.
Result(t, s, r) ==
  /\ pc' = [pc EXCEPT ![t] = "unlock"]
  /\ seen' = [seen EXCEPT ![t] = s]
  /\ num' = [num EXCEPT ![t] = r]
  /\ UNCHANGED <<header, nodes, op, idx, node, cur, oth, i>>

\* Mutant: prev is taken for the head itself.
EnterPushWrongPrev(t) ==
  /\ op[t] \in Pushes
  /\ IF size = 0 THEN Take(t, "write", NULL, NULL)
                 ELSE Take(t, "write", head, head)

EnterPush(t) ==
  /\ op[t] \in Pushes
  /\ IF size = 0 THEN Take(t, "write", NULL, NULL)
                 ELSE Take(t, "write", head, prev[head])

\* Mutant: the count goes down before the emptiness test.
EnterRemoveFrontCounts(t) ==
  /\ op[t] = "remove_front"
  /\ IF size = 0
     THEN size' = -1 /\ pc' = [pc EXCEPT ![t] = "unlock"]
          /\ UNCHANGED <<mutex, head, nodes, locals>>
     ELSE Take(t, "write", head, next[head])

EnterRemoveFront(t) ==
  /\ op[t] = "remove_front"
  /\ IF size = 0 THEN Result(t, <<>>, -1)
                 ELSE Take(t, "write", head, next[head])

EnterRemoveBack(t) ==
  /\ op[t] = "remove_back"
  /\ IF size = 0 THEN Result(t, <<>>, -1)
                 ELSE Take(t, "write", prev[head], prev[prev[head]])

EnterEmptyList(t) ==
  /\ op[t] = "empty_list"
  /\ IF size = 0 THEN Result(t, <<>>, 0)
                 ELSE Take(t, "walk", head, next[head])

EnterTraverse(t) ==
  /\ op[t] = "traverse"
  /\ Take(t, "walk", head, NULL)

EnterGet(t) ==
  /\ op[t] = "get_node_data_at_index"
  /\ IF size = 0 \/ size < idx[t] THEN Result(t, <<>>, 0)
                                  ELSE Take(t, "walk", head, NULL)

EnterFront(t) ==
  /\ op[t] = "front"
  /\ Result(t, IF size # 0 THEN <<data[head]>> ELSE <<>>, 0)

\* Mutant: the front is taken for the back.
EnterBackFront(t) ==
  /\ op[t] = "back"
  /\ Result(t, IF size = 0 THEN <<>> ELSE <<data[head]>>, 0)

EnterBack(t) ==
  /\ op[t] = "back"
  /\ Result(t, IF size = 0 THEN <<>> ELSE <<data[prev[head]]>>, 0)

EnterIsEmpty(t) ==
  /\ op[t] = "is_empty"
  /\ Result(t, <<>>, IF size = 0 /\ head = NULL THEN 1 ELSE 0)

EnterSize(t) ==
  /\ op[t] = "size"
  /\ Result(t, <<>>, size)

Enter(t) ==
  /\ pc[t] = "enter"
  /\ \/ EnterPush(t) \/ EnterRemoveFront(t) \/ EnterRemoveBack(t)
     \/ EnterEmptyList(t) \/ EnterTraverse(t) \/ EnterGet(t)
     \/ EnterFront(t) \/ EnterBack(t) \/ EnterIsEmpty(t) \/ EnterSize(t)

-----------------------------------------------------------------------------
(* The writes.                                                             *)

WritePush(t) ==
  LET n == node[t]
      h == cur[t]
      p == oth[t]
  IN /\ pc[t] = "write"
     /\ op[t] \in Pushes
     /\ IF h = NULL
        THEN /\ next' = [next EXCEPT ![n] = n]
             /\ prev' = [prev EXCEPT ![n] = n]
        ELSE /\ next' = [next EXCEPT ![n] = h, ![p] = n]
             /\ prev' = [prev EXCEPT ![n] = prev[h], ![h] = n]
     /\ head' = IF h = NULL \/ op[t] = "push_front" THEN n ELSE head
     /\ size' = size + 1
     /\ order' = IF op[t] = "push_front" THEN <<n>> \o order ELSE Append(order, n)
     /\ pc' = [pc EXCEPT ![t] = "unlock"]
     /\ UNCHANGED <<mutex, data, heap, locals>>

\* Mutant: only the payload is freed.
FreeDataOnly(t, n) ==
  /\ seen' = [seen EXCEPT ![t] = Append(seen[t], data[n])]
  /\ size' = size - 1
  /\ pc' = [pc EXCEPT ![t] = "unlock"]
  /\ UNCHANGED <<mutex, data, heap, op, idx, node, cur, oth, i, num>>

\* free_func(n->data); free(n); llist->size--
FreeOne(t, n) ==
  /\ seen' = [seen EXCEPT ![t] = Append(seen[t], data[n])]
  /\ heap' = heap \ {n}
  /\ size' = size - 1
  /\ pc' = [pc EXCEPT ![t] = "unlock"]
  /\ UNCHANGED <<mutex, data, op, idx, node, cur, oth, i, num>>

WriteRemoveFront(t) ==
  LET h == cur[t]
      n == oth[t]
      p == prev[h]
  IN /\ pc[t] = "write"
     /\ op[t] = "remove_front"
     /\ IF size = 1
        THEN /\ head' = NULL
             /\ UNCHANGED <<next, prev>>
        ELSE /\ head' = n
             /\ prev' = [prev EXCEPT ![n] = p]
             /\ next' = [next EXCEPT ![p] = n]
     /\ order' = Tail(order)
     /\ FreeOne(t, h)

WriteRemoveBack(t) ==
  LET tbr == cur[t]
      nb  == oth[t]
  IN /\ pc[t] = "write"
     /\ op[t] = "remove_back"
     /\ IF size = 1
        THEN /\ head' = NULL
             /\ UNCHANGED <<next, prev>>
        ELSE /\ prev' = [prev EXCEPT ![head] = nb]
             /\ next' = [next EXCEPT ![nb] = head]
             /\ UNCHANGED head
     /\ order' = SubSeq(order, 1, Len(order) - 1)
     /\ FreeOne(t, tbr)

-----------------------------------------------------------------------------
(* The loops.                                                              *)

\* empty_list: one turn frees current and moves to next.
WalkEmptyList(t) ==
  /\ pc[t] = "walk"
  /\ op[t] = "empty_list"
  /\ i[t] < size
  /\ seen' = [seen EXCEPT ![t] = Append(seen[t], data[cur[t]])]
  /\ heap' = heap \ {cur[t]}
  /\ order' = Tail(order)
  /\ cur' = [cur EXCEPT ![t] = oth[t]]
  /\ oth' = [oth EXCEPT ![t] = IF i[t] < size - 1 THEN next[oth[t]] ELSE oth[t]]
  /\ i' = [i EXCEPT ![t] = i[t] + 1]
  /\ UNCHANGED <<header, next, prev, data, pc, op, idx, node, num>>

EndEmptyList(t) ==
  /\ pc[t] = "walk"
  /\ op[t] = "empty_list"
  /\ i[t] >= size
  /\ head' = NULL
  /\ size' = 0
  /\ pc' = [pc EXCEPT ![t] = "unlock"]
  /\ UNCHANGED <<mutex, nodes, locals>>

\* traverse calls do_func on every payload.
WalkTraverse(t) ==
  /\ pc[t] = "walk"
  /\ op[t] = "traverse"
  /\ i[t] < size
  /\ seen' = [seen EXCEPT ![t] = Append(seen[t], data[cur[t]])]
  /\ cur' = [cur EXCEPT ![t] = next[cur[t]]]
  /\ i' = [i EXCEPT ![t] = i[t] + 1]
  /\ UNCHANGED <<header, nodes, pc, op, idx, node, oth, num>>

\* Mutant: the loop does not count.
WalkGetForever(t) ==
  /\ pc[t] = "walk"
  /\ op[t] = "get_node_data_at_index"
  /\ i[t] < idx[t]
  /\ cur' = [cur EXCEPT ![t] = next[cur[t]]]
  /\ UNCHANGED <<header, nodes, pc, op, idx, node, oth, i, seen, num>>

WalkGet(t) ==
  /\ pc[t] = "walk"
  /\ op[t] = "get_node_data_at_index"
  /\ i[t] < idx[t]
  /\ cur' = [cur EXCEPT ![t] = next[cur[t]]]
  /\ i' = [i EXCEPT ![t] = i[t] + 1]
  /\ UNCHANGED <<header, nodes, pc, op, idx, node, oth, seen, num>>

EndWalk(t) ==
  /\ pc[t] = "walk"
  /\ \/ op[t] = "traverse" /\ i[t] >= size
     \/ op[t] = "get_node_data_at_index" /\ i[t] >= idx[t]
  /\ pc' = [pc EXCEPT ![t] = "unlock"]
  /\ UNCHANGED <<header, nodes, locals>>

-----------------------------------------------------------------------------
Inside(t) ==
  \/ Enter(t)
  \/ WritePush(t) \/ WriteRemoveFront(t) \/ WriteRemoveBack(t)
  \/ WalkEmptyList(t) \/ EndEmptyList(t)
  \/ WalkTraverse(t) \/ WalkGet(t) \/ EndWalk(t)
  \/ Unlock(t) \/ Fetch(t)

Step(t) == CallPush(t) \/ CallOther(t) \/ Lock(t) \/ Inside(t)

Next == \E t \in Threads : Step(t)

Spec == Init /\ [][Next]_vars

\* A thread inside a call keeps running; nothing obliges it to win the mutex
\* (pthread mutexes are not fair) or to make another call.
FairSpec == Spec /\ \A t \in Threads : WF_vars(Inside(t))

-----------------------------------------------------------------------------
(* Properties.                                                             *)

Linked == { order[k] : k \in 1 .. Len(order) }

\* Some thread is in the freeing loop of empty_list.
Emptying == \E t \in Threads : pc[t] = "walk" /\ op[t] = "empty_list"

\* The variables keep to their domains; in particular llist->size is never
\* decremented below zero.
TypeOK ==
  /\ mutex \in Threads \union {NULL}
  /\ head \in Pointer
  /\ size \in Nat
  /\ next \in [Node -> Pointer]
  /\ prev \in [Node -> Pointer]
  /\ data \in [Node -> Data]
  /\ heap \in SUBSET Node
  /\ pc \in [Threads -> {"idle", "lock", "enter", "write", "walk", "unlock", "fetch"}]
  /\ op \in [Threads -> OpNames \union {"none"}]
  /\ idx \in [Threads -> 0 .. MaxIndex]
  /\ node \in [Threads -> Pointer]
  /\ cur \in [Threads -> Pointer]
  /\ oth \in [Threads -> Pointer]
  /\ i \in [Threads -> Nat]
  /\ seen \in [Threads -> Seq(Data)]
  /\ num \in [Threads -> Int]
  /\ order \in Seq(Node)

Distinct(s) == \A j, k \in 1 .. Len(s) : s[j] = s[k] => j = k

\* Following nx runs through the nodes of s in their order, pv runs back.
Chain(s, nx, pv) ==
  \A k \in 1 .. Len(s) - 1 : nx[s[k]] = s[k + 1] /\ pv[s[k + 1]] = s[k]

\* The last node of s is linked to the first.
Closed(s, nx, pv) ==
  s # <<>> => nx[s[Len(s)]] = s[1] /\ pv[s[1]] = s[Len(s)]

\* The links, the header and the number of nodes agree: the list is one ring of
\* `size' distinct live nodes that starts at `head'.  While empty_list runs,
\* the header is stale but what is still to be freed remains a chain.
WellFormed ==
  /\ Distinct(order)
  /\ Linked \subseteq heap
  /\ Chain(order, next, prev)
  /\ ~Emptying => /\ Closed(order, next, prev)
                  /\ size = Len(order)
                  /\ head = IF order = <<>> THEN NULL ELSE order[1]

\* The pointers the next step of t follows lead to live nodes.
SafeEnter(t) ==
  pc[t] = "enter" /\ size # 0 =>
    /\ op[t] \in Pushes \union Removals \union {"front", "back"} => head \in heap
    /\ op[t] \in {"remove_back", "back"} => prev[head] \in heap

SafeWrite(t) ==
  pc[t] = "write" =>
    /\ op[t] \in Pushes => node[t] \in heap
    /\ op[t] \in Pushes /\ cur[t] # NULL => {cur[t], oth[t]} \subseteq heap
    /\ op[t] \in Removals => cur[t] \in heap
    /\ op[t] = "remove_front" /\ size # 1 => {oth[t], prev[cur[t]]} \subseteq heap
    /\ op[t] = "remove_back" /\ size # 1 => {oth[t], head} \subseteq heap

SafeWalk(t) ==
  pc[t] = "walk" =>
    /\ op[t] \in {"empty_list", "traverse"} /\ i[t] < size => cur[t] \in heap
    /\ op[t] = "empty_list" /\ i[t] < size - 1 => oth[t] \in heap
    /\ op[t] = "get_node_data_at_index" /\ i[t] < idx[t] => cur[t] \in heap

SafeFetch(t) == pc[t] = "fetch" => cur[t] \in heap

\* No thread follows a null pointer or a pointer to a node that has been
\* freed, although nodes are allocated before the lock and one function reads
\* after the unlock.
NoUseAfterFree ==
  \A t \in Threads : SafeEnter(t) /\ SafeWrite(t) /\ SafeWalk(t) /\ SafeFetch(t)

\* The nodes that are allocated and not linked yet.
Pushing(t) == op[t] \in Pushes /\ pc[t] \in {"lock", "enter", "write"}
InFlight   == { node[t] : t \in { u \in Threads : Pushing(u) } }

\* No node leaks and none is freed twice: what malloc has handed out is linked
\* or on its way into the list.
NoLeak == heap = Linked \union InFlight

\* A thread that has the lock gives it back: the loops end and no early return
\* keeps it.
LockReleased == (mutex # NULL) ~> (mutex = NULL)

-----------------------------------------------------------------------------
(* The list implements the deque.  A call takes effect at its write, at its *)
(* last read, and, for empty_list, when the freeing loop starts.           *)

Contents == [k \in 1 .. Len(order) |-> data[order[k]]]

TookEffect(t) ==
  \/ pc[t] \in {"unlock", "fetch"}
  \/ pc[t] = "walk" /\ op[t] = "empty_list"

ResultSeen(t) ==
  IF pc[t] = "walk" THEN seen[t] \o Contents
  ELSE IF op[t] = "get_node_data_at_index" /\ cur[t] # NULL THEN <<data[cur[t]]>>
  ELSE seen[t]

CallOf(t) ==
  [op   |-> op[t],
   arg  |-> IF op[t] \in Pushes /\ ~TookEffect(t) THEN data[node[t]] ELSE NoData,
   idx  |-> IF TookEffect(t) THEN 0 ELSE idx[t],
   done |-> TookEffect(t),
   seen |-> IF TookEffect(t) THEN ResultSeen(t) ELSE <<>>,
   num  |-> num[t]]

Held  == IF Emptying THEN <<>> ELSE Contents
Calls == [t \in Threads |-> CallOf(t)]

Abstract == INSTANCE Deque WITH seq <- Held, call <- Calls

\* Every operation behaves as if it happened at one instant: the results that
\* concurrent callers see are those of a sequential double ended queue.
ImplementsDeque == Abstract!Spec
=============================================================================
