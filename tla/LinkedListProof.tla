-------------------------- MODULE LinkedListProof --------------------------
(* Proofs about LinkedList, for every number of threads, of nodes and of    *)
(* calls: what the pointer assignments of list.c do to a ring, then mutual   *)
(* exclusion, then what the holder of the mutex knows, then the refinement   *)
(* of Deque.                                                                *)
EXTENDS LinkedList, SequenceTheorems, TLAPS

-----------------------------------------------------------------------------
(* What the pointer assignments of list.c do to a ring of nodes, whatever    *)
(* its length: the lemmas the proofs about LinkedList rest on.  A sequence   *)
(* is taken with its length L as a function on 1 .. L wherever there is      *)
(* arithmetic on positions.                                                  *)

Links == [Node -> Pointer]

Elements(s) == { s[k] : k \in 1 .. Len(s) }

\* A ring of distinct nodes.
Ring(s, nx, pv) == Distinct(s) /\ Chain(s, nx, pv) /\ Closed(s, nx, pv)

\* The same three parts for a sequence of length L.
DistinctOf(s, L) == \A j, k \in 1 .. L : s[j] = s[k] => j = k
ChainOf(s, L, nx, pv) ==
  \A k \in 1 .. L - 1 : nx[s[k]] = s[k + 1] /\ pv[s[k + 1]] = s[k]
ClosedOf(s, L, nx, pv) == L > 0 => nx[s[L]] = s[1] /\ pv[s[1]] = s[L]
RingOf(s, L, nx, pv) ==
  DistinctOf(s, L) /\ ChainOf(s, L, nx, pv) /\ ClosedOf(s, L, nx, pv)

\* A sequence is a function on the positions up to its length.
LEMMA Positions ==
  ASSUME NEW s \in Seq(Node)
  PROVE  /\ Len(s) \in Nat
         /\ s \in [1 .. Len(s) -> Node]
         /\ s # <<>> <=> Len(s) > 0
BY LenProperties, EmptySeq

\* Distinct, Chain and Closed are their counterparts with the length given.
LEMMA PartsOf ==
  ASSUME NEW s \in Seq(Node), NEW nx, NEW pv, NEW L, L = Len(s)
  PROVE  /\ Distinct(s) <=> DistinctOf(s, L)
         /\ Chain(s, nx, pv) <=> ChainOf(s, L, nx, pv)
         /\ Closed(s, nx, pv) <=> ClosedOf(s, L, nx, pv)
<1>1. s # <<>> <=> L > 0
  BY Positions
<1>2. Distinct(s) <=> DistinctOf(s, L)
  BY Zenon DEF Distinct, DistinctOf
<1>3. Chain(s, nx, pv) <=> ChainOf(s, L, nx, pv)
  BY Zenon DEF Chain, ChainOf
<1>4. Closed(s, nx, pv) <=> ClosedOf(s, L, nx, pv)
  BY <1>1, Zenon DEF Closed, ClosedOf
<1> QED
  BY <1>2, <1>3, <1>4

\* Ring is RingOf with the length given.
LEMMA RingIs ==
  ASSUME NEW s \in Seq(Node), NEW nx, NEW pv, NEW L, L = Len(s)
  PROVE  Ring(s, nx, pv) <=> RingOf(s, L, nx, pv)
BY PartsOf, Zenon DEF Ring, RingOf

-----------------------------------------------------------------------------
(* The elements of a sequence that has got one more element or lost one.    *)

\* Putting a node in front moves every other node up by one.
LEMMA FrontAdded ==
  ASSUME NEW s \in Seq(Node), NEW n \in Node, NEW L, L = Len(s)
  PROVE  /\ <<n>> \o s \in Seq(Node)
         /\ Len(<<n>> \o s) = L + 1
         /\ (<<n>> \o s)[1] = n
         /\ \A k \in 1 .. L : (<<n>> \o s)[k + 1] = s[k]
<1>1. <<n>> \in Seq(Node) /\ Len(<<n>>) = 1 /\ <<n>>[1] = n
  OBVIOUS
<1>2. Len(s) \in Nat
  BY LenProperties
<1> QED
  BY <1>1, <1>2, ConcatProperties

\* Putting a node at the back leaves the others in place.
LEMMA BackAdded ==
  ASSUME NEW s \in Seq(Node), NEW n \in Node, NEW L, L = Len(s)
  PROVE  /\ Append(s, n) \in Seq(Node)
         /\ Len(Append(s, n)) = L + 1
         /\ Append(s, n)[L + 1] = n
         /\ \A k \in 1 .. L : Append(s, n)[k] = s[k]
BY AppendProperties

\* Taking the front away moves every other node down by one.
LEMMA FrontRemoved ==
  ASSUME NEW s \in Seq(Node), s # <<>>, NEW L, L = Len(s)
  PROVE  /\ Tail(s) \in Seq(Node)
         /\ Len(Tail(s)) = L - 1
         /\ \A k \in 1 .. L - 1 : Tail(s)[k] = s[k + 1]
BY HeadTailProperties

\* Taking the back away leaves the others in place.
LEMMA BackRemoved ==
  ASSUME NEW s \in Seq(Node), s # <<>>, NEW L, L = Len(s)
  PROVE  /\ SubSeq(s, 1, L - 1) \in Seq(Node)
         /\ Len(SubSeq(s, 1, L - 1)) = L - 1
         /\ \A k \in 1 .. L - 1 : SubSeq(s, 1, L - 1)[k] = s[k]
<1> DEFINE b == SubSeq(s, 1, L - 1)
           M == Len(b)
<1>1. L \in Nat /\ L > 0 /\ s \in [1 .. L -> Node]
  BY Positions
<1>2. \A k \in 1 .. L - 1 : s[k] \in Node
  BY <1>1
<1>3. L - 1 \in Int /\ 1 \in Int
  BY <1>1
<1>4. /\ b \in Seq(Node)
      /\ M = IF 1 <= L - 1 THEN (L - 1) - 1 + 1 ELSE 0
      /\ \A k \in 1 .. (L - 1) - 1 + 1 : b[k] = s[1 + k - 1]
  BY <1>1, <1>2, <1>3, SubSeqProperties
<1> HIDE DEF b, M
<1>5. M = L - 1
  BY <1>1, <1>4
<1>6. \A k \in 1 .. L - 1 : b[k] = s[k]
  <2> TAKE k \in 1 .. L - 1
  <2>1. k \in 1 .. (L - 1) - 1 + 1 /\ 1 + k - 1 = k
    BY <1>1
  <2> QED
    BY <2>1, <1>4
<1> QED
  BY <1>4, <1>5, <1>6, Zenon DEF b, M

-----------------------------------------------------------------------------
(* What push and remove do to the ring.                                     *)

\* The links after the writes of push_front and push_back on a list that is
\* not empty, when the new node is put in front.
LEMMA LinkedInFront ==
  ASSUME NEW L \in Nat, L > 0, NEW s \in [1 .. L -> Node],
         NEW nx \in Links, NEW pv \in Links, RingOf(s, L, nx, pv),
         NEW n \in Node, \A k \in 1 .. L : s[k] # n,
         NEW f, f[1] = n, \A k \in 1 .. L : f[k + 1] = s[k]
  PROVE  RingOf(f, L + 1, [nx EXCEPT ![n] = s[1], ![s[L]] = n],
                          [pv EXCEPT ![n] = pv[s[1]], ![s[1]] = n])
<1> DEFINE nx2 == [nx EXCEPT ![n] = s[1], ![s[L]] = n]
           pv2 == [pv EXCEPT ![n] = pv[s[1]], ![s[1]] = n]
<1>1. /\ nx2[n] = s[1] /\ nx2[s[L]] = n
      /\ pv2[n] = s[L] /\ pv2[s[1]] = n
  BY DEF Links, RingOf, ClosedOf
<1>2. \A k \in 1 .. L - 1 : nx2[s[k]] = s[k + 1]
  BY DEF Links, RingOf, DistinctOf, ChainOf
<1>3. \A k \in 1 .. L - 1 : pv2[s[k + 1]] = s[k]
  BY DEF Links, RingOf, DistinctOf, ChainOf
<1> HIDE DEF nx2, pv2
<1>4. \A k \in 2 .. L + 1 : f[k] = s[k - 1]
  <2> TAKE k \in 2 .. L + 1
  <2>1. k - 1 \in 1 .. L /\ (k - 1) + 1 = k
    OBVIOUS
  <2> QED
    BY <2>1
<1>5. DistinctOf(f, L + 1)
  BY <1>4 DEF RingOf, DistinctOf
<1>6. ChainOf(f, L + 1, nx2, pv2)
  <2> SUFFICES ASSUME NEW k \in 1 .. L
               PROVE  nx2[f[k]] = f[k + 1] /\ pv2[f[k + 1]] = f[k]
    BY DEF ChainOf
  <2>1. CASE k = 1
    BY <2>1, <1>1
  <2>2. CASE k > 1
    <3>1. k - 1 \in 1 .. L - 1 /\ (k - 1) + 1 = k /\ f[k] = s[k - 1] /\ f[k + 1] = s[k]
      BY <2>2, <1>4
    <3> QED
      BY <3>1, <1>2, <1>3
  <2> QED
    BY <2>1, <2>2
<1>7. ClosedOf(f, L + 1, nx2, pv2)
  BY <1>1 DEF ClosedOf
<1> QED
  BY <1>5, <1>6, <1>7 DEF RingOf, nx2, pv2

\* The same links, when the new node is put at the back.
LEMMA LinkedAtBack ==
  ASSUME NEW L \in Nat, L > 0, NEW s \in [1 .. L -> Node],
         NEW nx \in Links, NEW pv \in Links, RingOf(s, L, nx, pv),
         NEW n \in Node, \A k \in 1 .. L : s[k] # n,
         NEW b, b[L + 1] = n, \A k \in 1 .. L : b[k] = s[k]
  PROVE  RingOf(b, L + 1, [nx EXCEPT ![n] = s[1], ![s[L]] = n],
                          [pv EXCEPT ![n] = pv[s[1]], ![s[1]] = n])
<1> DEFINE nx2 == [nx EXCEPT ![n] = s[1], ![s[L]] = n]
           pv2 == [pv EXCEPT ![n] = pv[s[1]], ![s[1]] = n]
<1>1. /\ nx2[n] = s[1] /\ nx2[s[L]] = n
      /\ pv2[n] = s[L] /\ pv2[s[1]] = n
  BY DEF Links, RingOf, ClosedOf
<1>2. \A k \in 1 .. L - 1 : nx2[s[k]] = s[k + 1] /\ pv2[s[k + 1]] = s[k]
  BY DEF Links, RingOf, DistinctOf, ChainOf
<1> HIDE DEF nx2, pv2
<1>3. DistinctOf(b, L + 1)
  BY DEF RingOf, DistinctOf
<1>4. ChainOf(b, L + 1, nx2, pv2)
  <2> SUFFICES ASSUME NEW k \in 1 .. L
               PROVE  nx2[b[k]] = b[k + 1] /\ pv2[b[k + 1]] = b[k]
    BY DEF ChainOf
  <2>1. CASE k = L
    BY <2>1, <1>1
  <2>2. CASE k < L
    BY <2>2, <1>2
  <2> QED
    BY <2>1, <2>2
<1>5. ClosedOf(b, L + 1, nx2, pv2)
  BY <1>1 DEF ClosedOf
<1> QED
  BY <1>3, <1>4, <1>5 DEF RingOf, nx2, pv2

\* push_front and push_back on a list that is not empty: the new node comes
\* between the last node and the first.
LEMMA PushRing ==
  ASSUME NEW s \in Seq(Node), s # <<>>, NEW nx \in Links, NEW pv \in Links,
         Ring(s, nx, pv), NEW n \in Node, n \notin Elements(s),
         NEW L, L = Len(s),
         NEW nx2, nx2 = [nx EXCEPT ![n] = s[1], ![s[L]] = n],
         NEW pv2, pv2 = [pv EXCEPT ![n] = pv[s[1]], ![s[1]] = n]
  PROVE  Ring(<<n>> \o s, nx2, pv2) /\ Ring(Append(s, n), nx2, pv2)
<1> DEFINE f == <<n>> \o s
           b == Append(s, n)
<1>1. L \in Nat /\ L > 0 /\ s \in [1 .. L -> Node] /\ RingOf(s, L, nx, pv)
  BY Positions, RingIs
<1>2. \A k \in 1 .. L : s[k] # n
  BY DEF Elements
<1>3. f \in Seq(Node) /\ Len(f) = L + 1 /\ f[1] = n /\ \A k \in 1 .. L : f[k + 1] = s[k]
  BY FrontAdded
<1>4. b \in Seq(Node) /\ Len(b) = L + 1 /\ b[L + 1] = n /\ \A k \in 1 .. L : b[k] = s[k]
  BY BackAdded
<1> HIDE DEF f, b
<1>5. RingOf(f, L + 1, nx2, pv2)
  BY <1>1, <1>2, <1>3, LinkedInFront
<1>6. RingOf(b, L + 1, nx2, pv2)
  BY <1>1, <1>2, <1>4, LinkedAtBack
<1>7. Ring(f, nx2, pv2)
  BY <1>3, <1>5, RingIs, Zenon
<1>8. Ring(b, nx2, pv2)
  BY <1>4, <1>6, RingIs, Zenon
<1> QED
  BY <1>7, <1>8 DEF f, b

\* A single node that is linked to itself is a ring.
LEMMA SingleRing ==
  ASSUME NEW n \in Node, NEW nx \in Links, NEW pv \in Links
  PROVE  Ring(<<n>>, [nx EXCEPT ![n] = n], [pv EXCEPT ![n] = n])
BY DEF Ring, Distinct, Chain, Closed, Links

\* remove_front unlinks the first of several nodes.
LEMMA RemoveFrontRing ==
  ASSUME NEW s \in Seq(Node), NEW L, L = Len(s), L > 1,
         NEW nx \in Links, NEW pv \in Links, Ring(s, nx, pv)
  PROVE  Ring(Tail(s), [nx EXCEPT ![s[L]] = s[2]], [pv EXCEPT ![s[2]] = s[L]])
<1> DEFINE nx2 == [nx EXCEPT ![s[L]] = s[2]]
           pv2 == [pv EXCEPT ![s[2]] = s[L]]
           o == Tail(s)
<1>1. L \in Nat /\ s \in [1 .. L -> Node] /\ RingOf(s, L, nx, pv) /\ s # <<>>
  BY Positions, RingIs
<1>2. o \in Seq(Node) /\ Len(o) = L - 1 /\ \A k \in 1 .. L - 1 : o[k] = s[k + 1]
  BY <1>1, FrontRemoved
<1> HIDE DEF o
<1>3. /\ nx2[s[L]] = s[2] /\ pv2[s[2]] = s[L]
      /\ \A k \in 1 .. L - 2 : nx2[s[k + 1]] = s[(k + 1) + 1]
      /\ \A k \in 1 .. L - 2 : pv2[s[(k + 1) + 1]] = s[k + 1]
  BY <1>1 DEF Links, RingOf, DistinctOf, ChainOf
<1> HIDE DEF nx2, pv2
<1>4. DistinctOf(o, L - 1)
  BY <1>1, <1>2 DEF RingOf, DistinctOf
<1>5. ChainOf(o, L - 1, nx2, pv2)
  BY <1>1, <1>2, <1>3 DEF ChainOf
<1>6. ClosedOf(o, L - 1, nx2, pv2)
  <2>1. o[1] = s[2] /\ o[L - 1] = s[L]
    BY <1>1, <1>2
  <2> QED
    BY <2>1, <1>3 DEF ClosedOf
<1>7. RingOf(o, L - 1, nx2, pv2)
  BY <1>4, <1>5, <1>6 DEF RingOf
<1>8. Ring(o, nx2, pv2)
  BY <1>2, <1>7, RingIs, Zenon
<1> QED
  BY <1>8 DEF o, nx2, pv2

\* remove_back unlinks the last of several nodes.
LEMMA RemoveBackRing ==
  ASSUME NEW s \in Seq(Node), NEW L, L = Len(s), L > 1,
         NEW nx \in Links, NEW pv \in Links, Ring(s, nx, pv)
  PROVE  Ring(SubSeq(s, 1, L - 1), [nx EXCEPT ![s[L - 1]] = s[1]],
                                   [pv EXCEPT ![s[1]] = s[L - 1]])
<1> DEFINE nx2 == [nx EXCEPT ![s[L - 1]] = s[1]]
           pv2 == [pv EXCEPT ![s[1]] = s[L - 1]]
           o == SubSeq(s, 1, L - 1)
<1>1. L \in Nat /\ s \in [1 .. L -> Node] /\ RingOf(s, L, nx, pv) /\ s # <<>>
  BY Positions, RingIs
<1>2. o \in Seq(Node) /\ Len(o) = L - 1 /\ \A k \in 1 .. L - 1 : o[k] = s[k]
  BY <1>1, BackRemoved
<1> HIDE DEF o
<1>3. /\ nx2[s[L - 1]] = s[1] /\ pv2[s[1]] = s[L - 1]
      /\ \A k \in 1 .. L - 2 : nx2[s[k]] = s[k + 1] /\ pv2[s[k + 1]] = s[k]
  BY <1>1 DEF Links, RingOf, DistinctOf, ChainOf
<1> HIDE DEF nx2, pv2
<1>4. DistinctOf(o, L - 1)
  BY <1>1, <1>2 DEF RingOf, DistinctOf
<1>5. ChainOf(o, L - 1, nx2, pv2)
  BY <1>1, <1>2, <1>3 DEF ChainOf
<1>6. ClosedOf(o, L - 1, nx2, pv2)
  BY <1>1, <1>2, <1>3 DEF ClosedOf
<1>7. RingOf(o, L - 1, nx2, pv2)
  BY <1>4, <1>5, <1>6 DEF RingOf
<1>8. Ring(o, nx2, pv2)
  BY <1>2, <1>7, RingIs, Zenon
<1> QED
  BY <1>8 DEF o, nx2, pv2

\* The rest of a chain of distinct nodes is one.
LEMMA TailChain ==
  ASSUME NEW s \in Seq(Node), s # <<>>, NEW nx, NEW pv, Distinct(s), Chain(s, nx, pv)
  PROVE  Distinct(Tail(s)) /\ Chain(Tail(s), nx, pv)
<1> DEFINE L == Len(s)
           o == Tail(s)
<1>1. L \in Nat /\ L > 0 /\ DistinctOf(s, L) /\ ChainOf(s, L, nx, pv)
  BY Positions, PartsOf
<1>2. o \in Seq(Node) /\ Len(o) = L - 1 /\ \A k \in 1 .. L - 1 : o[k] = s[k + 1]
  BY FrontRemoved
<1> HIDE DEF o, L
<1>3. DistinctOf(o, L - 1)
  BY <1>1, <1>2 DEF DistinctOf
<1>4. ChainOf(o, L - 1, nx, pv)
  <2>1. \A k \in 1 .. L - 2 : nx[s[k + 1]] = s[(k + 1) + 1] /\ pv[s[(k + 1) + 1]] = s[k + 1]
    BY <1>1 DEF ChainOf
  <2>2. \A k \in 1 .. L - 2 : o[k] = s[k + 1] /\ o[k + 1] = s[(k + 1) + 1]
    BY <1>1, <1>2
  <2>3. (L - 1) - 1 = L - 2
    BY <1>1
  <2> QED
    BY <2>1, <2>2, <2>3 DEF ChainOf
<1>5. Distinct(o) /\ Chain(o, nx, pv)
  BY <1>2, <1>3, <1>4, PartsOf, Zenon
<1> QED
  BY <1>5 DEF o

-----------------------------------------------------------------------------
(* The set of nodes.                                                        *)

\* A push adds the node to the elements.
LEMMA AddedElements ==
  ASSUME NEW s \in Seq(Node), NEW n \in Node
  PROVE  /\ Elements(<<n>> \o s) = Elements(s) \union {n}
         /\ Elements(Append(s, n)) = Elements(s) \union {n}
<1> DEFINE L == Len(s)
           f == <<n>> \o s
           b == Append(s, n)
<1>1. L \in Nat
  BY Positions
<1>2. Len(f) = L + 1 /\ f[1] = n /\ \A k \in 1 .. L : f[k + 1] = s[k]
  BY FrontAdded
<1>3. Len(b) = L + 1 /\ b[L + 1] = n /\ \A k \in 1 .. L : b[k] = s[k]
  BY BackAdded
<1>4. /\ Elements(s) = { s[k] : k \in 1 .. L }
      /\ Elements(f) = { f[k] : k \in 1 .. L + 1 }
      /\ Elements(b) = { b[k] : k \in 1 .. L + 1 }
  BY <1>2, <1>3, Zenon DEF Elements
<1> HIDE DEF f, b, L
<1>5. \A k \in 1 .. L + 1 : k = 1 \/ (k - 1 \in 1 .. L /\ (k - 1) + 1 = k)
  BY <1>1
<1>6. Elements(f) = Elements(s) \union {n}
  <2>1. \A k \in 1 .. L + 1 : f[k] \in Elements(s) \union {n}
    <3> TAKE k \in 1 .. L + 1
    <3>1. CASE k = 1
      BY <3>1, <1>2
    <3>2. CASE k - 1 \in 1 .. L /\ (k - 1) + 1 = k
      <4>1. f[k] = s[k - 1]
        BY <3>2, <1>2
      <4> QED
        BY <4>1, <3>2, <1>4
    <3> QED
      BY <3>1, <3>2, <1>5
  <2>2. \A e \in Elements(s) \union {n} : e \in Elements(f)
    BY <1>1, <1>2, <1>4
  <2> QED
    BY <1>4, <2>1, <2>2
<1>7. Elements(b) = Elements(s) \union {n}
  BY <1>1, <1>3, <1>4
<1> QED
  BY <1>6, <1>7 DEF f, b

\* A removal takes the node it frees out of the elements.
LEMMA RemovedElements ==
  ASSUME NEW s \in Seq(Node), s # <<>>, Distinct(s), NEW L, L = Len(s)
  PROVE  /\ Elements(Tail(s)) = Elements(s) \ {s[1]}
         /\ Elements(SubSeq(s, 1, L - 1)) = Elements(s) \ {s[L]}
<1> DEFINE o == Tail(s)
           b == SubSeq(s, 1, L - 1)
<1>1. L \in Nat /\ L > 0 /\ DistinctOf(s, L)
  BY Positions, PartsOf
<1>2. Len(o) = L - 1 /\ \A k \in 1 .. L - 1 : o[k] = s[k + 1]
  BY FrontRemoved
<1>3. Len(b) = L - 1 /\ \A k \in 1 .. L - 1 : b[k] = s[k]
  BY BackRemoved
<1>4. /\ Elements(s) = { s[k] : k \in 1 .. L }
      /\ Elements(o) = { o[k] : k \in 1 .. L - 1 }
      /\ Elements(b) = { b[k] : k \in 1 .. L - 1 }
  BY <1>2, <1>3, Zenon DEF Elements
<1> HIDE DEF o, b
<1>5. Elements(o) = Elements(s) \ {s[1]}
  <2>1. \A e \in Elements(o) : e \in Elements(s) /\ e # s[1]
    <3>1. \A k \in 1 .. L - 1 : k + 1 \in 1 .. L /\ k + 1 # 1 /\ 1 \in 1 .. L
      BY <1>1
    <3>2. \A k \in 1 .. L - 1 : s[k + 1] \in Elements(s) /\ s[k + 1] # s[1]
      BY <1>1, <1>4, <3>1 DEF DistinctOf
    <3> QED
      BY <1>2, <1>4, <3>2
  <2>2. \A k \in 1 .. L : s[k] = s[1] \/ s[k] \in Elements(o)
    <3> TAKE k \in 1 .. L
    <3>1. CASE k = 1
      BY <3>1
    <3>2. CASE k > 1
      <4>1. k - 1 \in 1 .. L - 1 /\ (k - 1) + 1 = k
        BY <1>1, <3>2
      <4> QED
        BY <4>1, <1>2, <1>4
    <3> QED
      BY <3>1, <3>2
  <2> QED
    BY <1>4, <2>1, <2>2, SMTT(30)
<1>6. Elements(b) = Elements(s) \ {s[L]}
  BY <1>1, <1>3, <1>4 DEF DistinctOf
<1> QED
  BY <1>5, <1>6 DEF o, b

-----------------------------------------------------------------------------
(* The ends of a sequence, named so that what is proved about the states    *)
(* need not speak of positions.                                             *)

Size(s)    == Len(s)
First(s)   == s[1]
Second(s)  == s[2]
Last(s)    == s[Len(s)]
ButLast(s) == s[Len(s) - 1]
Body(s)    == SubSeq(s, 1, Len(s) - 1)

\* The pointers that lead from one end of a ring to the other and to the
\* neighbours of the ends.
LEMMA RingEnds ==
  ASSUME NEW s \in Seq(Node), s # <<>>, NEW nx, NEW pv, Ring(s, nx, pv)
  PROVE  /\ Size(s) \in Nat /\ Size(s) > 0
         /\ Elements(s) \subseteq Node
         /\ First(s) \in Elements(s) /\ Last(s) \in Elements(s)
         /\ nx[Last(s)] = First(s) /\ pv[First(s)] = Last(s)
         /\ Size(s) # 1 => /\ nx[First(s)] = Second(s) /\ Second(s) \in Elements(s)
                           /\ pv[Last(s)] = ButLast(s) /\ ButLast(s) \in Elements(s)
         /\ \A e \in Elements(s) : nx[e] \in Elements(s)
<1> DEFINE L == Len(s)
<1>1. L \in Nat /\ L > 0 /\ s \in [1 .. L -> Node] /\ RingOf(s, L, nx, pv)
  BY Positions, RingIs
<1>2. Elements(s) = { s[k] : k \in 1 .. L }
  BY DEF Elements
<1>3. Size(s) = L /\ First(s) = s[1] /\ Second(s) = s[2] /\ Last(s) = s[L] /\ ButLast(s) = s[L - 1]
  BY Zenon DEF Size, First, Second, Last, ButLast
<1> HIDE DEF L
<1>4. nx[s[L]] = s[1] /\ pv[s[1]] = s[L]
  BY <1>1 DEF RingOf, ClosedOf
<1>5. L # 1 => nx[s[1]] = s[2] /\ pv[s[L]] = s[L - 1]
  <2>1. L # 1 => 1 \in 1 .. L - 1 /\ L - 1 \in 1 .. L - 1 /\ (L - 1) + 1 = L /\ 1 + 1 = 2
    BY <1>1
  <2> QED
    BY <1>1, <2>1 DEF RingOf, ChainOf
<1>6. \A k \in 1 .. L : nx[s[k]] \in Elements(s)
  <2> TAKE k \in 1 .. L
  <2>1. CASE k = L
    BY <2>1, <1>1, <1>2, <1>4
  <2>2. CASE k # L
    <3>1. k \in 1 .. L - 1 /\ k + 1 \in 1 .. L
      BY <1>1, <2>2
    <3> QED
      BY <3>1, <1>1, <1>2 DEF RingOf, ChainOf
  <2> QED
    BY <2>1, <2>2
<1>7. 1 \in 1 .. L /\ L \in 1 .. L /\ (L # 1 => 2 \in 1 .. L /\ L - 1 \in 1 .. L)
  BY <1>1
<1> QED
  BY <1>1, <1>2, <1>3, <1>4, <1>5, <1>6, <1>7

\* The ends after a push.
LEMMA PushEnds ==
  ASSUME NEW s \in Seq(Node), NEW n \in Node
  PROVE  /\ <<n>> \o s \in Seq(Node) /\ Append(s, n) \in Seq(Node)
         /\ <<n>> \o s # <<>> /\ Append(s, n) # <<>>
         /\ Size(s) \in Nat
         /\ Size(<<n>> \o s) = Size(s) + 1 /\ Size(Append(s, n)) = Size(s) + 1
         /\ First(<<n>> \o s) = n
         /\ s # <<>> => First(Append(s, n)) = First(s)
         /\ s = <<>> => <<n>> \o s = <<n>> /\ Append(s, n) = <<n>>
<1> DEFINE L == Len(s)
           f == <<n>> \o s
           b == Append(s, n)
<1>1. L \in Nat /\ (s # <<>> => L > 0)
  BY Positions
<1>2. f \in Seq(Node) /\ Len(f) = L + 1 /\ f[1] = n
  BY FrontAdded
<1>3. b \in Seq(Node) /\ Len(b) = L + 1 /\ \A k \in 1 .. L : b[k] = s[k]
  BY BackAdded
<1>4. Size(s) = L /\ Size(f) = L + 1 /\ Size(b) = L + 1
  BY <1>2, <1>3, Zenon DEF Size
<1>5. First(f) = n /\ (s # <<>> => First(b) = First(s))
  BY <1>1, <1>2, <1>3 DEF First
<1>6. s = <<>> => f = <<n>> /\ b = <<n>>
  OBVIOUS
<1>7. f # <<>> /\ b # <<>>
  BY <1>1, <1>2, <1>3, EmptySeq
<1> QED
  BY <1>1, <1>2, <1>3, <1>4, <1>5, <1>6, <1>7, Zenon DEF f, b

\* The ends after a removal.
LEMMA RemoveEnds ==
  ASSUME NEW s \in Seq(Node), s # <<>>
  PROVE  /\ Tail(s) \in Seq(Node) /\ Body(s) \in Seq(Node)
         /\ Size(s) \in Nat /\ Size(s) > 0
         /\ Size(Tail(s)) = Size(s) - 1 /\ Size(Body(s)) = Size(s) - 1
         /\ Size(s) = 1 <=> Tail(s) = <<>>
         /\ Size(s) = 1 <=> Body(s) = <<>>
         /\ Size(s) # 1 => First(Tail(s)) = Second(s) /\ First(Body(s)) = First(s)
<1> DEFINE L == Len(s)
           o == Tail(s)
           b == Body(s)
<1>1. L \in Nat /\ L > 0
  BY Positions
<1>2. o \in Seq(Node) /\ Len(o) = L - 1 /\ \A k \in 1 .. L - 1 : o[k] = s[k + 1]
  BY FrontRemoved
<1>3. b \in Seq(Node) /\ Len(b) = L - 1 /\ \A k \in 1 .. L - 1 : b[k] = s[k]
  BY BackRemoved DEF Body
<1> HIDE DEF o, b, L
<1>4. Size(s) = L /\ Size(o) = L - 1 /\ Size(b) = L - 1
  BY <1>2, <1>3, Zenon DEF Size, L
<1>5. (o # <<>> <=> L - 1 > 0) /\ (b # <<>> <=> L - 1 > 0)
  BY <1>2, <1>3, Positions, Zenon
<1>6. L # 1 => First(o) = Second(s) /\ First(b) = First(s)
  BY <1>1, <1>2, <1>3 DEF First, Second
<1> QED
  BY <1>1, <1>2, <1>3, <1>4, <1>5, <1>6 DEF o, b

\* While empty_list frees the nodes the chain is not closed any more, but its
\* first two nodes and the link to the third are there.
LEMMA ChainEnds ==
  ASSUME NEW s \in Seq(Node), s # <<>>, NEW nx, NEW pv, Chain(s, nx, pv)
  PROVE  /\ Elements(s) \subseteq Node
         /\ First(s) \in Elements(s)
         /\ Size(s) > 1 => Second(s) \in Elements(s) /\ First(Tail(s)) = Second(s)
         /\ Size(s) > 2 => nx[Second(s)] = Second(Tail(s))
<1> DEFINE L == Len(s)
           o == Tail(s)
<1>1. L \in Nat /\ L > 0 /\ s \in [1 .. L -> Node] /\ ChainOf(s, L, nx, pv)
  BY Positions, PartsOf
<1>2. Elements(s) = { s[k] : k \in 1 .. L }
  BY DEF Elements
<1>3. Size(s) = L /\ First(s) = s[1] /\ Second(s) = s[2] /\ First(o) = o[1] /\ Second(o) = o[2]
  BY Zenon DEF Size, First, Second
<1>4. \A k \in 1 .. L - 1 : o[k] = s[k + 1]
  BY FrontRemoved
<1> HIDE DEF L, o
<1>5. L > 1 => 2 \in 1 .. L /\ o[1] = s[2]
  BY <1>1, <1>4
<1>6. L > 2 => nx[s[2]] = o[2]
  <2>1. L > 2 => 2 \in 1 .. L - 1 /\ 2 + 1 = 3
    BY <1>1
  <2> QED
    BY <1>1, <1>4, <2>1 DEF ChainOf
<1>7. 1 \in 1 .. L
  BY <1>1
<1> QED
  BY <1>1, <1>2, <1>3, <1>5, <1>6, <1>7 DEF o

\* The list without nodes.
LEMMA NoNodes ==
  ASSUME NEW nx, NEW pv
  PROVE  /\ <<>> \in Seq(Node) /\ Size(<<>>) = 0 /\ Elements(<<>>) = {}
         /\ Ring(<<>>, nx, pv)
BY DEF Size, Elements, Ring, Distinct, Chain, Closed

\* Links that agree on the nodes of a chain or a ring leave it one.
LEMMA SameLinks ==
  ASSUME NEW s \in Seq(Node), NEW nx, NEW pv, NEW nx2, NEW pv2,
         \A e \in Elements(s) : nx2[e] = nx[e] /\ pv2[e] = pv[e]
  PROVE  /\ Chain(s, nx, pv) => Chain(s, nx2, pv2)
         /\ Closed(s, nx, pv) => Closed(s, nx2, pv2)
<1> DEFINE L == Len(s)
<1>1. L \in Nat /\ Elements(s) = { s[k] : k \in 1 .. L }
  BY Positions DEF Elements
<1>2. /\ Chain(s, nx, pv) <=> ChainOf(s, L, nx, pv)
      /\ Closed(s, nx, pv) <=> ClosedOf(s, L, nx, pv)
      /\ Chain(s, nx2, pv2) <=> ChainOf(s, L, nx2, pv2)
      /\ Closed(s, nx2, pv2) <=> ClosedOf(s, L, nx2, pv2)
  BY PartsOf, Zenon
<1> HIDE DEF L
<1>3. \A k \in 1 .. L : nx2[s[k]] = nx[s[k]] /\ pv2[s[k]] = pv[s[k]]
  BY <1>1
<1>4. \A k \in 1 .. L - 1 : k \in 1 .. L /\ k + 1 \in 1 .. L
  BY <1>1
<1>5. ChainOf(s, L, nx, pv) => ChainOf(s, L, nx2, pv2)
  BY <1>3, <1>4 DEF ChainOf
<1>6. ClosedOf(s, L, nx, pv) => ClosedOf(s, L, nx2, pv2)
  BY <1>1, <1>3 DEF ClosedOf
<1> QED
  BY <1>2, <1>5, <1>6

-----------------------------------------------------------------------------
(* The payloads of a sequence of nodes.                                     *)

Loads(s, d) == [k \in 1 .. Len(s) |-> d[s[k]]]

\* As many payloads as nodes, in the order of the nodes.
LEMMA LoadsAre ==
  ASSUME NEW d \in [Node -> Data], NEW s \in Seq(Node)
  PROVE  /\ Loads(s, d) \in Seq(Data)
         /\ Len(Loads(s, d)) = Len(s)
         /\ \A k \in 1 .. Len(s) : Loads(s, d)[k] = d[s[k]] /\ s[k] \in Node
         /\ Loads(s, d) = <<>> <=> s = <<>>
<1> DEFINE L == Len(s)
           p == Loads(s, d)
<1>1. L \in Nat /\ s \in [1 .. L -> Node] /\ (s # <<>> <=> L > 0)
  BY Positions
<1>2. p = [k \in 1 .. L |-> d[s[k]]]
  BY Zenon DEF Loads
<1> HIDE DEF L, p
<1>3. p \in [1 .. L -> Data]
  BY <1>1, <1>2
<1>4. p \in Seq(Data) /\ Len(p) = L
  BY <1>1, <1>3
<1>5. p # <<>> <=> L > 0
  <2>1. L = 0 => p = <<>>
    BY <1>4
  <2> QED
    BY <1>1, <1>4, <2>1, EmptySeq
<1>6. \A k \in 1 .. L : p[k] = d[s[k]] /\ s[k] \in Node
  BY <1>1, <1>2
<1> QED
  BY <1>1, <1>4, <1>5, <1>6 DEF L, p

\* A sequence of that length with those elements is the payloads.
LEMMA LoadsUnique ==
  ASSUME NEW d \in [Node -> Data], NEW s \in Seq(Node), NEW c \in Seq(Data),
         Len(c) = Len(s), \A k \in 1 .. Len(s) : c[k] = d[s[k]]
  PROVE  c = Loads(s, d)
<1> DEFINE p == Loads(s, d)
<1>1. /\ p \in Seq(Data) /\ Len(p) = Len(s)
      /\ \A k \in 1 .. Len(s) : p[k] = d[s[k]]
  BY LoadsAre
<1> HIDE DEF p
<1>2. Len(c) = Len(p) /\ \A k \in 1 .. Len(c) : c[k] = p[k]
  BY <1>1
<1>3. c = p
  BY <1>1, <1>2, SeqEqual
<1> QED
  BY <1>3 DEF p

\* A node put in front or at the back brings its payload there.
LEMMA LoadsAdded ==
  ASSUME NEW d \in [Node -> Data], NEW s \in Seq(Node), NEW n \in Node
  PROVE  /\ Loads(<<n>> \o s, d) = <<d[n]>> \o Loads(s, d)
         /\ Loads(Append(s, n), d) = Append(Loads(s, d), d[n])
<1> DEFINE L == Len(s)
           p == Loads(s, d)
           f == <<n>> \o s
           b == Append(s, n)
           cf == <<d[n]>> \o p
           cb == Append(p, d[n])
<1>1. L \in Nat /\ p \in Seq(Data) /\ Len(p) = L /\ \A k \in 1 .. L : p[k] = d[s[k]]
  BY Positions, LoadsAre
<1>2. /\ f \in Seq(Node) /\ Len(f) = L + 1 /\ f[1] = n /\ \A k \in 1 .. L : f[k + 1] = s[k]
      /\ b \in Seq(Node) /\ Len(b) = L + 1 /\ b[L + 1] = n /\ \A k \in 1 .. L : b[k] = s[k]
  BY FrontAdded, BackAdded
<1>3. d[n] \in Data
  OBVIOUS
<1>4. /\ <<d[n]>> \in Seq(Data) /\ Len(<<d[n]>>) = 1 /\ <<d[n]>>[1] = d[n]
  BY <1>3
<1> HIDE DEF L, p
<1>5. /\ cf \in Seq(Data) /\ Len(cf) = 1 + L
      /\ \A k \in 1 .. 1 + L : cf[k] = IF k <= 1 THEN <<d[n]>>[k] ELSE p[k - 1]
  BY <1>1, <1>4, ConcatProperties
<1>6. /\ cb \in Seq(Data) /\ Len(cb) = L + 1 /\ cb[L + 1] = d[n]
      /\ \A k \in 1 .. L : cb[k] = p[k]
  BY <1>1, <1>3, AppendProperties
<1> HIDE DEF f, b, cf, cb
<1>7. \A k \in 1 .. L + 1 : cf[k] = d[f[k]]
  <2> TAKE k \in 1 .. L + 1
  <2>1. CASE k = 1
    BY <1>1, <1>2, <1>4, <1>5, <2>1
  <2>2. CASE k # 1
    <3>1. k - 1 \in 1 .. L /\ (k - 1) + 1 = k /\ ~(k <= 1) /\ k \in 1 .. 1 + L
      BY <1>1, <2>2
    <3> QED
      BY <1>1, <1>2, <1>5, <3>1
  <2> QED
    BY <2>1, <2>2
<1>8. \A k \in 1 .. L + 1 : cb[k] = d[b[k]]
  <2> TAKE k \in 1 .. L + 1
  <2>1. CASE k = L + 1
    BY <1>2, <1>6, <2>1
  <2>2. CASE k # L + 1
    <3>1. k \in 1 .. L
      BY <1>1, <2>2
    <3> QED
      BY <1>1, <1>2, <1>6, <3>1
  <2> QED
    BY <2>1, <2>2
<1>9. 1 + L = L + 1
  BY <1>1
<1>10. cf = Loads(f, d)
  BY <1>2, <1>5, <1>7, <1>9, LoadsUnique
<1>11. cb = Loads(b, d)
  BY <1>2, <1>6, <1>8, LoadsUnique
<1> QED
  BY <1>10, <1>11 DEF f, b, cf, cb, p

\* A node taken away at an end takes its payload with it.
LEMMA LoadsRemoved ==
  ASSUME NEW d \in [Node -> Data], NEW s \in Seq(Node), s # <<>>
  PROVE  /\ Loads(Tail(s), d) = Tail(Loads(s, d))
         /\ Loads(Body(s), d) = SubSeq(Loads(s, d), 1, Len(Loads(s, d)) - 1)
         /\ Head(Loads(s, d)) = d[First(s)]
         /\ Loads(s, d)[Len(Loads(s, d))] = d[Last(s)]
<1> DEFINE L == Len(s)
           p == Loads(s, d)
           o == Tail(s)
           b == Body(s)
           co == Tail(p)
           cb == SubSeq(p, 1, L - 1)
<1>1. /\ L \in Nat /\ L > 0 /\ p \in Seq(Data) /\ Len(p) = L /\ p # <<>>
      /\ \A k \in 1 .. L : p[k] = d[s[k]] /\ p[k] \in Data
  BY Positions, LoadsAre
<1>2. o \in Seq(Node) /\ Len(o) = L - 1 /\ \A k \in 1 .. L - 1 : o[k] = s[k + 1]
  BY FrontRemoved
<1>3. b \in Seq(Node) /\ Len(b) = L - 1 /\ \A k \in 1 .. L - 1 : b[k] = s[k]
  BY BackRemoved DEF Body
<1>4. First(s) = s[1] /\ Last(s) = s[L]
  BY Zenon DEF First, Last
<1> HIDE DEF L, p
<1>5. co \in Seq(Data) /\ Len(co) = L - 1 /\ \A k \in 1 .. L - 1 : co[k] = p[k + 1]
  BY <1>1, HeadTailProperties
<1>6. cb \in Seq(Data) /\ Len(cb) = L - 1 /\ \A k \in 1 .. L - 1 : cb[k] = p[k]
  <2>1. /\ 1 \in Int /\ L - 1 \in Int /\ \A k \in 1 .. L - 1 : p[k] \in Data
        /\ (IF 1 <= L - 1 THEN L - 1 - 1 + 1 ELSE 0) = L - 1
        /\ L - 1 - 1 + 1 = L - 1
        /\ \A k \in 1 .. L - 1 : 1 + k - 1 = k
    BY <1>1
  <2>2. /\ cb \in Seq(Data)
        /\ Len(cb) = IF 1 <= L - 1 THEN L - 1 - 1 + 1 ELSE 0
        /\ \A k \in 1 .. L - 1 - 1 + 1 : cb[k] = p[1 + k - 1]
    BY <2>1, SubSeqProperties
  <2> QED
    BY <2>1, <2>2
<1>7. Head(p) = p[1]
  BY <1>1
<1> HIDE DEF o, b, co, cb
<1>8. \A k \in 1 .. L - 1 : k + 1 \in 1 .. L /\ k \in 1 .. L
  BY <1>1
<1>9. co = Loads(o, d)
  <2>1. \A k \in 1 .. L - 1 : co[k] = d[o[k]]
    <3> TAKE k \in 1 .. L - 1
    <3>1. co[k] = p[k + 1] /\ o[k] = s[k + 1]
      BY <1>2, <1>5
    <3>2. p[k + 1] = d[s[k + 1]]
      BY <1>1, <1>8
    <3> QED
      BY <3>1, <3>2
  <2>2. Len(co) = Len(o) /\ \A k \in 1 .. Len(o) : co[k] = d[o[k]]
    BY <1>2, <1>5, <2>1, Zenon
  <2> QED
    BY <1>2, <1>5, <2>2, LoadsUnique
<1>10. cb = Loads(b, d)
  <2>1. Len(cb) = Len(b) /\ \A k \in 1 .. Len(b) : cb[k] = d[b[k]]
    BY <1>1, <1>3, <1>6, <1>8
  <2> QED
    BY <1>3, <1>6, <2>1, LoadsUnique
<1>11. Head(p) = d[First(s)] /\ p[L] = d[Last(s)]
  BY <1>1, <1>4, <1>7
<1> QED
  BY <1>1, <1>9, <1>10, <1>11 DEF o, b, co, cb, p

\* What is seen and what is left stay together when one payload moves over.
LEMMA MovedOver ==
  ASSUME NEW x \in Seq(Data), NEW y \in Seq(Data), y # <<>>
  PROVE  Append(x, Head(y)) \o Tail(y) = x \o y
<1> DEFINE a == Append(x, Head(y))
           z == Tail(y)
           m == Len(x)
           n == Len(y)
           l == a \o z
           r == x \o y
<1>1. m \in Nat /\ n \in Nat /\ n > 0 /\ Head(y) = y[1] /\ Head(y) \in Data
  BY HeadTailProperties, LenProperties, EmptySeq
<1>2. /\ a \in Seq(Data) /\ Len(a) = m + 1 /\ a[m + 1] = y[1]
      /\ \A k \in 1 .. m : a[k] = x[k]
  BY <1>1, AppendProperties
<1>3. z \in Seq(Data) /\ Len(z) = n - 1 /\ \A k \in 1 .. n - 1 : z[k] = y[k + 1]
  BY HeadTailProperties
<1> HIDE DEF a, z, m, n
<1>4. /\ l \in Seq(Data) /\ Len(l) = (m + 1) + (n - 1)
      /\ \A k \in 1 .. (m + 1) + (n - 1) :
           l[k] = IF k <= m + 1 THEN a[k] ELSE z[k - (m + 1)]
  <2>1. /\ l \in Seq(Data) /\ Len(l) = Len(a) + Len(z)
        /\ \A k \in 1 .. Len(a) + Len(z) :
             l[k] = IF k <= Len(a) THEN a[k] ELSE z[k - Len(a)]
    BY <1>2, <1>3, ConcatProperties
  <2> QED
    BY <1>2, <1>3, <2>1, Zenon
<1>5. /\ r \in Seq(Data) /\ Len(r) = m + n
      /\ \A k \in 1 .. m + n : r[k] = IF k <= m THEN x[k] ELSE y[k - m]
  BY ConcatProperties DEF m, n
<1> HIDE DEF l, r
<1>6. (m + 1) + (n - 1) = m + n
  BY <1>1
<1>7. \A k \in 1 .. m + n : l[k] = r[k]
  <2> TAKE k \in 1 .. m + n
  <2>1. CASE k <= m
    <3>1. k \in 1 .. m /\ k <= m + 1
      BY <1>1, <2>1
    <3> QED
      BY <1>2, <1>4, <1>5, <1>6, <2>1, <3>1
  <2>2. CASE k = m + 1
    <3>1. k <= m + 1 /\ ~(k <= m) /\ k - m = 1
      BY <1>1, <2>2
    <3> QED
      BY <1>2, <1>4, <1>5, <1>6, <2>2, <3>1
  <2>3. CASE k > m + 1
    <3>1. /\ ~(k <= m + 1) /\ ~(k <= m) /\ k - (m + 1) \in 1 .. n - 1
          /\ (k - (m + 1)) + 1 = k - m
      BY <1>1, <2>3
    <3> QED
      BY <1>3, <1>4, <1>5, <1>6, <3>1
  <2> QED
    BY <1>1, <2>1, <2>2, <2>3
<1>8. l = r
  BY <1>4, <1>5, <1>6, <1>7, SeqEqual
<1> QED
  BY <1>8 DEF l, r, a, z

-----------------------------------------------------------------------------
(* Where a walk around the ring is.                                         *)

At(s, k) == s[IF k = Len(s) THEN 1 ELSE k + 1]

\* The walk starts at the front, follows next and comes back to the front.
LEMMA AroundTheRing ==
  ASSUME NEW s \in Seq(Node), s # <<>>, NEW nx, NEW pv, Ring(s, nx, pv)
  PROVE  /\ At(s, 0) = First(s)
         /\ \A k \in Nat : k < Size(s) => nx[At(s, k)] = At(s, k + 1) /\ At(s, k) = s[k + 1]
<1> DEFINE L == Len(s)
<1>1. L \in Nat /\ L > 0 /\ RingOf(s, L, nx, pv)
  BY Positions, RingIs
<1>2. Size(s) = L /\ First(s) = s[1] /\ \A k : At(s, k) = s[IF k = L THEN 1 ELSE k + 1]
  BY Zenon DEF Size, First, At
<1> HIDE DEF L
<1>3. At(s, 0) = First(s)
  BY <1>1, <1>2
<1>4. ASSUME NEW k \in Nat, k < L
      PROVE  nx[At(s, k)] = At(s, k + 1) /\ At(s, k) = s[k + 1]
  <2>1. At(s, k) = s[k + 1]
    BY <1>1, <1>2, <1>4
  <2>2. CASE k + 1 = L
    <3>1. At(s, k + 1) = s[1]
      BY <1>2, <2>2
    <3> QED
      BY <1>1, <2>1, <2>2, <3>1 DEF RingOf, ClosedOf
  <2>3. CASE k + 1 # L
    <3>1. At(s, k + 1) = s[(k + 1) + 1] /\ k + 1 \in 1 .. L - 1
      BY <1>1, <1>2, <1>4, <2>3
    <3> QED
      BY <1>1, <2>1, <3>1 DEF RingOf, ChainOf
  <2> QED
    BY <2>2, <2>3
<1> QED
  BY <1>2, <1>3, <1>4

\* The payload of the node a walk of k turns reaches.
LEMMA LoadAt ==
  ASSUME NEW d \in [Node -> Data], NEW s \in Seq(Node), s # <<>>, NEW k \in 0 .. Size(s)
  PROVE  Abstract!Indexed(Loads(s, d), k) = <<d[At(s, k)]>>
<1> DEFINE L == Len(s)
           p == Loads(s, d)
           j == IF k = L THEN 1 ELSE k + 1
<1>1. /\ L \in Nat /\ L > 0 /\ Len(p) = L /\ p # <<>>
      /\ \A m \in 1 .. L : p[m] = d[s[m]]
  BY Positions, LoadsAre
<1>2. At(s, k) = s[j]
  BY Zenon DEF At
<1>3. k \in 0 .. L
  BY Zenon DEF Size
<1> HIDE DEF L, p
<1>4. j \in 1 .. L /\ ~(L < k)
  BY <1>1, <1>3
<1>5. Abstract!Indexed(p, k) = <<p[j]>>
  BY <1>1, <1>4 DEF Abstract!Indexed
<1> QED
  BY <1>1, <1>2, <1>4, <1>5 DEF p

-----------------------------------------------------------------------------
(* The threads.                                                             *)

Label == {"idle", "lock", "enter", "write", "walk", "unlock", "fetch"}

\* Between its lock and its unlock.
Critical(t) == pc[t] \in {"enter", "write", "walk", "unlock"}

\* A thread is in the part of a function that its op has.
InItsFunction(t) ==
  /\ pc[t] = "idle" <=> op[t] = "none"
  /\ op[t] # "none" => op[t] \in Ops[t]
  /\ pc[t] = "write" => op[t] \in Pushes \union {"remove_front", "remove_back"}
  /\ pc[t] = "walk"  => op[t] \in {"empty_list", "traverse", "get_node_data_at_index"}
  /\ pc[t] = "fetch" => op[t] = "get_node_data_at_index"

Control ==
  /\ mutex \in Threads \union {NULL}
  /\ pc \in [Threads -> Label]
  /\ op \in [Threads -> OpNames \union {"none"}]
  /\ \A t \in Threads : Critical(t) <=> mutex = t
  /\ \A t \in Threads : InItsFunction(t)

\* Control after a step of thread t that leaves the others where they are.
LEMMA ControlOfOne ==
  ASSUME Control, NEW t \in Threads, NEW l \in Label, NEW o \in OpNames \union {"none"},
         pc' = [pc EXCEPT ![t] = l], op' = [op EXCEPT ![t] = o],
         mutex' \in Threads \union {NULL},
         Critical(t)' <=> mutex' = t,
         \A u \in Threads \ {t} : mutex = u <=> mutex' = u,
         InItsFunction(t)'
  PROVE  Control'
<1>1. pc' \in [Threads -> Label] /\ op' \in [Threads -> OpNames \union {"none"}]
  BY DEF Control
<1>2. \A u \in Threads \ {t} : pc'[u] = pc[u] /\ op'[u] = op[u]
  BY DEF Control
<1>3. \A u \in Threads \ {t} : Critical(u)' <=> mutex' = u
  BY <1>2 DEF Control, Critical
<1>4. \A u \in Threads \ {t} : InItsFunction(u)'
  BY <1>2 DEF Control, InItsFunction
<1> QED
  BY <1>1, <1>3, <1>4 DEF Control

\* At the start every thread is idle and the mutex free.
LEMMA ControlInit == Init => Control
BY NullIsNoAddress DEF Init, Control, Critical, InItsFunction, Label

\* The call, the lock, the unlock and the read after it.
LEMMA ControlCalls ==
  ASSUME Control, NEW t \in Threads, CallPush(t) \/ CallOther(t) \/ Lock(t) \/ Unlock(t) \/ Fetch(t)
  PROVE  Control'
<1> USE NullIsNoAddress, OpsAreOperations
<1>1. CASE CallPush(t) \/ CallOther(t)
  <2>1. PICK o \in Ops[t] : op' = [op EXCEPT ![t] = o]
    BY <1>1 DEF CallPush, CallOther
  <2>2. o \in OpNames /\ o # "none"
    BY DEF OpNames, Pushes, Removals, Reads
  <2>3. /\ pc[t] = "idle" /\ pc' = [pc EXCEPT ![t] = "lock"] /\ mutex' = mutex
    BY <1>1 DEF CallPush, CallOther, header
  <2>4. pc'[t] = "lock" /\ op'[t] = o
    BY <2>1, <2>3 DEF Control
  <2>5. InItsFunction(t)' /\ (Critical(t)' <=> mutex' = t)
    BY <2>2, <2>3, <2>4 DEF Control, InItsFunction, Critical
  <2> QED
    BY <2>1, <2>2, <2>3, <2>5, ControlOfOne DEF Control, Label
<1>2. CASE Lock(t)
  <2>1. /\ pc[t] = "lock" /\ mutex = NULL /\ mutex' = t
        /\ pc' = [pc EXCEPT ![t] = "enter"] /\ op' = op
    BY <1>2 DEF Lock, locals
  <2>2. pc'[t] = "enter" /\ op'[t] = op[t] /\ op' = [op EXCEPT ![t] = op[t]]
    BY <2>1 DEF Control
  <2>3. InItsFunction(t)' /\ (Critical(t)' <=> mutex' = t)
    BY <2>1, <2>2 DEF Control, InItsFunction, Critical
  <2> QED
    BY <2>1, <2>2, <2>3, ControlOfOne, ZenonT(60) DEF Control, Label
<1>3. CASE Unlock(t) \/ Fetch(t)
  <2>1. /\ \A u \in Threads \ {t} : mutex = u <=> mutex' = u
        /\ mutex' \in Threads \union {NULL} /\ mutex' # t
    BY <1>3 DEF Unlock, Fetch, Control, Critical, header
  <2>2. CASE Leave(t)
    <3>1. pc' = [pc EXCEPT ![t] = "idle"] /\ op' = [op EXCEPT ![t] = "none"]
      BY <2>2 DEF Leave
    <3>2. InItsFunction(t)' /\ (Critical(t)' <=> mutex' = t)
      BY <2>1, <3>1 DEF Control, InItsFunction, Critical
    <3> QED
      BY <2>1, <3>1, <3>2, ControlOfOne DEF Label
  <2>3. CASE /\ op[t] = "get_node_data_at_index" /\ pc' = [pc EXCEPT ![t] = "fetch"]
             /\ op' = op /\ pc[t] = "unlock"
    <3>1. op' = [op EXCEPT ![t] = op[t]] /\ op'[t] = op[t] /\ pc'[t] = "fetch"
      BY <2>3 DEF Control
    <3>2. InItsFunction(t)' /\ (Critical(t)' <=> mutex' = t)
      BY <2>1, <2>3, <3>1 DEF Control, InItsFunction, Critical
    <3> QED
      BY <2>1, <2>3, <3>1, <3>2, ControlOfOne DEF Label, Control
  <2> QED
    BY <1>3, <2>2, <2>3 DEF Unlock, Fetch, locals
<1> QED
  BY <1>1, <1>2, <1>3

\* The steps under the lock keep the lock and the function.
LEMMA ControlInside ==
  ASSUME Control, NEW t \in Threads,
         Critical(t), op' = op, mutex' = mutex, NEW l \in {"write", "walk", "unlock"},
         pc' = [pc EXCEPT ![t] = l],
         l = "write" => op[t] \in Pushes \union {"remove_front", "remove_back"},
         l = "walk" => op[t] \in {"empty_list", "traverse", "get_node_data_at_index"}
  PROVE  Control'
<1>1. op' = [op EXCEPT ![t] = op[t]] /\ op'[t] = op[t] /\ pc'[t] = l
  BY DEF Control
<1>2. InItsFunction(t)' /\ (Critical(t)' <=> mutex' = t)
  BY <1>1 DEF Control, InItsFunction, Critical
<1> QED
  BY <1>1, <1>2, ControlOfOne DEF Control, Label

\* How Enter goes on: the label it reaches is one of its function's.
LEMMA EnterGoesOn ==
  ASSUME NEW t \in Threads, Enter(t)
  PROVE  /\ pc[t] = "enter"
         /\ UNCHANGED <<mutex, head, size, next, prev, data, heap, order, op, idx, node, i>>
         /\ \E l \in {"write", "walk", "unlock"} :
              /\ pc' = [pc EXCEPT ![t] = l]
              /\ l = "write" => op[t] \in Pushes \union {"remove_front", "remove_back"}
              /\ l = "walk" => op[t] \in {"empty_list", "traverse", "get_node_data_at_index"}
<1> USE DEF Take, Result, header, nodes
<1>1. CASE EnterPush(t)
  BY <1>1 DEF Enter, EnterPush
<1>2. CASE EnterRemoveFront(t) \/ EnterRemoveBack(t)
  BY <1>2 DEF Enter, EnterRemoveFront, EnterRemoveBack
<1>3. CASE EnterEmptyList(t) \/ EnterTraverse(t) \/ EnterGet(t)
  BY <1>3 DEF Enter, EnterEmptyList, EnterTraverse, EnterGet
<1>4. CASE EnterFront(t) \/ EnterBack(t) \/ EnterIsEmpty(t) \/ EnterSize(t)
  BY <1>4 DEF Enter, EnterFront, EnterBack, EnterIsEmpty, EnterSize
<1> QED
  BY <1>1, <1>2, <1>3, <1>4 DEF Enter

\* What the steps after Enter do to the control state.
LEMMA BodyGoesOn ==
  ASSUME NEW t \in Threads, pc \in [Threads -> Label],
         \/ WritePush(t) \/ WriteRemoveFront(t) \/ WriteRemoveBack(t)
         \/ WalkEmptyList(t) \/ EndEmptyList(t)
         \/ WalkTraverse(t) \/ WalkGet(t) \/ EndWalk(t)
  PROVE  /\ Critical(t)
         /\ mutex' = mutex /\ op' = op
         /\ \/ pc' = [pc EXCEPT ![t] = "unlock"]
            \/ /\ pc' = [pc EXCEPT ![t] = "walk"]
               /\ op[t] \in {"empty_list", "traverse", "get_node_data_at_index"}
<1> USE DEF Critical, header, nodes, locals
<1>1. CASE WritePush(t) \/ WriteRemoveFront(t) \/ WriteRemoveBack(t)
  BY <1>1 DEF WritePush, WriteRemoveFront, WriteRemoveBack, FreeOne
<1>2. CASE EndEmptyList(t) \/ EndWalk(t)
  BY <1>2 DEF EndEmptyList, EndWalk
<1>3. CASE WalkEmptyList(t) \/ WalkTraverse(t) \/ WalkGet(t)
  BY <1>3 DEF WalkEmptyList, WalkTraverse, WalkGet
<1> QED
  BY <1>1, <1>2, <1>3

\* Every step keeps Control.
LEMMA ControlNext == Control /\ [Next]_vars => Control'
<1> SUFFICES ASSUME Control, [Next]_vars
             PROVE  Control'
  OBVIOUS
<1>1. CASE UNCHANGED vars
  BY <1>1 DEF vars, Control, Critical, InItsFunction
<1>2. ASSUME NEW t \in Threads, Step(t)
      PROVE  Control'
  <2>1. CASE CallPush(t) \/ CallOther(t) \/ Lock(t) \/ Unlock(t) \/ Fetch(t)
    BY <2>1, ControlCalls
  <2>2. CASE Enter(t)
    BY <2>2, EnterGoesOn, ControlInside DEF Critical
  <2>3. CASE \/ WritePush(t) \/ WriteRemoveFront(t) \/ WriteRemoveBack(t)
             \/ WalkEmptyList(t) \/ EndEmptyList(t)
             \/ WalkTraverse(t) \/ WalkGet(t) \/ EndWalk(t)
    <3>1. pc \in [Threads -> Label]
      BY DEF Control
    <3> QED
      BY <2>3, <3>1, BodyGoesOn, ControlInside
  <2> QED
    BY <1>2, <2>1, <2>2, <2>3 DEF Step, Inside
<1> QED
  BY <1>1, <1>2 DEF Next

\* The code between the lock and the unlock runs in one thread at a time: what
\* pthread_mutex_lock promises is not undone by an early return or a loop.
THEOREM MutualExclusion ==
  Spec => [](\A t, u \in Threads : Critical(t) /\ Critical(u) => t = u)
<1>1. Control => \A t, u \in Threads : Critical(t) /\ Critical(u) => t = u
  BY DEF Control
<1> QED
  BY <1>1, ControlInit, ControlNext, PTL DEF Spec
-----------------------------------------------------------------------------
(* What holds of the data.                                                  *)

\* A node that is being pushed is in no list and in no other thread's hands.
Fresh ==
  /\ \A t \in Threads : Pushing(t) => node[t] \in Node \ Elements(order)
  /\ \A t, u \in Threads : Pushing(t) /\ Pushing(u) /\ node[t] = node[u] => t = u

\* The neighbours a thread has read before it writes are still the neighbours.
WriteLocals(t) ==
  pc[t] = "write" =>
    /\ op[t] \in Pushes => IF order = <<>> THEN cur[t] = NULL
                           ELSE cur[t] = First(order) /\ oth[t] = Last(order)
    /\ op[t] = "remove_front" => /\ order # <<>> /\ cur[t] = First(order)
                                 /\ size # 1 => oth[t] = Second(order)
    /\ op[t] = "remove_back" => /\ order # <<>> /\ cur[t] = Last(order)
                                /\ size # 1 => oth[t] = ButLast(order)

\* The loops keep their place: empty_list has freed i nodes and holds the next
\* two, the walks stay on the ring.
WalkLocals(t) ==
  pc[t] = "walk" =>
    /\ op[t] = "empty_list" => /\ i[t] + Size(order) = size
                               /\ order # <<>> => cur[t] = First(order)
                               /\ Size(order) > 1 => oth[t] = Second(order)
    /\ op[t] = "traverse" /\ i[t] < size => cur[t] \in Elements(order)
    /\ op[t] = "get_node_data_at_index" => cur[t] \in Elements(order)

\* The node get_node_data_at_index has found is linked until it has been read.
FoundLocals(t) ==
  /\ pc[t] \in {"idle", "lock", "enter"} => cur[t] = NULL /\ i[t] = 0
  /\ pc[t] = "unlock" /\ op[t] = "get_node_data_at_index" /\ cur[t] # NULL =>
       cur[t] \in Elements(order)
  /\ pc[t] = "fetch" => cur[t] \in Elements(order)

Locals(t) == WriteLocals(t) /\ WalkLocals(t) /\ FoundLocals(t)

\* WellFormed and NoLeak, with the positions behind First, Size and Elements.
Shape ==
  /\ Distinct(order) /\ Chain(order, next, prev)
  /\ ~Emptying => /\ Closed(order, next, prev)
                  /\ size = Size(order)
                  /\ head = IF order = <<>> THEN NULL ELSE First(order)

Accounted == heap = Elements(order) \union InFlight

\* The inductive invariant.
IInv ==
  /\ TypeOK
  /\ Control
  /\ Shape
  /\ Fresh
  /\ Accounted
  /\ \A t \in Threads : Locals(t)

\* The thread in the critical section is the only one whose place in the list
\* counts.
LEMMA OneInside ==
  ASSUME Control, NEW t \in Threads, Critical(t)
  PROVE  /\ \A u \in Threads \ {t} : pc[u] \in {"idle", "lock", "fetch"}
         /\ Emptying <=> pc[t] = "walk" /\ op[t] = "empty_list"
<1>1. \A u \in Threads \ {t} : ~Critical(u) /\ pc[u] \in Label
  BY DEF Control
<1>2. \A u \in Threads \ {t} : pc[u] \in {"idle", "lock", "fetch"}
  BY <1>1 DEF Critical, Label
<1> QED
  BY <1>2 DEF Emptying

\* A step that leaves the list, its header and the nodes being pushed alone.
LEMMA Frame ==
  ASSUME IInv, UNCHANGED <<head, size, next, prev, heap, order>>,
         \A u \in Threads : Pushing(u)' <=> Pushing(u),
         \A u \in Threads : Pushing(u) => node'[u] = node[u],
         ~Emptying' => ~Emptying
  PROVE  Shape' /\ Fresh' /\ Accounted'
<1>1. Shape'
  BY DEF IInv, Shape
<1>2. Fresh'
  BY DEF IInv, Fresh
<1>3. InFlight' = InFlight
  BY DEF InFlight
<1>4. Accounted'
  BY <1>3 DEF IInv, Accounted
<1> QED
  BY <1>1, <1>2, <1>4

\* The same step does not touch what the other threads know.
LEMMA FrameLocals ==
  ASSUME IInv, UNCHANGED <<size, order>>, NEW t \in Threads, Locals(t)',
         \A u \in Threads \ {t} : /\ pc'[u] = pc[u] /\ op'[u] = op[u] /\ i'[u] = i[u]
                                  /\ cur'[u] = cur[u] /\ oth'[u] = oth[u]
  PROVE  \A u \in Threads : Locals(u)'
<1>1. \A u \in Threads \ {t} : Locals(u)'
  BY DEF IInv, Locals, WriteLocals, WalkLocals, FoundLocals
<1> QED
  BY <1>1

\* A step that changes the list is taken under the lock: the other threads
\* know nothing of the list but for the node one of them has yet to read.
LEMMA ChangeLocals ==
  ASSUME IInv, NEW t \in Threads, Critical(t), Locals(t)',
         \A u \in Threads \ {t} : /\ pc'[u] = pc[u] /\ op'[u] = op[u] /\ i'[u] = i[u]
                                  /\ cur'[u] = cur[u] /\ oth'[u] = oth[u],
         op[t] \in Removals \/ Elements(order) \subseteq Elements(order')
  PROVE  \A u \in Threads : Locals(u)'
<1> SUFFICES ASSUME NEW u \in Threads \ {t}
             PROVE  Locals(u)'
  OBVIOUS
<1>1. pc[u] \in {"idle", "lock", "fetch"}
  BY OneInside DEF IInv
<1>2. pc[u] = "fetch" => op[t] \notin Removals
  <2> SUFFICES ASSUME pc[u] = "fetch", op[t] \in Removals
               PROVE  FALSE
    OBVIOUS
  <2>1. op[u] = "get_node_data_at_index" /\ op[u] \in Ops[u]
    BY DEF IInv, Control, InItsFunction
  <2>2. op[t] \in Ops[t]
    BY DEF IInv, Control, InItsFunction, Removals
  <2> QED
    BY <2>1, <2>2, IndexedReaderRemovesAlone
<1>3. FoundLocals(u)'
  BY <1>1, <1>2 DEF IInv, Locals, FoundLocals
<1> QED
  BY <1>1, <1>3 DEF Locals, WriteLocals, WalkLocals

-----------------------------------------------------------------------------
(* One lemma for each group of actions.                                     *)

\* push_front and push_back allocate a node nobody else has.
LEMMA CallPushKeeps ==
  ASSUME IInv, Control', NEW t \in Threads, CallPush(t)
  PROVE  IInv'
<1>1. PICK o \in Ops[t] \intersect Pushes, n \in Node \ heap, d \in Data :
        /\ heap' = heap \union {n}
        /\ data' = [data EXCEPT ![n] = d]
        /\ next' = [next EXCEPT ![n] = NULL]
        /\ prev' = [prev EXCEPT ![n] = NULL]
        /\ node' = [node EXCEPT ![t] = n]
        /\ op' = [op EXCEPT ![t] = o]
  BY DEF CallPush
<1>2. /\ pc[t] = "idle" /\ pc' = [pc EXCEPT ![t] = "lock"]
      /\ UNCHANGED <<mutex, head, size, order, idx, cur, oth, i, seen, num>>
  BY DEF CallPush, header
<1>3. /\ pc'[t] = "lock" /\ op'[t] = o /\ node'[t] = n /\ op[t] = "none"
      /\ \A u \in Threads \ {t} : pc'[u] = pc[u] /\ op'[u] = op[u] /\ node'[u] = node[u]
  BY <1>1, <1>2 DEF IInv, TypeOK, Control, InItsFunction
<1>4. TypeOK'
  BY <1>1, <1>2, NullIsNoAddress DEF IInv, TypeOK, Pointer, OpNames
<1>5. /\ \A u \in Threads \ {t} : Pushing(u)' <=> Pushing(u)
      /\ Pushing(t)' /\ ~Pushing(t)
  BY <1>1, <1>2, <1>3 DEF Pushing
<1>6. n \notin Elements(order) /\ n \notin InFlight
  BY DEF IInv, Accounted
<1>7. InFlight' = InFlight \union {n}
  BY <1>3, <1>5 DEF InFlight
<1>8. Accounted'
  BY <1>1, <1>2, <1>7 DEF IInv, Accounted
<1>9. Fresh'
  <2>1. \A u \in Threads : Pushing(u)' => node'[u] \in Node \ Elements(order)
    BY <1>3, <1>5, <1>6 DEF IInv, Fresh
  <2>2. \A u \in Threads : Pushing(u) => node[u] # n
    BY <1>6 DEF InFlight
  <2>3. \A u, v \in Threads : Pushing(u)' /\ Pushing(v)' /\ node'[u] = node'[v] => u = v
    BY <1>3, <1>5, <2>2 DEF IInv, Fresh
  <2> QED
    BY <1>2, <2>1, <2>3 DEF Fresh
<1>10. Shape'
  <2>1. \A e \in Elements(order) : next'[e] = next[e] /\ prev'[e] = prev[e]
    BY <1>1, <1>6 DEF IInv, TypeOK
  <2>2. /\ Chain(order, next', prev')
        /\ Closed(order, next, prev) => Closed(order, next', prev')
    BY <2>1, SameLinks DEF IInv, TypeOK, Shape
  <2>3. Emptying' <=> Emptying
    BY <1>2, <1>3 DEF Emptying
  <2> QED
    BY <1>2, <2>2, <2>3 DEF IInv, Shape
<1>11. Locals(t)'
  BY <1>2, <1>3 DEF IInv, Locals, WriteLocals, WalkLocals, FoundLocals
<1>12. \A u \in Threads : Locals(u)'
  BY <1>2, <1>3, <1>11, FrameLocals
<1> QED
  BY <1>4, <1>8, <1>9, <1>10, <1>12 DEF IInv

\* The other calls and the lock only move the thread on.
LEMMA CallOtherKeeps ==
  ASSUME IInv, Control', NEW t \in Threads, CallOther(t) \/ Lock(t)
  PROVE  IInv'
<1>1. /\ UNCHANGED <<head, size, next, prev, data, heap, order, node, cur, oth, i, seen, num>>
      /\ pc[t] \in {"idle", "lock"}
      /\ \E l \in {"lock", "enter"} : pc' = [pc EXCEPT ![t] = l]
      /\ \A u \in Threads \ {t} : pc'[u] = pc[u] /\ op'[u] = op[u]
      /\ pc[t] = "idle" => op[t] = "none" /\ op'[t] \notin Pushes
      /\ pc[t] = "lock" => op' = op
      /\ idx' \in [Threads -> 0 .. MaxIndex]
  <2>1. CASE CallOther(t)
    <3>1. PICK o \in Ops[t] \ Pushes, k \in 0 .. MaxIndex :
            op' = [op EXCEPT ![t] = o] /\ idx' = [idx EXCEPT ![t] = k]
      BY <2>1 DEF CallOther
    <3>2. /\ UNCHANGED <<head, size, next, prev, data, heap, order, node, cur, oth, i, seen, num>>
          /\ pc[t] = "idle" /\ pc' = [pc EXCEPT ![t] = "lock"]
      BY <2>1 DEF CallOther, nodes, header
    <3>3. op[t] = "none"
      BY <3>2 DEF IInv, Control, InItsFunction
    <3> QED
      BY <3>1, <3>2, <3>3 DEF IInv, TypeOK
  <2>2. CASE Lock(t)
    BY <2>2 DEF Lock, nodes, locals, IInv, TypeOK
  <2> QED
    BY <2>1, <2>2
<1>2. TypeOK'
  BY <1>1 DEF IInv, TypeOK, Control, Label
<1>3. /\ \A u \in Threads : Pushing(u)' <=> Pushing(u)
      /\ Emptying' <=> Emptying
      /\ pc'[t] \in {"lock", "enter"}
  <2>1. pc'[t] \in {"lock", "enter"}
    BY <1>1 DEF IInv, TypeOK
  <2>2. Pushing(t)' <=> Pushing(t)
    BY <1>1, <2>1 DEF Pushing, Pushes
  <2>3. Emptying' <=> Emptying
    BY <1>1, <2>1 DEF Emptying
  <2> QED
    BY <1>1, <2>1, <2>2, <2>3 DEF Pushing
<1>4. Shape' /\ Fresh' /\ Accounted'
  BY <1>1, <1>3, Frame
<1>5. Locals(t)'
  BY <1>1, <1>3 DEF IInv, Locals, WriteLocals, WalkLocals, FoundLocals
<1>6. \A u \in Threads : Locals(u)'
  BY <1>1, <1>5, FrameLocals
<1> QED
  BY <1>2, <1>4, <1>6 DEF IInv

\* The unlock and the read after it end the call; the node that is read is
\* still linked.
LEMMA ReturnKeeps ==
  ASSUME IInv, Control', NEW t \in Threads, Unlock(t) \/ Fetch(t)
  PROVE  IInv'
<1>1. /\ UNCHANGED <<head, size, next, prev, data, heap, order>>
      /\ pc[t] \in {"unlock", "fetch"}
  BY DEF Unlock, Fetch, nodes, header
<1>2. \/ Leave(t)
      \/ /\ op[t] = "get_node_data_at_index" /\ cur[t] # NULL /\ pc[t] = "unlock"
         /\ pc' = [pc EXCEPT ![t] = "fetch"]
         /\ UNCHANGED <<op, idx, node, cur, oth, i, seen, num>>
  BY DEF Unlock, Fetch, locals
<1>3. mutex' \in Threads \union {NULL}
  BY DEF Control
<1>4. /\ TypeOK'
      /\ Locals(t)'
      /\ \A u \in Threads \ {t} : /\ pc'[u] = pc[u] /\ op'[u] = op[u] /\ i'[u] = i[u]
                                  /\ cur'[u] = cur[u] /\ oth'[u] = oth[u]
                                  /\ node'[u] = node[u]
      /\ pc'[t] \in {"idle", "fetch"}
  <2>1. CASE Leave(t)
    <3>1. TypeOK'
      BY <1>1, <1>3, <2>1, MaxIndexIsNat DEF Leave, IInv, TypeOK, Pointer
    <3>2. pc'[t] = "idle" /\ cur'[t] = NULL /\ i'[t] = 0
      BY <2>1 DEF Leave, IInv, TypeOK
    <3>3. Locals(t)'
      BY <3>2 DEF Locals, WriteLocals, WalkLocals, FoundLocals
    <3>4. \A u \in Threads \ {t} : /\ pc'[u] = pc[u] /\ op'[u] = op[u] /\ i'[u] = i[u]
                                   /\ cur'[u] = cur[u] /\ oth'[u] = oth[u]
                                   /\ node'[u] = node[u]
      BY <2>1 DEF Leave, IInv, TypeOK
    <3> QED
      BY <3>1, <3>2, <3>3, <3>4
  <2>2. CASE /\ op[t] = "get_node_data_at_index" /\ cur[t] # NULL /\ pc[t] = "unlock"
             /\ pc' = [pc EXCEPT ![t] = "fetch"]
             /\ UNCHANGED <<op, idx, node, cur, oth, i, seen, num>>
    <3>1. TypeOK'
      BY <1>1, <1>3, <2>2 DEF IInv, TypeOK
    <3>2. pc'[t] = "fetch"
      BY <2>2 DEF IInv, TypeOK
    <3>3. Locals(t)'
      BY <1>1, <2>2, <3>2 DEF IInv, Locals, WriteLocals, WalkLocals, FoundLocals
    <3>4. \A u \in Threads \ {t} : /\ pc'[u] = pc[u] /\ op'[u] = op[u] /\ i'[u] = i[u]
                                   /\ cur'[u] = cur[u] /\ oth'[u] = oth[u]
                                   /\ node'[u] = node[u]
      BY <2>2 DEF IInv, TypeOK
    <3> QED
      BY <3>1, <3>2, <3>3, <3>4
  <2> QED
    BY <1>2, <2>1, <2>2
<1>5. /\ \A u \in Threads : Pushing(u)' <=> Pushing(u)
      /\ \A u \in Threads : Pushing(u) => node'[u] = node[u]
      /\ Emptying' <=> Emptying
  BY <1>1, <1>4 DEF Pushing, Emptying
<1>6. Shape' /\ Fresh' /\ Accounted'
  BY <1>1, <1>5, Frame
<1>7. \A u \in Threads : Locals(u)'
  BY <1>1, <1>4, FrameLocals
<1> QED
  BY <1>4, <1>6, <1>7 DEF IInv

\* Under the lock, and not in the loop of empty_list, the list is one ring.
LEMMA RingInside ==
  ASSUME IInv, NEW t \in Threads, Critical(t), ~(pc[t] = "walk" /\ op[t] = "empty_list")
  PROVE  /\ Ring(order, next, prev) /\ order \in Seq(Node)
         /\ size = Size(order) /\ size \in Nat
         /\ size = 0 <=> order = <<>>
         /\ order = <<>> => head = NULL
         /\ order # <<>> => head = First(order)
         /\ order # <<>> => Elements(order) \subseteq Node
<1>1. ~Emptying
  BY OneInside DEF IInv
<1>2. Ring(order, next, prev) /\ order \in Seq(Node) /\ size = Size(order)
  BY <1>1 DEF IInv, Shape, Ring, TypeOK
<1>3. Size(order) = 0 <=> order = <<>>
  BY <1>2, RingEnds, NoNodes
<1> QED
  BY <1>1, <1>2, <1>3, RingEnds DEF IInv, Shape, TypeOK

\* A function that only reads, or finds the list empty, has its result.
LEMMA ResultKeeps ==
  ASSUME IInv, Control', NEW t \in Threads, pc[t] = "enter", op[t] \notin Pushes,
         NEW s \in Seq(Data), NEW r \in Int, Result(t, s, r), mutex' = mutex
  PROVE  IInv'
<1>1. /\ UNCHANGED <<mutex, head, size, next, prev, data, heap, order, op, idx, node, cur, oth, i>>
      /\ pc' = [pc EXCEPT ![t] = "unlock"]
      /\ seen' = [seen EXCEPT ![t] = s] /\ num' = [num EXCEPT ![t] = r]
  BY DEF Result, header, nodes
<1>2. TypeOK'
  BY <1>1 DEF IInv, TypeOK
<1>3. pc'[t] = "unlock" /\ \A u \in Threads \ {t} : pc'[u] = pc[u]
  BY <1>1 DEF IInv, TypeOK
<1>4. /\ \A u \in Threads : Pushing(u)' <=> Pushing(u)
      /\ Emptying' <=> Emptying
  BY <1>1, <1>3 DEF Pushing, Emptying
<1>5. Shape' /\ Fresh' /\ Accounted'
  BY <1>1, <1>4, Frame
<1>6. Locals(t)'
  BY <1>1, <1>3 DEF IInv, Locals, WriteLocals, WalkLocals, FoundLocals
<1>7. \A u \in Threads : Locals(u)'
  BY <1>1, <1>3, <1>6, FrameLocals
<1> QED
  BY <1>2, <1>5, <1>7 DEF IInv

\* A function that goes on has read the neighbours it needs.
LEMMA TakeKeeps ==
  ASSUME IInv, Control', NEW t \in Threads, pc[t] = "enter",
         NEW l \in {"write", "walk"}, NEW c \in Pointer, NEW o \in Pointer,
         Take(t, l, c, o), op[t] \in Pushes => l = "write", Locals(t)'
  PROVE  IInv'
<1>1. /\ UNCHANGED <<mutex, head, size, next, prev, data, heap, order, op, idx, node, i, seen, num>>
      /\ pc' = [pc EXCEPT ![t] = l]
      /\ cur' = [cur EXCEPT ![t] = c] /\ oth' = [oth EXCEPT ![t] = o]
  BY DEF Take, header, nodes
<1>2. TypeOK'
  BY <1>1 DEF IInv, TypeOK
<1>3. /\ pc'[t] = l
      /\ \A u \in Threads \ {t} : pc'[u] = pc[u] /\ cur'[u] = cur[u] /\ oth'[u] = oth[u]
  BY <1>1 DEF IInv, TypeOK
<1>4. ~Emptying
  BY OneInside DEF IInv, Critical
<1>5. \A u \in Threads : Pushing(u)' <=> Pushing(u)
  BY <1>1, <1>3 DEF Pushing
<1>6. Shape' /\ Fresh' /\ Accounted'
  BY <1>1, <1>4, <1>5, Frame
<1>7. \A u \in Threads : Locals(u)'
  BY <1>1, <1>3, FrameLocals
<1> QED
  BY <1>2, <1>6, <1>7 DEF IInv

\* The reads after the lock, one step for each function.
LEMMA EnterKeeps ==
  ASSUME IInv, Control', NEW t \in Threads, Enter(t)
  PROVE  IInv'
<1>1. /\ pc[t] = "enter"
      /\ UNCHANGED <<mutex, head, size, next, prev, data, heap, order, op, idx, node, i>>
  BY EnterGoesOn
<1>2. /\ Ring(order, next, prev) /\ order \in Seq(Node)
      /\ size = Size(order) /\ size \in Nat
      /\ size = 0 <=> order = <<>>
      /\ order = <<>> => head = NULL
      /\ order # <<>> => head = First(order)
      /\ order # <<>> => Elements(order) \subseteq Node
  BY <1>1, RingInside DEF Critical
<1>3. ASSUME size # 0
      PROVE  /\ First(order) \in Elements(order) /\ Last(order) \in Elements(order)
             /\ prev[head] = Last(order)
             /\ size # 1 => next[head] = Second(order) /\ prev[prev[head]] = ButLast(order)
  BY <1>2, <1>3, RingEnds
<1>4. /\ NULL \in Pointer
      /\ \A e \in Node : e \in Pointer /\ next[e] \in Pointer /\ prev[e] \in Pointer
      /\ \A e \in Node : data[e] \in Data
      /\ size # 0 => head \in Node /\ prev[head] \in Node
      /\ head \in Pointer
  BY <1>2, <1>3 DEF IInv, TypeOK, Pointer
<1>5. ASSUME NEW l, NEW c, NEW o, Take(t, l, c, o)
      PROVE  pc'[t] = l /\ cur'[t] = c /\ oth'[t] = o
  BY <1>5 DEF Take, IInv, TypeOK
<1>6. /\ <<>> \in Seq(Data) /\ \A d \in Data : <<d>> \in Seq(Data)
      /\ -1 \in Int /\ 0 \in Int /\ 1 \in Int
  OBVIOUS
<1>7. CASE EnterPush(t)
  <2>1. op[t] \in Pushes
    BY <1>7 DEF EnterPush
  <2>2. CASE size = 0
    <3>1. Take(t, "write", NULL, NULL)
      BY <1>7, <2>2 DEF EnterPush
    <3>2. Locals(t)'
      BY <1>1, <1>2, <1>5, <2>1, <2>2, <3>1 DEF Pushes, Locals, WriteLocals, WalkLocals, FoundLocals
    <3> QED
      BY <1>1, <1>4, <3>1, <3>2, TakeKeeps
  <2>3. CASE size # 0
    <3>1. Take(t, "write", head, prev[head])
      BY <1>7, <2>3 DEF EnterPush
    <3>2. Locals(t)'
      BY <1>1, <1>2, <1>3, <1>5, <2>1, <2>3, <3>1
      DEF Pushes, Locals, WriteLocals, WalkLocals, FoundLocals
    <3> QED
      BY <1>1, <1>4, <2>3, <3>1, <3>2, TakeKeeps
  <2> QED
    BY <2>2, <2>3
<1>8. CASE EnterRemoveFront(t)
  <2>1. op[t] = "remove_front" /\ op[t] \notin Pushes
    BY <1>8 DEF EnterRemoveFront, Pushes
  <2>2. CASE size = 0
    <3>1. Result(t, <<>>, -1)
      BY <1>8, <2>2 DEF EnterRemoveFront
    <3> QED
      BY <1>1, <1>6, <2>1, <3>1, ResultKeeps, Zenon
  <2>3. CASE size # 0
    <3>1. Take(t, "write", head, next[head])
      BY <1>8, <2>3 DEF EnterRemoveFront
    <3>2. Locals(t)'
      BY <1>1, <1>2, <1>3, <1>5, <2>1, <2>3, <3>1
      DEF Pushes, Locals, WriteLocals, WalkLocals, FoundLocals
    <3> QED
      BY <1>1, <1>4, <2>1, <2>3, <3>1, <3>2, TakeKeeps
  <2> QED
    BY <2>2, <2>3
<1>9. CASE EnterRemoveBack(t)
  <2>1. op[t] = "remove_back" /\ op[t] \notin Pushes
    BY <1>9 DEF EnterRemoveBack, Pushes
  <2>2. CASE size = 0
    <3>1. Result(t, <<>>, -1)
      BY <1>9, <2>2 DEF EnterRemoveBack
    <3> QED
      BY <1>1, <1>6, <2>1, <3>1, ResultKeeps, Zenon
  <2>3. CASE size # 0
    <3>1. Take(t, "write", prev[head], prev[prev[head]])
      BY <1>9, <2>3 DEF EnterRemoveBack
    <3>2. Locals(t)'
      BY <1>1, <1>2, <1>3, <1>5, <2>1, <2>3, <3>1
      DEF Pushes, Locals, WriteLocals, WalkLocals, FoundLocals
    <3> QED
      BY <1>1, <1>4, <2>1, <2>3, <3>1, <3>2, TakeKeeps
  <2> QED
    BY <2>2, <2>3
<1>10. CASE EnterEmptyList(t)
  <2>1. op[t] = "empty_list" /\ op[t] \notin Pushes
    BY <1>10 DEF EnterEmptyList, Pushes
  <2>2. CASE size = 0
    <3>1. Result(t, <<>>, 0)
      BY <1>10, <2>2 DEF EnterEmptyList
    <3> QED
      BY <1>1, <1>6, <2>1, <3>1, ResultKeeps, Zenon
  <2>3. CASE size # 0
    <3>1. Take(t, "walk", head, next[head])
      BY <1>10, <2>3 DEF EnterEmptyList
    <3>2. i[t] = 0
      BY <1>1 DEF IInv, Locals, FoundLocals
    <3>3. Locals(t)'
      BY <1>1, <1>2, <1>3, <1>5, <2>1, <2>3, <3>1, <3>2
      DEF Locals, WriteLocals, WalkLocals, FoundLocals
    <3> QED
      BY <1>1, <1>4, <2>1, <2>3, <3>1, <3>3, TakeKeeps
  <2> QED
    BY <2>2, <2>3
<1>11. CASE EnterTraverse(t)
  <2>1. op[t] = "traverse" /\ op[t] \notin Pushes /\ Take(t, "walk", head, NULL)
    BY <1>11 DEF EnterTraverse, Pushes
  <2>2. Locals(t)'
    BY <1>1, <1>2, <1>3, <1>5, <2>1 DEF IInv, TypeOK, Locals, WriteLocals, WalkLocals, FoundLocals
  <2> QED
    BY <1>1, <1>4, <2>1, <2>2, TakeKeeps
<1>12. CASE EnterGet(t)
  <2>1. op[t] = "get_node_data_at_index" /\ op[t] \notin Pushes
    BY <1>12 DEF EnterGet, Pushes
  <2>2. CASE size = 0 \/ size < idx[t]
    <3>1. Result(t, <<>>, 0)
      BY <1>12, <2>2 DEF EnterGet
    <3> QED
      BY <1>1, <1>6, <2>1, <3>1, ResultKeeps, Zenon
  <2>3. CASE ~(size = 0 \/ size < idx[t])
    <3>1. Take(t, "walk", head, NULL)
      BY <1>12, <2>3 DEF EnterGet
    <3>2. Locals(t)'
      BY <1>1, <1>2, <1>3, <1>5, <2>1, <2>3, <3>1
      DEF Locals, WriteLocals, WalkLocals, FoundLocals
    <3> QED
      BY <1>1, <1>4, <2>1, <3>1, <3>2, TakeKeeps
  <2> QED
    BY <2>2, <2>3
<1>13. CASE EnterFront(t)
  <2>1. op[t] \notin Pushes /\ Result(t, IF size # 0 THEN <<data[head]>> ELSE <<>>, 0)
    BY <1>13 DEF EnterFront, Pushes
  <2>2. (IF size # 0 THEN <<data[head]>> ELSE <<>>) \in Seq(Data)
    BY <1>4, <1>6
  <2> QED
    BY <1>1, <1>6, <2>1, <2>2, ResultKeeps, Zenon
<1>14. CASE EnterBack(t)
  <2>1. op[t] \notin Pushes /\ Result(t, IF size = 0 THEN <<>> ELSE <<data[prev[head]]>>, 0)
    BY <1>14 DEF EnterBack, Pushes
  <2>2. (IF size = 0 THEN <<>> ELSE <<data[prev[head]]>>) \in Seq(Data)
    BY <1>4, <1>6
  <2> QED
    BY <1>1, <1>6, <2>1, <2>2, ResultKeeps, Zenon
<1>15. CASE EnterIsEmpty(t)
  <2>1. op[t] \notin Pushes /\ \E r \in {0, 1} : Result(t, <<>>, r)
    BY <1>15 DEF EnterIsEmpty, Pushes
  <2> QED
    BY <1>1, <1>6, <2>1, ResultKeeps
<1>16. CASE EnterSize(t)
  <2>1. op[t] \notin Pushes /\ Result(t, <<>>, size) /\ size \in Int
    BY <1>2, <1>16 DEF EnterSize, Pushes
  <2> QED
    BY <1>1, <1>6, <2>1, ResultKeeps
<1> QED
  BY <1>7, <1>8, <1>9, <1>10, <1>11, <1>12, <1>13, <1>14, <1>15, <1>16 DEF Enter

\* The write of a push closes the ring around the new node.
LEMMA WritePushKeeps ==
  ASSUME IInv, Control', NEW t \in Threads, WritePush(t)
  PROVE  IInv'
<1> DEFINE n == node[t]
           s2 == IF op[t] = "push_front" THEN <<n>> \o order ELSE Append(order, n)
<1>1. /\ pc[t] = "write" /\ op[t] \in Pushes /\ Pushing(t)
      /\ UNCHANGED <<mutex, data, heap, op, idx, node, cur, oth, i, seen, num>>
      /\ pc' = [pc EXCEPT ![t] = "unlock"] /\ size' = size + 1
      /\ head' = IF cur[t] = NULL \/ op[t] = "push_front" THEN n ELSE head
      /\ order' = s2
  BY DEF WritePush, locals, Pushing
<1>2. /\ Ring(order, next, prev) /\ order \in Seq(Node)
      /\ size = Size(order) /\ size \in Nat
      /\ size = 0 <=> order = <<>>
      /\ order = <<>> => head = NULL
      /\ order # <<>> => head = First(order)
      /\ order # <<>> => Elements(order) \subseteq Node
  BY <1>1, RingInside DEF Critical
<1>3. n \in Node /\ n \notin Elements(order) /\ next \in Links /\ prev \in Links
  BY <1>1 DEF IInv, Fresh, TypeOK, Links
<1>4. /\ order = <<>> => cur[t] = NULL
      /\ order # <<>> => /\ cur[t] = First(order) /\ oth[t] = Last(order)
                         /\ cur[t] # NULL /\ cur[t] \in Node /\ oth[t] \in Node
  <2>1. IF order = <<>> THEN cur[t] = NULL ELSE cur[t] = First(order) /\ oth[t] = Last(order)
    BY <1>1 DEF IInv, Locals, WriteLocals
  <2>2. order # <<>> => First(order) \in Node /\ Last(order) \in Node
    BY <1>2, RingEnds
  <2> QED
    BY <2>1, <2>2, NullIsNoAddress
<1>5. /\ s2 \in Seq(Node) /\ s2 # <<>> /\ Size(s2) = size + 1
      /\ Elements(s2) = Elements(order) \union {n}
      /\ First(s2) = IF op[t] = "push_front" \/ order = <<>> THEN n ELSE First(order)
      /\ order = <<>> => s2 = <<n>> /\ First(<<n>>) = n
  <2>1. First(<<n>>) = n
    BY DEF First
  <2> QED
    BY <1>2, <1>3, <2>1, PushEnds, AddedElements
<1>6. Ring(s2, next', prev')
  <2>1. CASE order = <<>>
    <3>1. next' = [next EXCEPT ![n] = n] /\ prev' = [prev EXCEPT ![n] = n]
      BY <1>4, <2>1 DEF WritePush
    <3> QED
      BY <1>3, <1>5, <2>1, <3>1, SingleRing, ZenonT(60)
  <2>2. CASE order # <<>>
    <3>1. /\ next' = [next EXCEPT ![n] = order[1], ![order[Len(order)]] = n]
          /\ prev' = [prev EXCEPT ![n] = prev[order[1]], ![order[1]] = n]
      BY <1>4, <2>2 DEF WritePush, First, Last
    <3>2. Ring(<<n>> \o order, next', prev') /\ Ring(Append(order, n), next', prev')
      BY <1>2, <1>3, <2>2, <3>1, PushRing
    <3> QED
      BY <3>2
  <2> QED
    BY <2>1, <2>2
<1> HIDE DEF s2
<1>7. /\ pc'[t] = "unlock" /\ ~Pushing(t)' /\ ~Emptying'
      /\ \A u \in Threads \ {t} : pc'[u] = pc[u] /\ (Pushing(u)' <=> Pushing(u))
  <2>1. pc'[t] = "unlock" /\ \A u \in Threads \ {t} : pc'[u] = pc[u]
    BY <1>1 DEF IInv, TypeOK
  <2>2. ~Emptying
    BY <1>1, OneInside DEF IInv, Critical
  <2> QED
    BY <1>1, <2>1, <2>2 DEF Pushing, Emptying
<1>8. Shape'
  BY <1>1, <1>2, <1>4, <1>5, <1>6 DEF Shape, Ring
<1>9. TypeOK'
  <2>1. next' \in [Node -> Pointer] /\ prev' \in [Node -> Pointer]
    BY <1>3, <1>4, ZenonT(60) DEF WritePush, IInv, TypeOK, Pointer
  <2>2. head' \in Pointer /\ size' \in Nat
    BY <1>1, <1>2, <1>3 DEF IInv, TypeOK, Pointer
  <2> QED
    BY <1>1, <1>5, <2>1, <2>2 DEF IInv, TypeOK
<1>10. Fresh'
  <2>1. \A u \in Threads \ {t} : Pushing(u) => node[u] # n
    BY <1>1 DEF IInv, Fresh
  <2> QED
    BY <1>1, <1>5, <1>7, <2>1 DEF IInv, Fresh
<1>11. Accounted'
  <2>1. InFlight = InFlight' \union {n}
    BY <1>1, <1>7 DEF InFlight
  <2> QED
    BY <1>1, <1>5, <2>1 DEF IInv, Accounted
<1>12. Locals(t)'
  BY <1>1, <1>7 DEF Pushes, Locals, WriteLocals, WalkLocals, FoundLocals
<1>13. Critical(t) /\ Elements(order) \subseteq Elements(order')
  BY <1>1, <1>5 DEF Critical
<1>14. \A u \in Threads : Locals(u)'
  BY <1>1, <1>7, <1>12, <1>13, ChangeLocals
<1> QED
  BY <1>8, <1>9, <1>10, <1>11, <1>14 DEF IInv

\* Unlinking a node and freeing it go together.
LEMMA FreeKeeps ==
  ASSUME IInv, NEW h \in Elements(order), heap' = heap \ {h}, node' = node,
         Elements(order') = Elements(order) \ {h},
         \A u \in Threads : Pushing(u)' <=> Pushing(u)
  PROVE  Fresh' /\ Accounted'
<1>1. Fresh'
  BY DEF IInv, Fresh
<1>2. InFlight' = InFlight
  BY DEF InFlight
<1>3. h \notin InFlight
  BY DEF IInv, Fresh, InFlight
<1> QED
  BY <1>1, <1>2, <1>3 DEF IInv, Accounted

\* The writes of remove_front and remove_back close the ring over the node
\* that is freed.
LEMMA WriteRemoveKeeps ==
  ASSUME IInv, Control', NEW t \in Threads, WriteRemoveFront(t) \/ WriteRemoveBack(t)
  PROVE  IInv'
<1> DEFINE h == cur[t]
<1>1. /\ pc[t] = "write" /\ op[t] \in {"remove_front", "remove_back"}
      /\ UNCHANGED <<mutex, data, op, idx, node, cur, oth, i, num>>
      /\ pc' = [pc EXCEPT ![t] = "unlock"] /\ size' = size - 1 /\ heap' = heap \ {h}
      /\ seen' = [seen EXCEPT ![t] = Append(seen[t], data[h])]
  BY DEF WriteRemoveFront, WriteRemoveBack, FreeOne
<1>2. /\ Ring(order, next, prev) /\ order \in Seq(Node)
      /\ size = Size(order) /\ size \in Nat
      /\ size = 0 <=> order = <<>>
      /\ order # <<>> => head = First(order)
      /\ order # <<>> => Elements(order) \subseteq Node
  BY <1>1, RingInside DEF Critical
<1>3. /\ order # <<>>
      /\ op[t] = "remove_front" => h = First(order) /\ (size # 1 => oth[t] = Second(order))
      /\ op[t] = "remove_back" => h = Last(order) /\ (size # 1 => oth[t] = ButLast(order))
  BY <1>1 DEF IInv, Locals, WriteLocals
<1>4. /\ Size(order) > 0
      /\ First(order) \in Elements(order) /\ Last(order) \in Elements(order)
      /\ prev[First(order)] = Last(order)
      /\ size # 1 => Second(order) \in Elements(order) /\ ButLast(order) \in Elements(order)
  BY <1>2, <1>3, RingEnds
<1>5. h \in Elements(order) /\ h \in Node /\ next \in Links /\ prev \in Links
  BY <1>1, <1>2, <1>3, <1>4 DEF IInv, TypeOK, Links
<1>6. /\ order' \in Seq(Node) /\ Size(order') = size - 1
      /\ Size(order) = 1 <=> order' = <<>>
      /\ Elements(order') = Elements(order) \ {h}
      /\ size # 1 => First(order') = head'
      /\ size = 1 => head' = NULL
      /\ head' \in Pointer
      /\ next' \in [Node -> Pointer] /\ prev' \in [Node -> Pointer]
      /\ size # 1 => Ring(order', next', prev')
  <2>1. Len(order) \in Nat /\ Size(order) = Len(order) /\ Distinct(order)
    BY <1>2, Positions, Zenon DEF Size, Ring
  <2>2. CASE op[t] = "remove_front"
    <3>1. /\ order' = Tail(order)
          /\ size = 1 => head' = NULL /\ next' = next /\ prev' = prev
          /\ size # 1 => /\ head' = oth[t]
                         /\ prev' = [prev EXCEPT ![oth[t]] = prev[h]]
                         /\ next' = [next EXCEPT ![prev[h]] = oth[t]]
      BY <2>2 DEF WriteRemoveFront, WriteRemoveBack
    <3>2. Elements(order') = Elements(order) \ {h}
      BY <1>2, <1>3, <2>1, <2>2, <3>1, RemovedElements DEF First
    <3>3. /\ order' \in Seq(Node) /\ Size(order') = size - 1
          /\ Size(order) = 1 <=> order' = <<>>
          /\ size # 1 => First(order') = Second(order)
      BY <1>2, <1>3, <3>1, RemoveEnds
    <3>4. size # 1 => /\ prev' = [prev EXCEPT ![Second(order)] = Last(order)]
                      /\ next' = [next EXCEPT ![Last(order)] = Second(order)]
                      /\ head' = Second(order)
      BY <1>3, <1>4, <2>2, <3>1
    <3>5. size # 1 => Ring(order', next', prev')
      <4>1. size # 1 => Len(order) > 1
        BY <1>2, <1>4, <2>1
      <4> QED
        BY <1>2, <1>5, <3>1, <3>4, <4>1, RemoveFrontRing, SMTT(30) DEF Second, Last
    <3>6. First(order) \in Node /\ Last(order) \in Node
          /\ (size # 1 => Second(order) \in Node /\ ButLast(order) \in Node)
      BY <1>2, <1>3, <1>4
    <3>7. next' \in [Node -> Pointer] /\ prev' \in [Node -> Pointer] /\ head' \in Pointer
      <4>1. size = 1 => head' = NULL /\ next' = next /\ prev' = prev
        BY <3>1
      <4>2. CASE size = 1
        BY <4>1, <4>2 DEF IInv, TypeOK, Pointer
      <4>3. CASE size # 1
        BY <3>4, <3>6, <4>3, ZenonT(60) DEF IInv, TypeOK, Pointer
      <4> QED
        BY <4>2, <4>3
    <3>8. (size # 1 => First(order') = head') /\ (size = 1 => head' = NULL)
      BY <3>1, <3>3, <3>4
    <3> HIDE DEF h
    <3> QED
      BY <3>2, <3>3, <3>5, <3>7, <3>8
  <2>3. CASE op[t] = "remove_back"
    <3>1. /\ order' = Body(order)
          /\ size = 1 => head' = NULL /\ next' = next /\ prev' = prev
          /\ size # 1 => /\ head' = head
                         /\ prev' = [prev EXCEPT ![head] = oth[t]]
                         /\ next' = [next EXCEPT ![oth[t]] = head]
      BY <2>3 DEF WriteRemoveFront, WriteRemoveBack, Body
    <3>2. Elements(order') = Elements(order) \ {h}
      BY <1>2, <1>3, <2>1, <2>3, <3>1, RemovedElements DEF Last, Body
    <3>3. /\ order' \in Seq(Node) /\ Size(order') = size - 1
          /\ Size(order) = 1 <=> order' = <<>>
          /\ size # 1 => First(order') = First(order)
      BY <1>2, <1>3, <3>1, RemoveEnds
    <3>4. size # 1 => /\ prev' = [prev EXCEPT ![First(order)] = ButLast(order)]
                      /\ next' = [next EXCEPT ![ButLast(order)] = First(order)]
                      /\ head' = First(order)
      BY <1>2, <1>3, <2>3, <3>1
    <3>5. size # 1 => Ring(order', next', prev')
      <4>1. size # 1 => Len(order) > 1
        BY <1>2, <1>4, <2>1
      <4> QED
        BY <1>2, <1>5, <3>1, <3>4, <4>1, RemoveBackRing DEF First, ButLast, Body
    <3>6. First(order) \in Node /\ Last(order) \in Node
          /\ (size # 1 => Second(order) \in Node /\ ButLast(order) \in Node)
      BY <1>2, <1>3, <1>4
    <3>7. next' \in [Node -> Pointer] /\ prev' \in [Node -> Pointer] /\ head' \in Pointer
      <4>1. size = 1 => head' = NULL /\ next' = next /\ prev' = prev
        BY <3>1
      <4>2. CASE size = 1
        BY <4>1, <4>2 DEF IInv, TypeOK, Pointer
      <4>3. CASE size # 1
        BY <3>4, <3>6, <4>3, ZenonT(60) DEF IInv, TypeOK, Pointer
      <4> QED
        BY <4>2, <4>3
    <3>8. (size # 1 => First(order') = head') /\ (size = 1 => head' = NULL)
      BY <3>1, <3>3, <3>4
    <3> HIDE DEF h
    <3> QED
      BY <3>2, <3>3, <3>5, <3>7, <3>8
  <2> QED
    BY <1>1, <2>2, <2>3
<1>7. /\ pc'[t] = "unlock"
      /\ \A u \in Threads \ {t} : pc'[u] = pc[u]
      /\ \A u \in Threads : Pushing(u)' <=> Pushing(u)
  <2>1. pc'[t] = "unlock" /\ \A u \in Threads \ {t} : pc'[u] = pc[u]
    BY <1>1 DEF IInv, TypeOK
  <2> QED
    BY <1>1, <2>1 DEF Pushing, Pushes
<1>8. Shape'
  <2>1. size = 1 => Ring(order', next', prev')
    BY <1>2, <1>6, NoNodes
  <2> QED
    BY <1>1, <1>2, <1>6, <2>1 DEF Shape, Ring
<1>9. TypeOK'
  <2>1. size' \in Nat
    BY <1>1, <1>2, <1>4
  <2>2. seen' \in [Threads -> Seq(Data)]
    BY <1>1, <1>5 DEF IInv, TypeOK
  <2> QED
    BY <1>1, <1>6, <2>1, <2>2 DEF IInv, TypeOK
<1>10. Fresh' /\ Accounted'
  BY <1>1, <1>5, <1>6, <1>7, FreeKeeps
<1>11. Locals(t)'
  BY <1>1, <1>7 DEF Locals, WriteLocals, WalkLocals, FoundLocals
<1>12. Critical(t) /\ op[t] \in Removals
  BY <1>1 DEF Critical, Removals
<1>13. \A u \in Threads : Locals(u)'
  BY <1>1, <1>7, <1>11, <1>12, ChangeLocals
<1> QED
  BY <1>8, <1>9, <1>10, <1>13 DEF IInv

\* One turn of empty_list frees the first node of what is left of the chain.
LEMMA WalkEmptyListKeeps ==
  ASSUME IInv, Control', NEW t \in Threads, WalkEmptyList(t)
  PROVE  IInv'
<1> DEFINE h == cur[t]
<1>1. /\ pc[t] = "walk" /\ op[t] = "empty_list" /\ i[t] < size
      /\ UNCHANGED <<mutex, head, size, next, prev, data, pc, op, idx, node, num>>
      /\ heap' = heap \ {h} /\ order' = Tail(order)
      /\ seen' = [seen EXCEPT ![t] = Append(seen[t], data[h])]
      /\ cur' = [cur EXCEPT ![t] = oth[t]]
      /\ oth' = [oth EXCEPT ![t] = IF i[t] < size - 1 THEN next[oth[t]] ELSE oth[t]]
      /\ i' = [i EXCEPT ![t] = i[t] + 1]
  BY DEF WalkEmptyList, header
<1>2. order \in Seq(Node) /\ size \in Nat /\ i[t] \in Nat /\ Distinct(order) /\ Chain(order, next, prev)
  BY DEF IInv, TypeOK, Shape
<1>3. /\ i[t] + Size(order) = size
      /\ order # <<>> => h = First(order)
      /\ Size(order) > 1 => oth[t] = Second(order)
  BY <1>1 DEF IInv, Locals, WalkLocals
<1>4. order # <<>>
  <2>1. Size(order) # 0
    BY <1>1, <1>2, <1>3
  <2> QED
    BY <2>1, NoNodes
<1>5. /\ order' \in Seq(Node) /\ Size(order) \in Nat /\ Size(order) > 0
      /\ Size(order') = Size(order) - 1
      /\ Size(order) = 1 <=> order' = <<>>
  BY <1>1, <1>2, <1>4, RemoveEnds
<1>6. /\ h \in Elements(order) /\ h \in Node
      /\ Size(order) > 1 => Second(order) \in Node /\ First(order') = Second(order)
      /\ Size(order) > 2 => next[Second(order)] = Second(order')
  BY <1>1, <1>2, <1>3, <1>4, ChainEnds
<1>7. Elements(order') = Elements(order) \ {h}
  BY <1>1, <1>2, <1>3, <1>4, RemovedElements DEF First
<1>8. Distinct(order') /\ Chain(order', next, prev)
  BY <1>1, <1>2, <1>4, TailChain
<1>9. TypeOK'
  <2>1. seen' \in [Threads -> Seq(Data)]
    BY <1>1, <1>6 DEF IInv, TypeOK
  <2>2. (IF i[t] < size - 1 THEN next[oth[t]] ELSE oth[t]) \in Pointer /\ oth[t] \in Pointer
    <3>1. i[t] < size - 1 => oth[t] \in Node
      BY <1>2, <1>3, <1>5, <1>6
    <3> QED
      BY <3>1 DEF IInv, TypeOK
  <2>3. cur' \in [Threads -> Pointer] /\ oth' \in [Threads -> Pointer] /\ i' \in [Threads -> Nat]
    BY <1>1, <2>2 DEF IInv, TypeOK
  <2> QED
    BY <1>1, <1>5, <2>1, <2>3 DEF IInv, TypeOK
<1>10. /\ \A u \in Threads : Pushing(u)' <=> Pushing(u)
       /\ Emptying' /\ Emptying
  BY <1>1 DEF Pushing, Emptying
<1>11. Shape'
  BY <1>1, <1>8, <1>10 DEF Shape
<1>12. Fresh' /\ Accounted'
  BY <1>1, <1>6, <1>7, <1>10, FreeKeeps
<1>13. Locals(t)'
  <2>1. /\ cur'[t] = oth[t] /\ i'[t] = i[t] + 1
        /\ oth'[t] = IF i[t] < size - 1 THEN next[oth[t]] ELSE oth[t]
    BY <1>1 DEF IInv, TypeOK
  <2>2. i'[t] + Size(order') = size
    BY <1>2, <1>3, <1>5, <2>1
  <2>3. order' # <<>> => cur'[t] = First(order')
    BY <1>3, <1>5, <1>6, <2>1
  <2>4. Size(order') > 1 => oth'[t] = Second(order')
    BY <1>2, <1>3, <1>5, <1>6, <2>1
  <2> QED
    BY <1>1, <2>2, <2>3, <2>4 DEF Locals, WriteLocals, WalkLocals, FoundLocals
<1>14. Critical(t) /\ op[t] \in Removals
  BY <1>1 DEF Critical, Removals
<1>15. \A u \in Threads \ {t} : i'[u] = i[u] /\ cur'[u] = cur[u] /\ oth'[u] = oth[u]
  BY <1>1 DEF IInv, TypeOK
<1>16. \A u \in Threads : Locals(u)'
  BY <1>1, <1>13, <1>14, <1>15, ChangeLocals
<1> QED
  BY <1>9, <1>11, <1>12, <1>16 DEF IInv

\* The end of empty_list: nothing is left, and the header says so.
LEMMA EndEmptyListKeeps ==
  ASSUME IInv, Control', NEW t \in Threads, EndEmptyList(t)
  PROVE  IInv'
<1>1. /\ pc[t] = "walk" /\ op[t] = "empty_list" /\ i[t] >= size
      /\ head' = NULL /\ size' = 0 /\ pc' = [pc EXCEPT ![t] = "unlock"]
      /\ UNCHANGED <<mutex, next, prev, data, heap, order, op, idx, node, cur, oth, i, seen, num>>
  BY DEF EndEmptyList, nodes, locals
<1>2. order = <<>>
  <2>1. i[t] + Size(order) = size /\ order \in Seq(Node) /\ i[t] \in Nat /\ size \in Nat
    BY <1>1 DEF IInv, TypeOK, Locals, WalkLocals
  <2>2. order # <<>> => Size(order) > 0 /\ Size(order) \in Nat
    BY <2>1, RemoveEnds
  <2> QED
    BY <1>1, <2>1, <2>2
<1>3. TypeOK'
  BY <1>1 DEF IInv, TypeOK, Pointer
<1>4. /\ pc'[t] = "unlock"
      /\ \A u \in Threads \ {t} : pc'[u] = pc[u]
      /\ \A u \in Threads : Pushing(u)' <=> Pushing(u)
  <2>1. pc'[t] = "unlock" /\ \A u \in Threads \ {t} : pc'[u] = pc[u]
    BY <1>1 DEF IInv, TypeOK
  <2> QED
    BY <1>1, <2>1 DEF Pushing, Pushes
<1>5. Shape'
  BY <1>1, <1>2, NoNodes DEF Shape, Ring
<1>6. Fresh'
  BY <1>1, <1>4 DEF IInv, Fresh
<1>7. Accounted'
  <2>1. InFlight' = InFlight
    BY <1>1, <1>4 DEF InFlight
  <2> QED
    BY <1>1, <2>1 DEF IInv, Accounted
<1>8. Locals(t)'
  BY <1>1, <1>4 DEF Locals, WriteLocals, WalkLocals, FoundLocals
<1>9. Critical(t) /\ op[t] \in Removals
  BY <1>1 DEF Critical, Removals
<1>10. \A u \in Threads : Locals(u)'
  BY <1>1, <1>4, <1>8, <1>9, ChangeLocals
<1> QED
  BY <1>3, <1>5, <1>6, <1>7, <1>10 DEF IInv

\* The walks of traverse and get_node_data_at_index go from linked node to
\* linked node.
LEMMA WalkKeeps ==
  ASSUME IInv, Control', NEW t \in Threads, WalkTraverse(t) \/ WalkGet(t) \/ EndWalk(t)
  PROVE  IInv'
<1>1. /\ UNCHANGED <<mutex, head, size, next, prev, data, heap, order, op, idx, node, oth, num>>
      /\ pc[t] = "walk" /\ op[t] \in {"traverse", "get_node_data_at_index"}
  BY DEF WalkTraverse, WalkGet, EndWalk, header, nodes, locals
<1>2. /\ Ring(order, next, prev) /\ order \in Seq(Node)
      /\ size = 0 <=> order = <<>>
      /\ order # <<>> => Elements(order) \subseteq Node
  BY <1>1, RingInside DEF Critical
<1>3. \A e \in Elements(order) : e \in Node /\ next[e] \in Elements(order)
  BY <1>2, RingEnds, NoNodes
<1>4. ~Emptying
  BY <1>1, OneInside DEF IInv, Critical
<1>5. CASE WalkTraverse(t) \/ WalkGet(t)
  <2>1. cur[t] \in Elements(order)
    <3>1. op[t] = "traverse" => i[t] < size
      BY <1>5 DEF WalkTraverse, WalkGet
    <3> QED
      BY <1>1, <3>1 DEF IInv, Locals, WalkLocals
  <2>2. /\ pc' = pc
        /\ cur' = [cur EXCEPT ![t] = next[cur[t]]] /\ i' = [i EXCEPT ![t] = i[t] + 1]
        /\ seen' = seen \/ seen' = [seen EXCEPT ![t] = Append(seen[t], data[cur[t]])]
    BY <1>5 DEF WalkTraverse, WalkGet
  <2>3. TypeOK'
    <3>1. seen' \in [Threads -> Seq(Data)]
      <4>1. data[cur[t]] \in Data /\ seen[t] \in Seq(Data) /\ seen \in [Threads -> Seq(Data)]
        BY <1>3, <2>1 DEF IInv, TypeOK
      <4>2. Append(seen[t], data[cur[t]]) \in Seq(Data)
        BY <4>1
      <4> QED
        BY <2>2, <4>1, <4>2
    <3>2. cur' \in [Threads -> Pointer] /\ i' \in [Threads -> Nat]
      BY <1>3, <2>1, <2>2 DEF IInv, TypeOK, Pointer
    <3> QED
      BY <1>1, <2>2, <3>1, <3>2 DEF IInv, TypeOK
  <2>4. Shape' /\ Fresh' /\ Accounted'
    BY <1>1, <1>4, <2>2, Frame DEF Pushing
  <2>5. cur'[t] \in Elements(order)
    BY <1>3, <2>1, <2>2 DEF IInv, TypeOK
  <2>6. Locals(t)'
    BY <1>1, <2>2, <2>5 DEF Locals, WriteLocals, WalkLocals, FoundLocals
  <2>7. \A u \in Threads \ {t} : i'[u] = i[u] /\ cur'[u] = cur[u]
    BY <2>2 DEF IInv, TypeOK
  <2>8. \A u \in Threads : Locals(u)'
    BY <1>1, <2>2, <2>6, <2>7, FrameLocals
  <2> QED
    BY <2>3, <2>4, <2>8 DEF IInv
<1>6. CASE EndWalk(t)
  <2>1. pc' = [pc EXCEPT ![t] = "unlock"] /\ UNCHANGED <<cur, i, seen>>
    BY <1>6 DEF EndWalk, locals
  <2>2. TypeOK'
    BY <1>1, <2>1 DEF IInv, TypeOK
  <2>3. pc'[t] = "unlock" /\ \A u \in Threads \ {t} : pc'[u] = pc[u]
    BY <2>1 DEF IInv, TypeOK
  <2>4. \A u \in Threads : Pushing(u)' <=> Pushing(u)
    BY <1>1, <2>3 DEF Pushing, Pushes
  <2>5. Shape' /\ Fresh' /\ Accounted'
    BY <1>1, <1>4, <2>4, Frame
  <2>6. Locals(t)'
    BY <1>1, <2>1, <2>3 DEF IInv, Locals, WriteLocals, WalkLocals, FoundLocals
  <2>7. \A u \in Threads : Locals(u)'
    BY <1>1, <2>1, <2>3, <2>6, FrameLocals
  <2> QED
    BY <2>2, <2>5, <2>7 DEF IInv
<1> QED
  BY <1>5, <1>6

-----------------------------------------------------------------------------
(* The theorems.                                                            *)

\* The empty list.
LEMMA Initially == Init => IInv
<1> SUFFICES ASSUME Init
             PROVE  IInv
  OBVIOUS
<1>1. Control
  BY ControlInit
<1>2. TypeOK
  BY MaxIndexIsNat, Payloads DEF Init, TypeOK, Pointer
<1>3. Shape
  BY NoNodes DEF Init, Shape, Ring
<1>4. \A t \in Threads : ~Pushing(t)
  BY DEF Init, Pushing
<1>5. Fresh
  BY <1>4 DEF Fresh
<1>6. Accounted
  BY <1>4, NoNodes DEF Init, Accounted, InFlight
<1>7. \A t \in Threads : Locals(t)
  BY DEF Init, Locals, WriteLocals, WalkLocals, FoundLocals
<1> QED
  BY <1>1, <1>2, <1>3, <1>5, <1>6, <1>7 DEF IInv

\* Every action of every thread keeps the invariant.
LEMMA Inductive == IInv /\ [Next]_vars => IInv'
<1> SUFFICES ASSUME IInv, [Next]_vars
             PROVE  IInv'
  OBVIOUS
<1>1. Control'
  BY ControlNext DEF IInv
<1>2. CASE UNCHANGED vars
  <2>1. UNCHANGED <<mutex, head, size, next, prev, data, heap, pc, op, idx, node,
                    cur, oth, i, seen, num, order>>
    BY <1>2 DEF vars
  <2>2. TypeOK'
    BY <2>1 DEF IInv, TypeOK
  <2>3. Shape' /\ Fresh' /\ Accounted'
    BY <2>1, Frame DEF Pushing, Emptying
  <2>4. \A t \in Threads : Locals(t)'
    BY <2>1 DEF IInv, Locals, WriteLocals, WalkLocals, FoundLocals
  <2> QED
    BY <1>1, <2>2, <2>3, <2>4 DEF IInv
<1>3. ASSUME NEW t \in Threads, Step(t)
      PROVE  IInv'
  BY <1>1, <1>3, CallPushKeeps, CallOtherKeeps, EnterKeeps, WritePushKeeps,
     WriteRemoveKeeps, WalkEmptyListKeeps, EndEmptyListKeeps, WalkKeeps, ReturnKeeps
  DEF Step, Inside
<1> QED
  BY <1>2, <1>3 DEF Next

\* What the holder of the mutex knows holds in every state of list.c.
LEMMA Invariance == Spec => []IInv
BY Initially, Inductive, PTL DEF Spec

\* llist->size never goes below zero and every pointer is a node or NULL.
THEOREM TypeCorrect == Spec => []TypeOK
<1>1. IInv => TypeOK
  BY DEF IInv
<1> QED
  BY <1>1, Invariance, PTL

\* The header and the links of list.c always describe one ring of live nodes.
THEOREM ListIsWellFormed == Spec => []WellFormed
<1>1. IInv => WellFormed
  <2> SUFFICES ASSUME IInv
               PROVE  WellFormed
    OBVIOUS
  <2>1. Elements(order) = Linked
    BY Zenon DEF Elements, Linked
  <2>2. Linked \subseteq heap
    BY <2>1 DEF IInv, Accounted
  <2>3. Size(order) = Len(order) /\ First(order) = order[1]
    BY Zenon DEF Size, First
  <2> QED
    BY <2>2, <2>3, Zenon DEF IInv, Shape, WellFormed
<1> QED
  BY <1>1, Invariance, PTL

\* No node of list.c is lost or freed twice.
THEOREM NothingLeaks == Spec => []NoLeak
<1>1. IInv => NoLeak
  BY Zenon DEF IInv, Accounted, NoLeak, Elements, Linked
<1> QED
  BY <1>1, Invariance, PTL

\* No call of list.c follows a null or a freed pointer.
THEOREM NothingUsedAfterFree == Spec => []NoUseAfterFree
<1>1. IInv => NoUseAfterFree
  <2> SUFFICES ASSUME IInv, NEW t \in Threads
               PROVE  SafeEnter(t) /\ SafeWrite(t) /\ SafeWalk(t) /\ SafeFetch(t)
    BY DEF NoUseAfterFree
  <2>1. Elements(order) \subseteq heap
    BY DEF IInv, Accounted
  <2>2. ASSUME Critical(t), ~(pc[t] = "walk" /\ op[t] = "empty_list")
        PROVE  /\ size = 0 <=> order = <<>>
               /\ order # <<>> => /\ head = First(order) /\ prev[First(order)] = Last(order)
                                  /\ First(order) \in heap /\ Last(order) \in heap
                                  /\ size # 1 => Second(order) \in heap /\ ButLast(order) \in heap
    BY <2>1, <2>2, RingInside, RingEnds
  <2>3. SafeEnter(t)
    BY <2>2 DEF SafeEnter, Critical
  <2>4. SafeWrite(t)
    <3> SUFFICES ASSUME pc[t] = "write"
                 PROVE  SafeWrite(t)
      BY DEF SafeWrite
    <3>1. /\ op[t] \in Pushes \union {"remove_front", "remove_back"}
          /\ WriteLocals(t)
      BY DEF IInv, Locals, Control, InItsFunction
    <3>2. CASE op[t] \in Pushes
      <4>1. node[t] \in heap
        BY <3>2 DEF IInv, Accounted, InFlight, Pushing
      <4>2. op[t] \notin Removals
        BY <3>2 DEF Pushes, Removals
      <4> QED
        BY <2>2, <3>1, <3>2, <4>1, <4>2 DEF SafeWrite, Critical, WriteLocals, Removals
    <3>3. CASE op[t] = "remove_front"
      BY <2>2, <3>1, <3>3 DEF SafeWrite, Critical, WriteLocals, Pushes
    <3>4. CASE op[t] = "remove_back"
      BY <2>2, <3>1, <3>4 DEF SafeWrite, Critical, WriteLocals, Pushes
    <3> QED
      BY <3>1, <3>2, <3>3, <3>4
  <2>5. SafeWalk(t)
    <3>1. CASE pc[t] = "walk" /\ op[t] = "empty_list"
      <4>1. order \in Seq(Node) /\ Chain(order, next, prev) /\ size \in Nat /\ i[t] \in Nat
        BY DEF IInv, TypeOK, Shape
      <4>2. /\ i[t] + Size(order) = size
            /\ order # <<>> => cur[t] = First(order)
            /\ Size(order) > 1 => oth[t] = Second(order)
        BY <3>1 DEF IInv, Locals, WalkLocals
      <4>3. order = <<>> => Size(order) = 0
        BY NoNodes
      <4>4. order # <<>> => /\ Size(order) \in Nat /\ First(order) \in heap
                            /\ Size(order) > 1 => Second(order) \in heap
        BY <2>1, <4>1, ChainEnds, RemoveEnds
      <4> QED
        BY <3>1, <4>1, <4>2, <4>3, <4>4 DEF SafeWalk
    <3>2. CASE ~(pc[t] = "walk" /\ op[t] = "empty_list")
      BY <2>1, <3>2 DEF SafeWalk, IInv, Locals, WalkLocals
    <3> QED
      BY <3>1, <3>2
  <2>6. SafeFetch(t)
    BY <2>1 DEF SafeFetch, IInv, Locals, FoundLocals
  <2> QED
    BY <2>3, <2>4, <2>5, <2>6
<1> QED
  BY <1>1, Invariance, PTL

-----------------------------------------------------------------------------
(* The refinement: what a thread knows of the result it is working out.     *)

Place(t) ==
  /\ pc[t] = "idle" => idx[t] = 0
  /\ pc[t] \in {"idle", "lock", "enter", "write"} => seen[t] = <<>>
  /\ pc[t] \in {"idle", "lock", "enter", "write", "walk"} => num[t] = 0
  /\ pc[t] = "walk" /\ op[t] \in {"traverse", "get_node_data_at_index"} =>
       /\ i[t] <= Size(order)
       /\ order # <<>> => cur[t] = At(order, i[t])
  /\ pc[t] = "walk" /\ op[t] = "traverse" =>
       Len(seen[t]) = i[t] /\ \A k \in 1 .. i[t] : seen[t][k] = data[order[k]]
  /\ pc[t] = "walk" /\ op[t] = "get_node_data_at_index" =>
       order # <<>> /\ i[t] <= idx[t] /\ idx[t] <= Size(order)

\* A step of one thread leaves the locals of the others, the payloads of the
\* nodes that are in use and, without the lock, the list alone.
LEMMA OneSteps ==
  ASSUME IInv, NEW t \in Threads, Step(t)
  PROVE  /\ \A u \in Threads \ {t} :
              /\ pc'[u] = pc[u] /\ op'[u] = op[u] /\ idx'[u] = idx[u] /\ node'[u] = node[u]
              /\ cur'[u] = cur[u] /\ i'[u] = i[u] /\ seen'[u] = seen[u] /\ num'[u] = num[u]
         /\ \A e \in heap : data'[e] = data[e]
         /\ order' = order \/ Critical(t)
<1>1. CASE CallPush(t)
  <2>1. PICK o \in Ops[t] \intersect Pushes, n \in Node \ heap, d \in Data :
          /\ data' = [data EXCEPT ![n] = d]
          /\ node' = [node EXCEPT ![t] = n]
          /\ op' = [op EXCEPT ![t] = o]
    BY <1>1 DEF CallPush
  <2>2. pc' = [pc EXCEPT ![t] = "lock"] /\ UNCHANGED <<order, idx, cur, i, seen, num>>
    BY <1>1 DEF CallPush
  <2> QED
    BY <2>1, <2>2 DEF IInv, TypeOK
<1>2. CASE CallOther(t) \/ Lock(t)
  <2>1. CASE CallOther(t)
    BY <2>1 DEF CallOther, nodes, IInv, TypeOK
  <2>2. CASE Lock(t)
    BY <2>2 DEF Lock, nodes, locals, IInv, TypeOK
  <2> QED
    BY <1>2, <2>1, <2>2
<1>3. CASE Unlock(t) \/ Fetch(t)
  <2>1. UNCHANGED <<order, data>>
    BY <1>3 DEF Unlock, Fetch, nodes
  <2>2. \/ pc' = [pc EXCEPT ![t] = "fetch"] /\ UNCHANGED <<op, idx, node, cur, i, seen, num>>
        \/ Leave(t)
    BY <1>3 DEF Unlock, Fetch, locals
  <2> QED
    BY <2>1, <2>2 DEF Leave, IInv, TypeOK
<1>4. CASE Enter(t)
  <2>1. UNCHANGED <<data, order, op, idx, node, i>>
    BY <1>4, EnterGoesOn
  <2>2. \A u \in Threads \ {t} :
          pc'[u] = pc[u] /\ cur'[u] = cur[u] /\ seen'[u] = seen[u] /\ num'[u] = num[u]
    <3>1. ASSUME NEW l, NEW c, NEW o, Take(t, l, c, o)
          PROVE  \A u \in Threads \ {t} :
                   pc'[u] = pc[u] /\ cur'[u] = cur[u] /\ seen'[u] = seen[u] /\ num'[u] = num[u]
      BY <3>1 DEF Take, IInv, TypeOK
    <3>2. ASSUME NEW s, NEW r, Result(t, s, r)
          PROVE  \A u \in Threads \ {t} :
                   pc'[u] = pc[u] /\ cur'[u] = cur[u] /\ seen'[u] = seen[u] /\ num'[u] = num[u]
      BY <3>2 DEF Result, IInv, TypeOK
    <3>3. CASE EnterPush(t) \/ EnterTraverse(t) \/ EnterGet(t)
      BY <3>1, <3>2, <3>3, Zenon DEF EnterPush, EnterTraverse, EnterGet
    <3>4. CASE EnterRemoveFront(t) \/ EnterRemoveBack(t) \/ EnterEmptyList(t)
      BY <3>1, <3>2, <3>4, Zenon DEF EnterRemoveFront, EnterRemoveBack, EnterEmptyList
    <3>5. CASE EnterFront(t) \/ EnterBack(t) \/ EnterIsEmpty(t) \/ EnterSize(t)
      BY <3>2, <3>5, Zenon DEF EnterFront, EnterBack, EnterIsEmpty, EnterSize
    <3> QED
      BY <1>4, <3>3, <3>4, <3>5 DEF Enter
  <2> QED
    BY <2>1, <2>2
<1>5. CASE WritePush(t) \/ WriteRemoveFront(t) \/ WriteRemoveBack(t)
  <2>1. /\ pc[t] = "write" /\ pc' = [pc EXCEPT ![t] = "unlock"]
        /\ UNCHANGED <<data, op, idx, node, cur, i, num>>
        /\ seen' = seen \/ seen' = [seen EXCEPT ![t] = Append(seen[t], data[cur[t]])]
    BY <1>5 DEF WritePush, WriteRemoveFront, WriteRemoveBack, FreeOne, locals
  <2> QED
    BY <2>1 DEF Critical, IInv, TypeOK
<1>6. CASE WalkEmptyList(t)
  BY <1>6 DEF WalkEmptyList, Critical, IInv, TypeOK
<1>7. CASE EndEmptyList(t) \/ EndWalk(t)
  BY <1>7 DEF EndEmptyList, EndWalk, nodes, locals, IInv, TypeOK
<1>8. CASE WalkTraverse(t) \/ WalkGet(t)
  BY <1>8 DEF WalkTraverse, WalkGet, nodes, IInv, TypeOK
<1> QED
  BY <1>1, <1>2, <1>3, <1>4, <1>5, <1>6, <1>7, <1>8 DEF Step, Inside

\* In use: the nodes in the list and the nodes being pushed.
LEMMA InUse ==
  ASSUME IInv
  PROVE  /\ Elements(order) \subseteq heap
         /\ \A k \in 1 .. Len(order) : order[k] \in Elements(order)
         /\ \A u \in Threads : Pushing(u) => node[u] \in heap
<1>1. Elements(order) \subseteq heap /\ \A u \in Threads : Pushing(u) => node[u] \in heap
  BY DEF IInv, Accounted, InFlight
<1>2. \A k \in 1 .. Len(order) : order[k] \in Elements(order)
  BY Zenon DEF Elements
<1> QED
  BY <1>1, <1>2

\* While the list and the payloads in it stay, so do the contents.
LEMMA SameContents ==
  ASSUME IInv, order' = order, \A e \in heap : data'[e] = data[e]
  PROVE  Contents' = Contents
<1> DEFINE L == Len(order)
<1>1. \A k \in 1 .. L : data'[order[k]] = data[order[k]]
  BY InUse
<1>2. Len(order') = L /\ \A k \in 1 .. L : data'[order'[k]] = data[order[k]]
  BY <1>1
<1>3. Contents = [k \in 1 .. L |-> data[order[k]]] /\ Contents' = [k \in 1 .. L |-> data'[order'[k]]]
  BY <1>2, Zenon DEF Contents
<1> HIDE DEF L
<1> QED
  BY <1>2, <1>3

\* What the others know, and the calls they are in, do not change.
LEMMA OthersStay ==
  ASSUME IInv, NEW t \in Threads, Step(t), NEW u \in Threads \ {t}, Place(u)
  PROVE  Place(u)' /\ CallOf(u)' = CallOf(u)
<1>1. /\ pc'[u] = pc[u] /\ op'[u] = op[u] /\ idx'[u] = idx[u] /\ node'[u] = node[u]
      /\ cur'[u] = cur[u] /\ i'[u] = i[u] /\ seen'[u] = seen[u] /\ num'[u] = num[u]
      /\ \A e \in heap : data'[e] = data[e]
      /\ order' = order \/ Critical(t)
  BY OneSteps
<1>2. pc[u] = "walk" => order' = order
  BY <1>1 DEF IInv, Control, Critical
<1>3. pc[u] = "walk" => Contents' = Contents
  BY <1>1, <1>2, SameContents
<1>4. Place(u)'
  <2>1. ASSUME pc[u] = "walk", op[u] = "traverse"
        PROVE  \A k \in 1 .. i[u] : data'[order'[k]] = data[order[k]]
    <3> DEFINE L == Len(order)
    <3>1. i[u] <= L /\ \A k \in 1 .. L : order[k] \in heap
      BY <2>1, InUse, Zenon DEF Place, Size
    <3>2. L \in Nat /\ i[u] \in Nat
      BY Positions DEF IInv, TypeOK
    <3> HIDE DEF L
    <3>3. \A k \in 1 .. i[u] : k \in 1 .. L
      BY <3>1, <3>2
    <3> QED
      BY <1>1, <1>2, <2>1, <3>1, <3>3
  <2>2. pc[u] = "walk" => Size(order)' = Size(order) /\ At(order, i[u])' = At(order, i[u])
    BY <1>1, <1>2 DEF Size, At
  <2> QED
    BY <1>1, <1>2, <2>1, <2>2 DEF Place
<1>5. CallOf(u)' = CallOf(u)
  <2>1. TookEffect(u)' <=> TookEffect(u)
    BY <1>1 DEF TookEffect
  <2>2. TookEffect(u) => ResultSeen(u)' = ResultSeen(u)
    <3>1. pc[u] \in {"unlock", "fetch"} /\ op[u] = "get_node_data_at_index" /\ cur[u] # NULL =>
            cur[u] \in heap
      BY InUse DEF IInv, Locals, FoundLocals
    <3> QED
      BY <1>1, <1>3, <3>1 DEF ResultSeen, TookEffect
  <2>3. op[u] \in Pushes /\ ~TookEffect(u) => data'[node[u]] = data[node[u]]
    <3>1. op[u] \in Pushes /\ ~TookEffect(u) => Pushing(u)
      BY DEF TookEffect, Pushing, IInv, Control, InItsFunction, Label, Pushes
    <3> QED
      BY <1>1, <3>1, InUse
  <2>4. TookEffect(u)' = TookEffect(u)
    BY <2>1 DEF TookEffect
  <2>5. /\ (IF op'[u] \in Pushes /\ ~TookEffect(u)' THEN data'[node'[u]] ELSE NoData)
             = (IF op[u] \in Pushes /\ ~TookEffect(u) THEN data[node[u]] ELSE NoData)
        /\ (IF TookEffect(u)' THEN 0 ELSE idx'[u]) = (IF TookEffect(u) THEN 0 ELSE idx[u])
        /\ (IF TookEffect(u)' THEN ResultSeen(u)' ELSE <<>>)
             = (IF TookEffect(u) THEN ResultSeen(u) ELSE <<>>)
        /\ op'[u] = op[u] /\ num'[u] = num[u]
    BY <1>1, <2>1, <2>2, <2>3
  <2> QED
    BY <2>4, <2>5, Zenon DEF CallOf
<1> QED
  BY <1>4, <1>5

-----------------------------------------------------------------------------
(* The three kinds of step of the abstract deque.                           *)

\* A call that is under way and one that has its result.
Pending(o, a, k) ==
  [op |-> o, arg |-> a, idx |-> k, done |-> FALSE, seen |-> <<>>, num |-> 0]
Done(o, s, n) ==
  [op |-> o, arg |-> NoData, idx |-> 0, done |-> TRUE, seen |-> s, num |-> n]

\* An idle thread's record with the three fields of a call.
LEMMA IdleCalled ==
  ASSUME NEW o, NEW d, NEW k
  PROVE  [Abstract!Idle EXCEPT !.op = o, !.arg = d, !.idx = k] = Pending(o, d, k)
<1> DEFINE r0 == Abstract!Idle
           R  == [op : {"none", o}, arg : {NoData, d}, idx : {0, k}, done : BOOLEAN,
                  seen : {<<>>}, num : {0}]
           r1 == [r0 EXCEPT !.op = o]
           r2 == [r1 EXCEPT !.arg = d]
           r3 == [r2 EXCEPT !.idx = k]
<1>1. r0 \in R /\ r0.done = FALSE
  BY DEF Abstract!Idle
<1> HIDE DEF r0
<1>2. r1 \in R /\ r1.done = FALSE /\ r1.op = o
  BY <1>1
<1> HIDE DEF r1
<1>3. r2 \in R /\ r2.done = FALSE /\ r2.op = o /\ r2.arg = d
  BY <1>2
<1> HIDE DEF r2
<1>4. r3 \in R /\ r3.done = FALSE /\ r3.op = o /\ r3.arg = d /\ r3.idx = k
  BY <1>3
<1> HIDE DEF r3
<1>5. r3 = Pending(o, d, k)
  BY <1>4 DEF Pending
<1> QED
  BY <1>5 DEF r0, r1, r2, r3

\* An idle thread's record with the result of a call.
Finished(o, s, n) == [Abstract!Idle EXCEPT !.op = o, !.done = TRUE, !.seen = s, !.num = n]

LEMMA IdleDone ==
  ASSUME NEW o, NEW s, NEW n
  PROVE  Finished(o, s, n) = Done(o, s, n)
<1> DEFINE r0 == Abstract!Idle
           R  == [op : {"none", o}, arg : {NoData}, idx : {0}, done : BOOLEAN,
                  seen : {<<>>, s}, num : {0, n}]
           r1 == [r0 EXCEPT !.op = o]
           r2 == [r1 EXCEPT !.done = TRUE]
           r3 == [r2 EXCEPT !.seen = s]
           r4 == [r3 EXCEPT !.num = n]
<1>1. r0 \in R /\ r0.arg = NoData /\ r0.idx = 0
  BY DEF Abstract!Idle
<1> HIDE DEF r0
<1>2. r1 \in R /\ r1.arg = NoData /\ r1.idx = 0 /\ r1.op = o
  BY <1>1
<1> HIDE DEF r1
<1>3. r2 \in R /\ r2.arg = NoData /\ r2.idx = 0 /\ r2.op = o /\ r2.done = TRUE
  BY <1>2
<1> HIDE DEF r2
<1>4. /\ r3 \in R /\ r3.arg = NoData /\ r3.idx = 0 /\ r3.op = o /\ r3.done = TRUE
      /\ r3.seen = s
  BY <1>3
<1> HIDE DEF r3
<1>5. /\ r4 \in R /\ r4.arg = NoData /\ r4.idx = 0 /\ r4.op = o /\ r4.done = TRUE
      /\ r4.seen = s /\ r4.num = n
  BY <1>4
<1> HIDE DEF r4
<1>6. r4 = Done(o, s, n)
  BY <1>5 DEF Done
<1> QED
  BY <1>6 DEF r0, r1, r2, r3, r4, Finished

\* The invariant of the refinement, and a step of the deque or of nothing.
RInv == IInv /\ \A t \in Threads : Place(t)

DequeStep == Abstract!Next \/ UNCHANGED <<Held, Calls>>

\* A call that has not taken effect yet.
LEMMA CallBefore ==
  ASSUME NEW t \in Threads, Place(t),
         pc[t] \in {"lock", "enter", "write"} \/ (pc[t] = "walk" /\ op[t] # "empty_list")
  PROVE  CallOf(t) = Pending(op[t], IF op[t] \in Pushes THEN data[node[t]] ELSE NoData,
                         idx[t])
<1>1. TookEffect(t) = FALSE /\ num[t] = 0
  BY DEF TookEffect, Place
<1> QED
  BY <1>1, Zenon DEF CallOf, Pending

\* The same of the next state.
LEMMA CallBeforeNext ==
  ASSUME NEW t \in Threads, Place(t)',
         pc'[t] \in {"lock", "enter", "write"} \/ (pc'[t] = "walk" /\ op'[t] # "empty_list")
  PROVE  CallOf(t)' = Pending(op'[t], IF op'[t] \in Pushes THEN data'[node'[t]] ELSE NoData,
                          idx'[t])
<1>1. TookEffect(t)' = FALSE /\ num'[t] = 0
  BY DEF TookEffect, Place
<1> QED
  BY <1>1, Zenon DEF CallOf, Pending

\* A call that has taken effect.
LEMMA CallAfter ==
  ASSUME NEW t \in Threads,
         pc[t] \in {"unlock", "fetch"} \/ (pc[t] = "walk" /\ op[t] = "empty_list")
  PROVE  CallOf(t) = Done(op[t], ResultSeen(t), num[t])
<1>1. TookEffect(t) = TRUE
  BY DEF TookEffect
<1> QED
  BY <1>1, Zenon DEF CallOf, Done

\* The same of the next state.
LEMMA CallAfterNext ==
  ASSUME NEW t \in Threads,
         pc'[t] \in {"unlock", "fetch"} \/ (pc'[t] = "walk" /\ op'[t] = "empty_list")
  PROVE  CallOf(t)' = Done(op'[t], ResultSeen(t)', num'[t])
<1>1. TookEffect(t)' = TRUE
  BY DEF TookEffect
<1> QED
  BY <1>1, Zenon DEF CallOf, Done

\* Only the call of the thread that steps changes.
LEMMA OneCall ==
  ASSUME RInv, NEW t \in Threads, Step(t)
  PROVE  /\ Calls[t] = CallOf(t)
         /\ Calls' = [Calls EXCEPT ![t] = CallOf(t)']
         /\ CallOf(t)' = CallOf(t) => Calls' = Calls
         /\ \A u \in Threads \ {t} : Place(u)'
<1>1. \A u \in Threads \ {t} : CallOf(u)' = CallOf(u) /\ Place(u)'
  BY OthersStay DEF RInv
<1>2. Calls = [u \in Threads |-> CallOf(u)] /\ Calls' = [u \in Threads |-> CallOf(u)']
  BY DEF Calls
<1> QED
  BY <1>1, <1>2

\* The thread has got no further in its call.
LEMMA Stutters ==
  ASSUME RInv, NEW t \in Threads, Step(t), CallOf(t)' = CallOf(t), Held' = Held
  PROVE  DequeStep
BY OneCall DEF DequeStep

\* A call of the deque begins.
LEMMA Invokes ==
  ASSUME RInv, NEW t \in Threads, Step(t), Held' = Held, pc[t] = "idle",
         NEW o \in Ops[t], NEW d \in Data \union {NoData}, NEW k \in 0 .. MaxIndex,
         o \in Pushes <=> d # NoData,
         o # "get_node_data_at_index" => k = 0,
         CallOf(t)' = Pending(o, d, k)
  PROVE  DequeStep
<1>1. TookEffect(t) = FALSE /\ num[t] = 0 /\ idx[t] = 0 /\ op[t] = "none" /\ op[t] \notin Pushes
  BY DEF TookEffect, RInv, Place, IInv, Control, InItsFunction, Pushes
<1>2. CallOf(t) = Abstract!Idle
  BY <1>1, Zenon DEF CallOf, Abstract!Idle
<1>3. Calls[t] = Abstract!Idle /\ Calls' = [Calls EXCEPT ![t] =
                  [Abstract!Idle EXCEPT !.op = o, !.arg = d, !.idx = k]]
  <2>1. Calls[t] = CallOf(t) /\ Calls' = [Calls EXCEPT ![t] = CallOf(t)']
    BY OneCall
  <2>2. CallOf(t)' = [Abstract!Idle EXCEPT !.op = o, !.arg = d, !.idx = k]
    BY IdleCalled
  <2> QED
    BY <1>2, <2>1, <2>2, Zenon
<1>4. Abstract!Invoke(t)
  BY <1>3, Zenon DEF Abstract!Invoke, Abstract!Pushes, Pushes
<1> QED
  BY <1>4 DEF DequeStep, Abstract!Next

\* A call of the deque returns.
LEMMA Returns ==
  ASSUME RInv, NEW t \in Threads, Step(t), Held' = Held,
         pc[t] \in {"unlock", "fetch"}, pc'[t] = "idle", op'[t] = "none",
         idx'[t] = 0, num'[t] = 0
  PROVE  DequeStep
<1>1. TookEffect(t)' = FALSE /\ op'[t] \notin Pushes
  BY DEF TookEffect, Pushes
<1>2. CallOf(t)' = Abstract!Idle
  BY <1>1, Zenon DEF CallOf, Abstract!Idle
<1>3. CallOf(t).done
  BY CallAfter DEF Done
<1>4. Abstract!Return(t)
  BY <1>2, <1>3, OneCall DEF Abstract!Return
<1> QED
  BY <1>4 DEF DequeStep, Abstract!Next

\* What the deque knows of a call that has not taken effect.
LEMMA CallIs ==
  ASSUME NEW t \in Threads, NEW o, NEW a, NEW k,
         CallOf(t) = Pending(o, a, k), o # "none"
  PROVE  /\ Calls[t] # Abstract!Idle /\ ~Calls[t].done
         /\ Calls[t].op = o /\ Calls[t].arg = a /\ Calls[t].idx = k
<1>1. Calls[t] = Pending(o, a, k)
  BY DEF Calls
<1>2. /\ Calls[t].op = o /\ Calls[t].arg = a /\ Calls[t].idx = k
      /\ Calls[t].done = FALSE
  BY <1>1 DEF Pending
<1>3. Calls[t] # Abstract!Idle
  BY <1>2 DEF Abstract!Idle
<1> QED
  BY <1>2, <1>3

\* A call of the deque takes effect.
LEMMA TakesEffect ==
  ASSUME RInv, NEW t \in Threads, Step(t), NEW o, NEW s, NEW n, NEW h, Held' = h,
         Calls[t].op = o, CallOf(t)' = Done(o, s, n)
  PROVE  Abstract!Effect(t, h, s, n)
<1>1. CallOf(t)' = Finished(o, s, n)
  BY IdleDone
<1>2. Calls' = [Calls EXCEPT ![t] = CallOf(t)']
  BY OneCall
<1> QED
  BY <1>1, <1>2, Zenon DEF Abstract!Effect, Finished

-----------------------------------------------------------------------------
(* One lemma for each group of actions again, now for the refinement.       *)

\* Outside the loop of empty_list what the callers hold is the contents.
LEMMA HeldIs ==
  ASSUME IInv, NEW t \in Threads, Critical(t)
  PROVE  Held = IF pc[t] = "walk" /\ op[t] = "empty_list" THEN <<>> ELSE Contents
BY OneInside DEF Held, IInv

\* The same of the next state.
LEMMA HeldIsNext ==
  ASSUME IInv', NEW t \in Threads, Critical(t)'
  PROVE  Held' = IF pc'[t] = "walk" /\ op'[t] = "empty_list" THEN <<>> ELSE Contents'
<1>1. \A u \in Threads \ {t} : ~Critical(u)'
  BY DEF IInv, Control
<1>2. \A u \in Threads \ {t} : pc'[u] # "walk"
  BY <1>1 DEF Critical
<1>3. Emptying' <=> pc'[t] = "walk" /\ op'[t] = "empty_list"
  BY <1>2 DEF Emptying
<1> QED
  BY <1>3 DEF Held

\* The contents are the payloads of the list.
LEMMA ContentsAre ==
  ASSUME IInv
  PROVE  /\ Contents = Loads(order, data) /\ data \in [Node -> Data] /\ order \in Seq(Node)
         /\ Contents \in Seq(Data) /\ Len(Contents) = Size(order)
         /\ Contents = <<>> <=> order = <<>>
         /\ order # <<>> => /\ Head(Contents) = data[First(order)]
                            /\ Contents[Len(Contents)] = data[Last(order)]
<1>1. data \in [Node -> Data] /\ order \in Seq(Node)
  BY DEF IInv, TypeOK
<1>2. Contents = Loads(order, data) /\ Size(order) = Len(order)
  BY Zenon DEF Contents, Loads, Size
<1> QED
  BY <1>1, <1>2, LoadsAre, LoadsRemoved

\* A step that leaves the list alone and neither starts nor ends the loop of
\* empty_list leaves what is held alone.
LEMMA HeldStays ==
  ASSUME IInv, order' = order, \A e \in heap : data'[e] = data[e], Emptying' <=> Emptying
  PROVE  Held' = Held
BY SameContents DEF Held

\* A call begins.
LEMMA CallRefines ==
  ASSUME RInv, IInv', NEW t \in Threads, Step(t), CallPush(t) \/ CallOther(t)
  PROVE  DequeStep /\ Place(t)'
<1>1. /\ pc[t] = "idle" /\ pc'[t] = "lock" /\ order' = order
      /\ UNCHANGED <<seen, num>>
  BY DEF CallPush, CallOther, RInv, IInv, TypeOK, nodes
<1>2. Place(t)'
  BY <1>1 DEF Place, RInv
<1>3. Held' = Held
  <2>1. \A u \in Threads \ {t} : pc'[u] = pc[u] /\ op'[u] = op[u]
    BY OneSteps DEF RInv
  <2>2. Emptying' <=> Emptying
    BY <1>1, <2>1 DEF Emptying
  <2> QED
    BY <1>1, <2>2, OneSteps, HeldStays DEF RInv
<1>4. CallOf(t)' = Pending(op'[t], IF op'[t] \in Pushes THEN data'[node'[t]] ELSE NoData,
                       idx'[t])
  BY <1>1, <1>2, CallBeforeNext
<1>5. CASE CallPush(t)
  <2>1. PICK o \in Ops[t] \intersect Pushes, n \in Node \ heap, d \in Data :
          /\ data' = [data EXCEPT ![n] = d]
          /\ node' = [node EXCEPT ![t] = n]
          /\ op' = [op EXCEPT ![t] = o]
    BY <1>5 DEF CallPush
  <2>2. op'[t] = o /\ data'[node'[t]] = d /\ idx'[t] = 0
    BY <1>1, <1>5, <2>1 DEF CallPush, RInv, IInv, TypeOK, Place
  <2>3. CallOf(t)' = Pending(o, d, 0)
    BY <1>4, <2>1, <2>2
  <2>4. /\ o \in Ops[t] /\ o \in Pushes /\ d \in Data \union {NoData} /\ d # NoData
        /\ o # "get_node_data_at_index"
    BY Payloads DEF Pushes
  <2>5. 0 \in 0 .. MaxIndex
    BY MaxIndexIsNat
  <2> QED
    BY <1>1, <1>2, <1>3, <2>3, <2>4, <2>5, Invokes
<1>6. CASE CallOther(t)
  <2>1. PICK o \in Ops[t] \ Pushes, k \in 0 .. MaxIndex :
          /\ o # "get_node_data_at_index" => k = 0
          /\ op' = [op EXCEPT ![t] = o]
          /\ idx' = [idx EXCEPT ![t] = k]
    BY <1>6 DEF CallOther
  <2>2. op'[t] = o /\ idx'[t] = k
    BY <2>1 DEF RInv, IInv, TypeOK
  <2>3. CallOf(t)' = Pending(o, NoData, k)
    BY <1>4, <2>1, <2>2
  <2> QED
    BY <1>1, <1>2, <1>3, <2>1, <2>3, Invokes
<1> QED
  BY <1>5, <1>6

\* The lock moves the thread on; the unlock ends the call or leaves the node
\* that has been found to be read.
LEMMA LockRefines ==
  ASSUME RInv, IInv', NEW t \in Threads, Step(t), Lock(t) \/ Unlock(t) \/ Fetch(t)
  PROVE  DequeStep /\ Place(t)'
<1>1. order' = order /\ data' = data /\ pc[t] \in {"lock", "unlock", "fetch"}
  BY DEF Lock, Unlock, Fetch, nodes
<1>2. \A u \in Threads \ {t} : pc'[u] = pc[u] /\ op'[u] = op[u]
  BY OneSteps DEF RInv
<1>3. pc'[t] # "walk" => Held' = Held
  <2>1. pc'[t] # "walk" => (Emptying' <=> Emptying)
    BY <1>1, <1>2 DEF Emptying
  <2> QED
    BY <1>1, <2>1, HeldStays DEF RInv
<1>4. CASE Lock(t)
  <2>1. pc[t] = "lock" /\ pc'[t] = "enter" /\ UNCHANGED <<op, idx, node, seen, num>>
    BY <1>4 DEF Lock, locals, RInv, IInv, TypeOK
  <2>2. Place(t)'
    BY <2>1 DEF Place, RInv
  <2>3. CallOf(t)' = CallOf(t)
    BY <1>1, <2>1, <2>2, CallBefore, CallBeforeNext DEF RInv
  <2> QED
    BY <1>3, <2>1, <2>2, <2>3, Stutters
<1>5. CASE Leave(t) /\ pc[t] \in {"unlock", "fetch"}
  <2>1. pc'[t] = "idle" /\ op'[t] = "none" /\ idx'[t] = 0 /\ seen'[t] = <<>> /\ num'[t] = 0
    BY <1>5 DEF Leave, RInv, IInv, TypeOK
  <2>2. Place(t)'
    BY <2>1 DEF Place
  <2> QED
    BY <1>3, <1>5, <2>1, <2>2, Returns
<1>6. CASE /\ op[t] = "get_node_data_at_index" /\ cur[t] # NULL /\ pc[t] = "unlock"
           /\ pc' = [pc EXCEPT ![t] = "fetch"]
           /\ UNCHANGED <<op, idx, node, cur, seen, num>>
  <2>1. pc'[t] = "fetch"
    BY <1>6 DEF RInv, IInv, TypeOK
  <2>2. Place(t)'
    BY <2>1 DEF Place
  <2>3. ResultSeen(t)' = ResultSeen(t)
    BY <1>1, <1>6, <2>1 DEF ResultSeen
  <2>4. CallOf(t)' = CallOf(t)
    BY <1>6, <2>1, <2>3, CallAfter, CallAfterNext
  <2> QED
    BY <1>3, <2>1, <2>2, <2>4, Stutters
<1> QED
  BY <1>4, <1>5, <1>6 DEF Unlock, Fetch, locals

-----------------------------------------------------------------------------
(* The reads.                                                               *)

\* The deque's operation, once its effect has been found.
LEMMA Applies ==
  ASSUME NEW t \in Threads, NEW o, NEW a, NEW k, NEW s, NEW n,
         Calls[t] # Abstract!Idle, ~Calls[t].done,
         Calls[t].op = o, Calls[t].arg = a, Calls[t].idx = k,
         \/ o = "push_front" /\ Abstract!Effect(t, <<a>> \o Held, <<>>, 0)
         \/ o = "push_back"  /\ Abstract!Effect(t, Append(Held, a), <<>>, 0)
         \/ o \in {"remove_front", "remove_back"} /\ Held = <<>> /\ Abstract!Effect(t, Held, <<>>, -1)
         \/ o = "remove_front" /\ Held # <<>> /\ Abstract!Effect(t, Tail(Held), <<Head(Held)>>, 0)
         \/ o = "remove_back"  /\ Held # <<>>
              /\ Abstract!Effect(t, Abstract!AllButLast(Held), <<Abstract!LastOf(Held)>>, 0)
         \/ o = "empty_list" /\ Abstract!Effect(t, <<>>, Held, 0)
         \/ o = "front" /\ Abstract!Effect(t, Held, IF Held = <<>> THEN <<>> ELSE <<Head(Held)>>, 0)
         \/ o = "back"  /\ Abstract!Effect(t, Held, IF Held = <<>> THEN <<>> ELSE <<Abstract!LastOf(Held)>>, 0)
         \/ o = "is_empty" /\ Abstract!Effect(t, Held, <<>>, IF Held = <<>> THEN 1 ELSE 0)
         \/ o = "size"     /\ Abstract!Effect(t, Held, <<>>, Len(Held))
         \/ o = "traverse" /\ Abstract!Effect(t, Held, Held, 0)
         \/ o = "get_node_data_at_index" /\ Abstract!Effect(t, Held, Abstract!Indexed(Held, k), 0)
  PROVE  DequeStep
<1>1. Abstract!Apply(t)
  BY Zenon DEF Abstract!Apply
<1> QED
  BY <1>1, Zenon DEF DequeStep, Abstract!Next

\* A function that goes on without having its result.
LEMMA TakeRefines ==
  ASSUME RInv, IInv', NEW t \in Threads, Step(t), pc[t] = "enter",
         NEW l \in {"write", "walk"}, NEW c, NEW o, Take(t, l, c, o),
         l = "walk" => op[t] # "empty_list", Place(t)'
  PROVE  DequeStep
<1>1. /\ UNCHANGED <<order, data, op, idx, node, seen, num>> /\ pc'[t] = l
  BY DEF Take, nodes, RInv, IInv, TypeOK
<1>2. Critical(t) /\ Critical(t)'
  BY <1>1 DEF Critical
<1>3. Held' = Held
  <2>1. Held = Contents
    BY <1>2, HeldIs DEF RInv
  <2>2. Held' = Contents'
    BY <1>1, <1>2, HeldIsNext
  <2>3. Contents' = Contents
    BY <1>1, SameContents DEF RInv
  <2> QED
    BY <2>1, <2>2, <2>3
<1>4. CallOf(t)' = CallOf(t)
  BY <1>1, CallBefore, CallBeforeNext DEF RInv
<1> QED
  BY <1>3, <1>4, Stutters

\* A function that has its result after the first reads.
LEMMA ResultRefines ==
  ASSUME RInv, IInv', NEW t \in Threads, Step(t), pc[t] = "enter", op[t] \notin Pushes,
         NEW s, NEW n, Result(t, s, n)
  PROVE  /\ Place(t)'
         /\ Held = Contents
         /\ Abstract!Effect(t, Held, s, n)
         /\ Calls[t] # Abstract!Idle /\ ~Calls[t].done
         /\ Calls[t].op = op[t] /\ Calls[t].arg = NoData /\ Calls[t].idx = idx[t]
<1>1. /\ UNCHANGED <<order, data, op, idx, node, cur>> /\ pc'[t] = "unlock"
      /\ seen'[t] = s /\ num'[t] = n
  BY DEF Result, nodes, RInv, IInv, TypeOK
<1>2. Critical(t) /\ Critical(t)'
  BY <1>1 DEF Critical
<1>3. Place(t)'
  BY <1>1 DEF Place
<1>4. Held = Contents /\ Held' = Held
  <2>1. Held = Contents
    BY <1>2, HeldIs DEF RInv
  <2>2. Held' = Contents'
    BY <1>1, <1>2, HeldIsNext
  <2>3. Contents' = Contents
    BY <1>1, SameContents DEF RInv
  <2> QED
    BY <2>1, <2>2, <2>3
<1>5. cur'[t] = NULL
  BY <1>1 DEF RInv, IInv, Locals, FoundLocals
<1>6. ResultSeen(t)' = s
  BY <1>1, <1>5 DEF ResultSeen
<1>7. CallOf(t) = Pending(op[t], NoData, idx[t])
  BY CallBefore DEF RInv
<1>8. CallOf(t)' = Done(op[t], s, n)
  BY <1>1, <1>6, CallAfterNext
<1>9. op[t] # "none"
  BY DEF RInv, IInv, Control, InItsFunction
<1>10. /\ Calls[t] # Abstract!Idle /\ ~Calls[t].done
       /\ Calls[t].op = op[t] /\ Calls[t].arg = NoData /\ Calls[t].idx = idx[t]
  BY <1>7, <1>9, CallIs
<1>11. Abstract!Effect(t, Held, s, n)
  BY <1>4, <1>8, <1>10, TakesEffect, Zenon
<1> QED
  BY <1>3, <1>4, <1>10, <1>11

\* The reads after the lock, one step for each function.
LEMMA EnterRefines ==
  ASSUME RInv, IInv', NEW t \in Threads, Step(t), Enter(t)
  PROVE  DequeStep /\ Place(t)'
<1>1. /\ pc[t] = "enter" /\ Critical(t)
      /\ UNCHANGED <<size, next, prev, data, order, op, idx, i>>
  BY EnterGoesOn DEF Critical
<1>2. /\ Ring(order, next, prev) /\ order \in Seq(Node)
      /\ size = Size(order) /\ size \in Nat
      /\ size = 0 <=> order = <<>>
      /\ order = <<>> => head = NULL
      /\ order # <<>> => head = First(order)
      /\ order # <<>> => Elements(order) \subseteq Node
  BY <1>1, RingInside DEF RInv
<1>3. /\ Contents = <<>> <=> order = <<>>
      /\ Len(Contents) = size
      /\ order # <<>> => /\ Head(Contents) = data[head]
                         /\ Contents[Len(Contents)] = data[prev[head]]
  BY <1>2, ContentsAre, RingEnds DEF RInv
<1>4. seen[t] = <<>> /\ num[t] = 0 /\ i[t] = 0 /\ idx[t] \in Nat /\ MaxIndex \in Nat
  BY <1>1, MaxIndexIsNat DEF RInv, Place, IInv, TypeOK, Locals, FoundLocals
<1>5. ASSUME NEW l, NEW c, NEW o, Take(t, l, c, o)
      PROVE  pc'[t] = l /\ cur'[t] = c /\ seen' = seen /\ num' = num
  BY <1>5 DEF Take, RInv, IInv, TypeOK
<1>6. CASE EnterPush(t)
  <2>1. op[t] \in Pushes /\ \E c, o : Take(t, "write", c, o)
    BY <1>6, Zenon DEF EnterPush
  <2>2. PICK c, o : Take(t, "write", c, o)
    BY <2>1
  <2>3. Place(t)'
    BY <1>4, <1>5, <2>2 DEF Place
  <2> QED
    BY <1>1, <2>2, <2>3, TakeRefines
<1>7. CASE EnterRemoveFront(t) \/ EnterRemoveBack(t)
  <2>1. op[t] \in {"remove_front", "remove_back"} /\ op[t] \notin Pushes
    BY <1>7 DEF EnterRemoveFront, EnterRemoveBack, Pushes
  <2>2. CASE size = 0
    <3>1. Result(t, <<>>, -1)
      BY <1>7, <2>2 DEF EnterRemoveFront, EnterRemoveBack
    <3> QED
      BY <1>1, <1>2, <1>3, <2>1, <2>2, <3>1, ResultRefines, Applies
  <2>3. CASE size # 0
    <3>1. \E c, o : Take(t, "write", c, o)
      BY <1>7, <2>3, Zenon DEF EnterRemoveFront, EnterRemoveBack
    <3>2. PICK c, o : Take(t, "write", c, o)
      BY <3>1
    <3>3. Place(t)'
      BY <1>4, <1>5, <3>2 DEF Place
    <3> QED
      BY <1>1, <3>2, <3>3, TakeRefines
  <2> QED
    BY <2>2, <2>3
<1>8. CASE EnterTraverse(t)
  <2>1. op[t] = "traverse" /\ Take(t, "walk", head, NULL)
    BY <1>8 DEF EnterTraverse
  <2>2. pc'[t] = "walk" /\ cur'[t] = head /\ seen'[t] = <<>> /\ num'[t] = 0 /\ i'[t] = 0
    BY <1>1, <1>4, <1>5, <2>1
  <2>3. order # <<>> => head = At(order, 0)
    BY <1>2, AroundTheRing
  <2>4. Len(<<>>) = 0 /\ 1 .. 0 = {} /\ 0 <= size
    BY <1>2
  <2>5. Place(t)'
    BY <1>1, <1>2, <2>1, <2>2, <2>3, <2>4 DEF Place
  <2> QED
    BY <1>1, <2>1, <2>5, TakeRefines
<1>9. CASE EnterGet(t)
  <2>1. op[t] = "get_node_data_at_index" /\ op[t] \notin Pushes
    BY <1>9 DEF EnterGet, Pushes
  <2>2. CASE size = 0 \/ size < idx[t]
    <3>1. Result(t, <<>>, 0)
      BY <1>9, <2>2 DEF EnterGet
    <3>2. Abstract!Indexed(Contents, idx[t]) = <<>>
      BY <1>2, <1>3, <2>2 DEF Abstract!Indexed
    <3> QED
      BY <1>1, <2>1, <3>1, <3>2, ResultRefines, Applies
  <2>3. CASE ~(size = 0 \/ size < idx[t])
    <3>1. Take(t, "walk", head, NULL)
      BY <1>9, <2>3 DEF EnterGet
    <3>2. pc'[t] = "walk" /\ cur'[t] = head /\ seen'[t] = <<>> /\ num'[t] = 0 /\ i'[t] = 0
      BY <1>1, <1>4, <1>5, <3>1
    <3>3. head = At(order, 0)
      BY <1>2, <2>3, AroundTheRing
    <3>4. 0 <= size /\ 0 <= idx[t] /\ idx[t] <= size
      BY <1>2, <1>4, <2>3
    <3>5. Place(t)'
      BY <1>1, <1>2, <2>1, <2>3, <3>2, <3>3, <3>4 DEF Place
    <3> QED
      BY <1>1, <2>1, <3>1, <3>5, TakeRefines
  <2> QED
    BY <2>2, <2>3
<1>10. CASE EnterFront(t) \/ EnterBack(t)
  <2>1. op[t] \in {"front", "back"} /\ op[t] \notin Pushes
    BY <1>10 DEF EnterFront, EnterBack, Pushes
  <2>2. CASE op[t] = "front"
    <3>1. Result(t, IF Contents = <<>> THEN <<>> ELSE <<Head(Contents)>>, 0)
      BY <1>2, <1>3, <1>10, <2>2 DEF EnterFront, EnterBack
    <3> QED
      BY <1>1, <2>1, <2>2, <3>1, ResultRefines, Applies
  <2>3. CASE op[t] = "back"
    <3>1. Result(t, IF Contents = <<>> THEN <<>> ELSE <<Abstract!LastOf(Contents)>>, 0)
      BY <1>2, <1>3, <1>10, <2>3 DEF EnterFront, EnterBack, Abstract!LastOf
    <3> QED
      BY <1>1, <2>1, <2>3, <3>1, ResultRefines, Applies
  <2> QED
    BY <2>1, <2>2, <2>3
<1>11. CASE EnterIsEmpty(t)
  <2>1. op[t] = "is_empty" /\ op[t] \notin Pushes
    BY <1>11 DEF EnterIsEmpty, Pushes
  <2>2. Result(t, <<>>, IF Contents = <<>> THEN 1 ELSE 0)
    <3>1. order # <<>> => head # NULL
      BY <1>2, RingEnds, NullIsNoAddress
    <3> QED
      BY <1>2, <1>3, <1>11, <3>1 DEF EnterIsEmpty
  <2> QED
    BY <1>1, <2>1, <2>2, ResultRefines, Applies
<1>12. CASE EnterSize(t)
  <2>1. op[t] = "size" /\ op[t] \notin Pushes /\ Result(t, <<>>, Len(Contents))
    BY <1>3, <1>12 DEF EnterSize, Pushes
  <2> QED
    BY <1>1, <2>1, ResultRefines, Applies
<1>13. CASE EnterEmptyList(t)
  <2>1. op[t] = "empty_list" /\ op[t] \notin Pushes
    BY <1>13 DEF EnterEmptyList, Pushes
  <2>2. CASE size = 0
    <3>1. Result(t, <<>>, 0)
      BY <1>13, <2>2 DEF EnterEmptyList
    <3>2. /\ Place(t)' /\ Held = Contents /\ Abstract!Effect(t, Held, <<>>, 0)
          /\ Calls[t] # Abstract!Idle /\ ~Calls[t].done
          /\ Calls[t].op = op[t] /\ Calls[t].arg = NoData /\ Calls[t].idx = idx[t]
      BY <1>1, <2>1, <3>1, ResultRefines
    <3>3. Held = <<>>
      BY <1>2, <1>3, <2>2, <3>2
    <3>4. Abstract!Effect(t, <<>>, Held, 0)
      BY <3>2, <3>3, Zenon
    <3> QED
      BY <2>1, <3>2, <3>4, Applies
  <2>3. CASE size # 0
    <3>1. Take(t, "walk", head, next[head])
      BY <1>13, <2>3 DEF EnterEmptyList
    <3>2. pc'[t] = "walk" /\ op'[t] = op[t] /\ seen'[t] = <<>> /\ num'[t] = 0
      BY <1>1, <1>4, <1>5, <3>1
    <3>3. Place(t)'
      BY <2>1, <3>2 DEF Place
    <3>4. Held = Contents /\ Held' = <<>>
      BY <1>1, <2>1, <3>2, HeldIs, HeldIsNext DEF RInv, Critical
    <3>5. ResultSeen(t)' = Contents
      <4>1. Contents' = Contents /\ Contents \in Seq(Data)
        BY <1>1, SameContents, ContentsAre DEF RInv
      <4>2. ResultSeen(t)' = <<>> \o Contents
        BY <3>2, <4>1 DEF ResultSeen
      <4> QED
        BY <4>1, <4>2, ConcatEmptySeq
    <3>6. CallOf(t) = Pending(op[t], NoData, idx[t])
      BY <1>1, <2>1, CallBefore DEF RInv
    <3>7. CallOf(t)' = Done(op[t], Contents, 0)
      BY <2>1, <3>2, <3>5, CallAfterNext
    <3>8. /\ Calls[t] # Abstract!Idle /\ ~Calls[t].done
          /\ Calls[t].op = op[t] /\ Calls[t].arg = NoData /\ Calls[t].idx = idx[t]
      BY <2>1, <3>6, CallIs
    <3>9. Abstract!Effect(t, <<>>, Held, 0)
      BY <3>4, <3>7, <3>8, TakesEffect, Zenon
    <3> QED
      BY <2>1, <3>3, <3>8, <3>9, Applies
  <2> QED
    BY <2>2, <2>3
<1> QED
  BY <1>6, <1>7, <1>8, <1>9, <1>10, <1>11, <1>12, <1>13 DEF Enter

-----------------------------------------------------------------------------
(* The writes and the loops.                                                *)

\* What a thread that ends its work under the lock shows for it.
LEMMA EndOfWork ==
  ASSUME RInv, IInv', NEW t \in Threads, Step(t), pc'[t] = "unlock", op'[t] = op[t]
  PROVE  /\ Place(t)'
         /\ Held' = Contents'
         /\ op[t] # "get_node_data_at_index" => CallOf(t)' = Done(op[t], seen'[t], num'[t])
<1>1. Place(t)'
  BY DEF Place
<1>2. Held' = Contents'
  <2>1. Critical(t)'
    BY DEF Critical
  <2> QED
    BY <2>1, HeldIsNext
<1>3. op[t] # "get_node_data_at_index" => ResultSeen(t)' = seen'[t]
  BY DEF ResultSeen
<1> QED
  BY <1>1, <1>2, <1>3, CallAfterNext

\* The write of a push puts the payload at its end of the deque.
LEMMA WritePushRefines ==
  ASSUME RInv, IInv', NEW t \in Threads, Step(t), WritePush(t)
  PROVE  DequeStep /\ Place(t)'
<1> DEFINE n == node[t]
           a == data[n]
<1>1. /\ pc[t] = "write" /\ pc'[t] = "unlock" /\ op[t] \in Pushes /\ Pushing(t)
      /\ UNCHANGED <<data, op, seen, num>>
      /\ order' = IF op[t] = "push_front" THEN <<n>> \o order ELSE Append(order, n)
  BY DEF WritePush, locals, Pushing, RInv, IInv, TypeOK
<1>2. op[t] \in {"push_front", "push_back"} /\ op[t] # "get_node_data_at_index" /\ op[t] # "none"
  BY <1>1 DEF Pushes
<1>3. n \in Node
  BY <1>1 DEF RInv, IInv, Fresh
<1>4. Held = Contents
  BY <1>1, <1>2, HeldIs DEF RInv, Critical
<1>5. /\ data \in [Node -> Data] /\ order \in Seq(Node)
      /\ Contents = Loads(order, data) /\ Contents' = Loads(order', data)
  <2>1. Contents' = Loads(order', data)
    BY <1>1, Zenon DEF Contents, Loads
  <2> QED
    BY <2>1, ContentsAre DEF RInv
<1>6. seen'[t] = <<>> /\ num'[t] = 0
  BY <1>1 DEF RInv, Place
<1>7. /\ Place(t)' /\ Held' = Contents'
      /\ CallOf(t)' = Done(op[t], <<>>, 0)
  BY <1>1, <1>2, <1>6, EndOfWork
<1>8. CallOf(t) = Pending(op[t], a, idx[t])
  BY <1>1, CallBefore DEF RInv
<1>9. /\ Calls[t] # Abstract!Idle /\ ~Calls[t].done
      /\ Calls[t].op = op[t] /\ Calls[t].arg = a /\ Calls[t].idx = idx[t]
  BY <1>2, <1>8, CallIs
<1> HIDE DEF a, n
<1>10. CASE op[t] = "push_front"
  <2>1. Held' = <<a>> \o Held
    BY <1>1, <1>3, <1>4, <1>5, <1>7, <1>10, LoadsAdded DEF a
  <2>2. Abstract!Effect(t, <<a>> \o Held, <<>>, 0)
    BY <1>7, <1>9, <2>1, TakesEffect, Zenon
  <2> QED
    BY <1>7, <1>9, <1>10, <2>2, Applies
<1>11. CASE op[t] = "push_back"
  <2>1. Held' = Append(Held, a)
    BY <1>1, <1>3, <1>4, <1>5, <1>7, <1>11, LoadsAdded DEF a
  <2>2. Abstract!Effect(t, Append(Held, a), <<>>, 0)
    BY <1>7, <1>9, <2>1, TakesEffect, Zenon
  <2> QED
    BY <1>7, <1>9, <1>11, <2>2, Applies
<1> QED
  BY <1>2, <1>10, <1>11

\* The write of a removal takes the payload from its end of the deque.
LEMMA WriteRemoveRefines ==
  ASSUME RInv, IInv', NEW t \in Threads, Step(t), WriteRemoveFront(t) \/ WriteRemoveBack(t)
  PROVE  DequeStep /\ Place(t)'
<1> DEFINE d == data[cur[t]]
<1>1. /\ pc[t] = "write" /\ pc'[t] = "unlock" /\ op[t] \in {"remove_front", "remove_back"}
      /\ UNCHANGED <<data, op, num>>
      /\ seen'[t] = Append(seen[t], d)
      /\ order' = IF op[t] = "remove_front" THEN Tail(order) ELSE Body(order)
  BY DEF WriteRemoveFront, WriteRemoveBack, FreeOne, Body, RInv, IInv, TypeOK
<1>2. op[t] # "get_node_data_at_index" /\ op[t] # "none" /\ op[t] \notin Pushes
  BY <1>1 DEF Pushes
<1>3. /\ order # <<>>
      /\ op[t] = "remove_front" => cur[t] = First(order)
      /\ op[t] = "remove_back" => cur[t] = Last(order)
  BY <1>1 DEF RInv, IInv, Locals, WriteLocals
<1>4. Held = Contents
  BY <1>1, HeldIs DEF RInv, Critical
<1>5. /\ data \in [Node -> Data] /\ order \in Seq(Node)
      /\ Contents = Loads(order, data) /\ Contents' = Loads(order', data)
      /\ Contents # <<>>
      /\ Head(Contents) = data[First(order)]
      /\ Contents[Len(Contents)] = data[Last(order)]
  <2>1. Contents' = Loads(order', data)
    BY <1>1, Zenon DEF Contents, Loads
  <2> QED
    BY <1>3, <2>1, ContentsAre DEF RInv
<1>6. seen'[t] = <<d>> /\ num'[t] = 0
  <2>1. seen[t] = <<>> /\ num[t] = 0
    BY <1>1 DEF RInv, Place
  <2> QED
    BY <1>1, <2>1
<1>7. /\ Place(t)' /\ Held' = Contents'
      /\ CallOf(t)' = Done(op[t], <<d>>, 0)
  BY <1>1, <1>2, <1>6, EndOfWork
<1>8. CallOf(t) = Pending(op[t], NoData, idx[t])
  BY <1>1, <1>2, CallBefore DEF RInv
<1>9. /\ Calls[t] # Abstract!Idle /\ ~Calls[t].done
      /\ Calls[t].op = op[t] /\ Calls[t].arg = NoData /\ Calls[t].idx = idx[t]
  BY <1>2, <1>8, CallIs
<1>10. CASE op[t] = "remove_front"
  <2>1. Held' = Tail(Held)
    BY <1>1, <1>3, <1>4, <1>5, <1>7, <1>10, LoadsRemoved
  <2>2. d = Head(Held)
    BY <1>3, <1>4, <1>5, <1>10
  <2>3. Abstract!Effect(t, Tail(Held), <<d>>, 0)
    BY <1>7, <1>9, <2>1, TakesEffect, Zenon
  <2>4. Abstract!Effect(t, Tail(Held), <<Head(Held)>>, 0) /\ Held # <<>>
    BY <1>4, <1>5, <2>2, <2>3, Zenon
  <2> QED
    BY <1>7, <1>9, <1>10, <2>4, Applies
<1>11. CASE op[t] = "remove_back"
  <2>1. Held' = Abstract!AllButLast(Held)
    BY <1>1, <1>3, <1>4, <1>5, <1>7, <1>11, LoadsRemoved DEF Abstract!AllButLast
  <2>2. d = Abstract!LastOf(Held)
    BY <1>3, <1>4, <1>5, <1>11 DEF Abstract!LastOf
  <2>3. Abstract!Effect(t, Abstract!AllButLast(Held), <<d>>, 0)
    BY <1>7, <1>9, <2>1, TakesEffect, Zenon
  <2>4. /\ Abstract!Effect(t, Abstract!AllButLast(Held), <<Abstract!LastOf(Held)>>, 0)
        /\ Held # <<>>
    BY <1>4, <1>5, <2>2, <2>3, Zenon
  <2> QED
    BY <1>7, <1>9, <1>11, <2>4, Applies
<1> QED
  BY <1>1, <1>10, <1>11

\* empty_list frees what the deque has given up already: what has been seen
\* and what is left to be seen are one sequence all along.
LEMMA EmptyListRefines ==
  ASSUME RInv, IInv', NEW t \in Threads, Step(t), WalkEmptyList(t) \/ EndEmptyList(t)
  PROVE  DequeStep /\ Place(t)'
<1>1. pc[t] = "walk" /\ op[t] = "empty_list" /\ UNCHANGED <<data, op, num>>
  BY DEF WalkEmptyList, EndEmptyList, nodes, locals
<1>2. Held = <<>>
  BY <1>1, HeldIs DEF RInv, Critical
<1>3. CallOf(t) = Done(op[t], seen[t] \o Contents, num[t])
  <2>1. ResultSeen(t) = seen[t] \o Contents
    BY <1>1 DEF ResultSeen
  <2> QED
    BY <1>1, <2>1, CallAfter
<1>4. num[t] = 0 /\ seen[t] \in Seq(Data)
  BY <1>1 DEF RInv, Place, IInv, TypeOK
<1>5. /\ data \in [Node -> Data] /\ order \in Seq(Node) /\ Contents \in Seq(Data)
      /\ Contents = Loads(order, data) /\ Contents' = Loads(order', data)
      /\ Contents = <<>> <=> order = <<>>
      /\ order # <<>> => Head(Contents) = data[First(order)]
  <2>1. Contents' = Loads(order', data)
    BY <1>1, Zenon DEF Contents, Loads
  <2> QED
    BY <2>1, ContentsAre DEF RInv
<1>6. /\ i[t] + Size(order) = size /\ size \in Nat /\ i[t] \in Nat
      /\ order # <<>> => cur[t] = First(order)
      /\ order # <<>> => Size(order) \in Nat /\ Size(order) > 0
  BY <1>1, <1>5, RemoveEnds DEF RInv, IInv, Locals, WalkLocals, TypeOK
<1>7. CASE WalkEmptyList(t)
  <2>1. /\ i[t] < size /\ pc'[t] = "walk" /\ order' = Tail(order)
        /\ seen'[t] = Append(seen[t], data[cur[t]])
    BY <1>7 DEF WalkEmptyList, RInv, IInv, TypeOK
  <2>2. order # <<>>
    BY <1>6, <2>1, NoNodes
  <2>3. Contents # <<>> /\ Contents' = Tail(Contents) /\ data[cur[t]] = Head(Contents)
    BY <1>5, <1>6, <2>1, <2>2, LoadsRemoved
  <2>4. seen'[t] \o Contents' = seen[t] \o Contents
    <3>1. Append(seen[t], Head(Contents)) \o Tail(Contents) = seen[t] \o Contents
      BY <1>4, <1>5, <2>3, MovedOver
    <3> QED
      BY <2>1, <2>3, <3>1, Zenon
  <2>5. ResultSeen(t)' = seen[t] \o Contents
    BY <2>1, <2>4 DEF ResultSeen
  <2>6. CallOf(t)' = CallOf(t)
    BY <1>1, <1>3, <2>1, <2>5, CallAfterNext
  <2>7. Held' = <<>>
    BY <1>1, <2>1, HeldIsNext DEF Critical
  <2>8. Place(t)'
    BY <1>1, <1>4, <2>1 DEF Place
  <2> QED
    BY <1>2, <2>6, <2>7, <2>8, Stutters
<1>8. CASE EndEmptyList(t)
  <2>1. i[t] >= size /\ pc'[t] = "unlock" /\ UNCHANGED <<order, seen>>
    BY <1>8 DEF EndEmptyList, nodes, locals, RInv, IInv, TypeOK
  <2>2. order = <<>>
    BY <1>6, <2>1
  <2>3. Contents = <<>> /\ Contents' = <<>>
    BY <1>5, <2>1, <2>2
  <2>4. seen[t] \o Contents = seen[t]
    BY <1>4, <2>3, ConcatEmptySeq
  <2>5. /\ Place(t)' /\ Held' = Contents' /\ CallOf(t)' = Done(op[t], seen'[t], num'[t])
    BY <1>1, <2>1, EndOfWork
  <2>6. CallOf(t)' = CallOf(t)
    BY <1>1, <1>3, <2>1, <2>4, <2>5
  <2> QED
    BY <1>2, <2>3, <2>5, <2>6, Stutters
<1> QED
  BY <1>7, <1>8

\* A turn of a walk gets one node further around the ring.
LEMMA WalkRefines ==
  ASSUME RInv, IInv', NEW t \in Threads, Step(t), WalkTraverse(t) \/ WalkGet(t)
  PROVE  DequeStep /\ Place(t)'
<1>1. /\ pc[t] = "walk" /\ pc'[t] = "walk" /\ op[t] \in {"traverse", "get_node_data_at_index"}
      /\ UNCHANGED <<size, next, prev, data, order, op, idx, node, num>>
      /\ cur'[t] = next[cur[t]] /\ i'[t] = i[t] + 1
  BY DEF WalkTraverse, WalkGet, header, nodes, RInv, IInv, TypeOK
<1>2. /\ Ring(order, next, prev) /\ order \in Seq(Node)
      /\ size = Size(order) /\ size \in Nat
      /\ size = 0 <=> order = <<>>
  BY <1>1, RingInside DEF RInv, Critical
<1>3. i[t] \in Nat /\ idx[t] \in Nat /\ seen[t] \in Seq(Data)
  BY MaxIndexIsNat DEF RInv, IInv, TypeOK
<1>4. i[t] < size /\ (op[t] = "get_node_data_at_index" => i[t] < idx[t] /\ idx[t] <= size)
  BY <1>1, <1>2, <1>3 DEF WalkTraverse, WalkGet, RInv, Place
<1>5. order # <<>> /\ cur[t] = At(order, i[t])
  BY <1>1, <1>2, <1>3, <1>4 DEF RInv, Place
<1>6. cur'[t] = At(order, i'[t]) /\ cur[t] = order[i[t] + 1]
  BY <1>1, <1>2, <1>3, <1>4, <1>5, AroundTheRing
<1>7. i'[t] <= size /\ (op[t] = "get_node_data_at_index" => i'[t] <= idx[t])
  BY <1>1, <1>2, <1>3, <1>4
<1>8. op[t] = "traverse" => Len(seen'[t]) = i'[t] /\ \A k \in 1 .. i'[t] : seen'[t][k] = data[order[k]]
  <2> SUFFICES ASSUME op[t] = "traverse"
               PROVE  /\ Len(seen'[t]) = i'[t]
                      /\ \A k \in 1 .. i'[t] : seen'[t][k] = data[order[k]]
    OBVIOUS
  <2> DEFINE s == seen[t]
             m == i[t]
             e == data[cur[t]]
             s2 == seen'[t]
  <2>1. s2 = Append(s, e)
    BY DEF WalkTraverse, WalkGet, RInv, IInv, TypeOK
  <2>2. Len(s) = m /\ \A k \in 1 .. m : s[k] = data[order[k]]
    BY <1>1 DEF RInv, Place
  <2>3. e \in Data
    <3>1. cur[t] \in Elements(order) /\ Elements(order) \subseteq Node
      BY <1>1, <1>2, <1>4, <1>5, RingEnds DEF RInv, IInv, Locals, WalkLocals
    <3> QED
      BY <3>1 DEF RInv, IInv, TypeOK
  <2>4. e = data[order[m + 1]]
    BY <1>6
  <2>5. m \in Nat /\ s \in Seq(Data) /\ i'[t] = m + 1
    BY <1>1, <1>3
  <2> HIDE DEF s, m, e, s2
  <2>6. Len(s2) = m + 1 /\ s2[m + 1] = e /\ \A k \in 1 .. m : s2[k] = s[k]
    BY <2>1, <2>2, <2>3, <2>5, AppendProperties
  <2>7. \A k \in 1 .. m + 1 : s2[k] = data[order[k]]
    <3> TAKE k \in 1 .. m + 1
    <3>1. k \in 1 .. m \/ k = m + 1
      BY <2>5
    <3> QED
      BY <2>2, <2>4, <2>6, <3>1
  <2> QED
    BY <2>5, <2>6, <2>7 DEF s2
<1>9. Place(t)'
  <2>1. num'[t] = 0
    BY <1>1 DEF RInv, Place
  <2>2. op[t] = "get_node_data_at_index" => order # <<>> /\ idx[t] <= Size(order)
    BY <1>2, <1>4, <1>5
  <2> QED
    BY <1>1, <1>2, <1>6, <1>7, <1>8, <2>1, <2>2 DEF Place
<1>10. CallOf(t)' = CallOf(t)
  BY <1>1, <1>9, CallBefore, CallBeforeNext DEF RInv, Pushes
<1>11. Held' = Held
  <2>1. Held = Contents
    BY <1>1, HeldIs DEF RInv, Critical
  <2>2. Held' = Contents'
    BY <1>1, HeldIsNext DEF Critical
  <2>3. Contents' = Contents
    BY <1>1, SameContents DEF RInv
  <2> QED
    BY <2>1, <2>2, <2>3
<1> QED
  BY <1>9, <1>10, <1>11, Stutters

\* At its end a walk has seen the whole list, or stands where the index says.
LEMMA EndWalkRefines ==
  ASSUME RInv, IInv', NEW t \in Threads, Step(t), EndWalk(t)
  PROVE  DequeStep /\ Place(t)'
<1>1. /\ pc[t] = "walk" /\ pc'[t] = "unlock" /\ op[t] \in {"traverse", "get_node_data_at_index"}
      /\ UNCHANGED <<data, order, op, cur, seen, num>>
  BY DEF EndWalk, nodes, locals, RInv, IInv, TypeOK
<1>2. /\ order \in Seq(Node) /\ size = Size(order) /\ size \in Nat
  BY <1>1, RingInside DEF RInv, Critical
<1>3. i[t] \in Nat /\ idx[t] \in Nat /\ seen[t] \in Seq(Data)
  BY MaxIndexIsNat DEF RInv, IInv, TypeOK
<1>4. num'[t] = 0 /\ op[t] # "none" /\ op[t] \notin Pushes
  BY <1>1 DEF RInv, Place, Pushes
<1>5. /\ Place(t)' /\ Held' = Contents'
      /\ op[t] = "traverse" => CallOf(t)' = Done(op[t], seen[t], 0)
  BY <1>1, <1>4, EndOfWork
<1>6. Held = Contents /\ Held' = Held
  <2>1. Held = Contents
    BY <1>1, HeldIs DEF RInv, Critical
  <2>2. Contents' = Contents
    BY <1>1, SameContents DEF RInv
  <2> QED
    BY <1>5, <2>1, <2>2
<1>7. CallOf(t) = Pending(op[t], NoData, idx[t])
  BY <1>1, <1>4, CallBefore DEF RInv
<1>8. /\ Calls[t] # Abstract!Idle /\ ~Calls[t].done
      /\ Calls[t].op = op[t] /\ Calls[t].arg = NoData /\ Calls[t].idx = idx[t]
  BY <1>4, <1>7, CallIs
<1>9. data \in [Node -> Data] /\ Contents = Loads(order, data)
  BY ContentsAre DEF RInv
<1>10. CASE op[t] = "traverse"
  <2>1. /\ i[t] <= size /\ i[t] >= size
        /\ Len(seen[t]) = i[t] /\ \A k \in 1 .. i[t] : seen[t][k] = data[order[k]]
    BY <1>1, <1>2, <1>10 DEF EndWalk, RInv, Place
  <2>2. i[t] = Len(order)
    <3>1. i[t] = size
      BY <1>2, <1>3, <2>1
    <3> QED
      BY <1>2, <3>1 DEF Size
  <2>3. Len(seen[t]) = Len(order) /\ \A k \in 1 .. Len(order) : seen[t][k] = data[order[k]]
    BY <2>1, <2>2, Zenon
  <2>4. seen[t] = Held
    BY <1>2, <1>3, <1>6, <1>9, <2>3, LoadsUnique
  <2>5. Abstract!Effect(t, Held, seen[t], 0)
    BY <1>5, <1>6, <1>8, <1>10, TakesEffect, Zenon
  <2>6. Abstract!Effect(t, Held, Held, 0)
    BY <2>4, <2>5, Zenon
  <2> QED
    BY <1>5, <1>8, <1>10, <2>6, Applies
<1>11. CASE op[t] = "get_node_data_at_index"
  <2>1. /\ order # <<>> /\ i[t] <= idx[t] /\ i[t] >= idx[t] /\ idx[t] <= size
        /\ cur[t] = At(order, i[t])
    BY <1>1, <1>2, <1>11 DEF EndWalk, RInv, Place
  <2>2. i[t] = idx[t] /\ idx[t] \in 0 .. size
    BY <1>2, <1>3, <2>1
  <2>3. cur[t] \in Node
    <3>1. cur[t] \in Elements(order) /\ Elements(order) \subseteq Node
      BY <1>1, <1>11, RingInside, <2>1 DEF RInv, IInv, Locals, WalkLocals, Critical
    <3> QED
      BY <3>1
  <2>4. ResultSeen(t)' = <<data[cur[t]]>>
    BY <1>1, <1>11, <2>3, NullIsNoAddress DEF ResultSeen
  <2>5. Abstract!Indexed(Held, idx[t]) = <<data[cur[t]]>>
    BY <1>2, <1>6, <1>9, <2>1, <2>2, LoadAt
  <2>6. CallOf(t)' = Done(op[t], Abstract!Indexed(Held, idx[t]), 0)
    BY <1>1, <1>4, <2>4, <2>5, CallAfterNext
  <2>7. Abstract!Effect(t, Held, Abstract!Indexed(Held, idx[t]), 0)
    BY <1>6, <1>8, <2>6, TakesEffect, Zenon
  <2> QED
    BY <1>5, <1>8, <1>11, <2>7, Applies
<1> QED
  BY <1>1, <1>10, <1>11

-----------------------------------------------------------------------------
\* At the start the deque is empty and no thread is in a call.
LEMMA StartsEmpty == Init => RInv /\ Abstract!Init
<1> SUFFICES ASSUME Init
             PROVE  RInv /\ Abstract!Init
  OBVIOUS
<1>1. IInv
  BY Initially
<1>2. \A t \in Threads : Place(t)
  BY DEF Init, Place
<1>3. Held = <<>>
  <2>1. ~Emptying
    BY DEF Init, Emptying
  <2>2. order = <<>>
    BY DEF Init
  <2> QED
    BY <1>1, <2>1, <2>2, ContentsAre DEF Held
<1>4. \A t \in Threads : CallOf(t) = Abstract!Idle
  <2> TAKE t \in Threads
  <2>1. TookEffect(t) = FALSE /\ num[t] = 0 /\ idx[t] = 0 /\ op[t] = "none" /\ op[t] \notin Pushes
    BY DEF Init, TookEffect, Pushes
  <2> QED
    BY <2>1, Zenon DEF CallOf, Abstract!Idle
<1>5. Calls = [t \in Threads |-> Abstract!Idle]
  BY <1>4 DEF Calls
<1> QED
  BY <1>1, <1>2, <1>3, <1>5 DEF RInv, Abstract!Init

\* Every step of list.c is a step of the deque or one it does not see.
LEMMA StepRefines == RInv /\ [Next]_vars => RInv' /\ DequeStep
<1> SUFFICES ASSUME RInv, [Next]_vars
             PROVE  RInv' /\ DequeStep
  OBVIOUS
<1>1. IInv'
  BY Inductive DEF RInv
<1>2. CASE UNCHANGED vars
  <2>1. UNCHANGED <<mutex, head, size, next, prev, data, heap, pc, op, idx, node,
                    cur, oth, i, seen, num, order>>
    BY <1>2 DEF vars
  <2>2. \A t \in Threads : Place(t)'
    BY <2>1 DEF RInv, Place, Size, At
  <2>3. Held' = Held
    BY <2>1, HeldStays DEF RInv, Emptying
  <2>4. \A t \in Threads : CallOf(t)' = CallOf(t)
    BY <2>1 DEF CallOf, TookEffect, ResultSeen, Contents
  <2>5. Calls' = Calls
    BY <2>4 DEF Calls
  <2> QED
    BY <1>1, <2>2, <2>3, <2>5 DEF RInv, DequeStep
<1>3. ASSUME NEW t \in Threads, Step(t)
      PROVE  RInv' /\ DequeStep
  <2>1. DequeStep /\ Place(t)'
    BY <1>1, <1>3, CallRefines, LockRefines, EnterRefines, WritePushRefines,
       WriteRemoveRefines, EmptyListRefines, WalkRefines, EndWalkRefines DEF Step, Inside
  <2>2. \A u \in Threads \ {t} : Place(u)'
    BY <1>3, OneCall
  <2> QED
    BY <1>1, <2>1, <2>2 DEF RInv
<1> QED
  BY <1>2, <1>3 DEF Next

\* The calls of list.c behave, whatever the interleaving, as if each took
\* effect at one instant on a double ended queue.
THEOREM ListImplementsDeque == Spec => ImplementsDeque
<1>1. DequeStep => [Abstract!Next]_(Abstract!vars)
  BY DEF DequeStep, Abstract!vars
<1> QED
  BY <1>1, StartsEmpty, StepRefines, PTL DEF Spec, ImplementsDeque, Abstract!Spec
=============================================================================
