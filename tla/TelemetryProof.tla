--------------------------- MODULE TelemetryProof ---------------------------
(* Proofs about Coordinator, for any sequence of nodes, limit of the         *)
(* history, ports, rounds and fixes, with and without restarts; then about   *)
(* Telemetry: what has been proved about the coordinator and about the       *)
(* server holds for both together.                                           *)
EXTENDS Telemetry, SequenceTheorems, TLAPS

-----------------------------------------------------------------------------
(* The inductive invariant.  The program counter says how far the round is,  *)
(* and the data set that is collected, the socket, the history and what has  *)
(* been sent are as far as it says.                                          *)

Collecting == pc \in {"ask", "recv"}
Collected  == pc \in {"lat", "lon", "record", "cloud", "lcd", "sleep"}
Complete   == pc \in {"record", "cloud", "lcd", "sleep"}
Recording  == pc \in {"cloud", "lcd", "sleep"}
Sending    == pc \in {"lcd", "sleep"}

\* The last round whose data set the cloud has been sent, or lost.
SentUpTo == IF Sending THEN round ELSE round - 1

\* A record of the last i nodes of the addresses, which are asked from the last
\* to the first, each in its place.
Places ==
  /\ Len(readings) = i
  /\ pc = "connect" => i = 0
  /\ Collecting => i < NumberOfNodes
  /\ Collected => i = NumberOfNodes
  /\ \A k \in 1 .. i : readings[k].label = Addresses[(NumberOfNodes - i) + k]

\* A socket is open only while an answer is waited for.
Socket == pc # "recv" => port = None /\ inbox = <<>>

\* A complete data set is the one that has been collected.
WsnComplete ==
  Complete => wsn \in DataSets /\ wsn.round = round /\ wsn.lat = lat /\ wsn.readings = readings

\* What has been sent: sets with one record for each node in its place, one
\* round after the other.
SentSets ==
  /\ \A k \in 1 .. Len(sent) :
       /\ Len(sent[k].readings) = NumberOfNodes
       /\ \A j \in 1 .. NumberOfNodes : sent[k].readings[j].label = Addresses[j]
       /\ sent[k].round <= SentUpTo
  /\ \A j, k \in 1 .. Len(sent) : j < k => sent[j].round < sent[k].round
  /\ \A r \in first .. SentUpTo : \E k \in 1 .. Len(sent) : sent[k].round = r
  /\ Sending => Len(sent) > 0 /\ sent[Len(sent)] = Flat(wsn)
  /\ pc = "sleep" => lcd = Flat(wsn)

\* The fixes: what is stored, received, read and collected was stored in this
\* order, and the last set of this process that was sent before.
Fixes ==
  /\ lonG <= latG /\ latG <= lonG + 1
  /\ \A k \in 1 .. Len(inbox) : inbox[k].fix <= lonG
  /\ \A k \in 1 .. Len(readings) : readings[k].fix <= lonG
  /\ pc = "lon" \/ Complete =>
       lat <= latG /\ \A k \in 1 .. Len(readings) : readings[k].fix <= lat
  /\ Complete =>
       /\ wsn.lon <= lonG /\ wsn.lat <= wsn.lon + 1
       /\ \A k \in 1 .. Len(readings) : readings[k].fix <= wsn.lon

FixesSent ==
  LET l == Len(sent)
  IN l > 0 /\ sent[l].round >= first =>
       /\ sent[l].lat <= latG /\ sent[l].lon <= lonG
       /\ pc = "lon" \/ Complete => sent[l].lat <= lat
       /\ Complete => sent[l].lon <= wsn.lon

\* As long as no port is given out while an answer to it is under way, what is
\* received answers the request of this round, and so does what is collected.
Answers ==
  ~ PortReuse =>
    /\ pc = "recv" =>
         /\ \A m \in net : m.port = port => m.node = Get(NodeProps, i) /\ m.round = round
         /\ \A k \in 1 .. Len(inbox) : inbox[k].from = Get(NodeProps, i) /\ inbox[k].asked = round
    /\ \A k \in 1 .. Len(readings) :
         readings[k].from # None => readings[k].from = readings[k].label /\ readings[k].asked = round

\* The same for what has been sent.
AnswersSent ==
  ~ PortReuse =>
    \A k \in 1 .. Len(sent) : \A j \in 1 .. NumberOfNodes :
      sent[k].readings[j].from # None =>
        sent[k].readings[j].from = sent[k].readings[j].label /\ sent[k].readings[j].asked = sent[k].round

\* How far the round is.
Stage == TypeOK /\ Places /\ Socket /\ WsnComplete

-----------------------------------------------------------------------------
(* Operators of the model.                                                  *)

\* Something in front of a sequence.
LEMMA Push ==
  ASSUME NEW S, NEW e \in S, NEW s \in Seq(S)
  PROVE  /\ <<e>> \o s \in Seq(S)
         /\ Len(<<e>> \o s) = Len(s) + 1
         /\ (<<e>> \o s)[1] = e
         /\ \A k \in 1 .. Len(s) : (<<e>> \o s)[k + 1] = s[k]
<1> DEFINE t == <<e>>
<1>1. t \in Seq(S) /\ Len(t) = 1 /\ t[1] = e
  OBVIOUS
<1> HIDE DEF t
<1>2. /\ t \o s \in Seq(S)
      /\ Len(t \o s) = Len(t) + Len(s)
      /\ \A k \in 1 .. Len(t) + Len(s) : (t \o s)[k] = IF k <= Len(t) THEN t[k] ELSE s[k - Len(t)]
  BY <1>1, ConcatProperties
<1>3. Len(s) \in Nat
  OBVIOUS
<1> QED
  BY <1>1, <1>2, <1>3 DEF t

\* Something behind a sequence.
LEMMA Behind ==
  ASSUME NEW S, NEW e \in S, NEW s \in Seq(S)
  PROVE  /\ Append(s, e) \in Seq(S)
         /\ Len(Append(s, e)) = Len(s) + 1
         /\ Append(s, e)[Len(s) + 1] = e
         /\ \A k \in 1 .. Len(s) : Append(s, e)[k] = s[k]
  OBVIOUS

\* The number of nodes.
LEMMA Size == /\ NumberOfNodes \in Nat \ {0} /\ Len(Addresses) = NumberOfNodes
              /\ \A k \in 1 .. NumberOfNodes : Addresses[k] \in Nodes
<1>1. Len(Addresses) \in Nat
  BY NodesAreKnown
<1> QED
  BY <1>1, NodesAreKnown DEF Nodes

\* The nodes are asked in the reverse order of the addresses.
LEMMA Asked ==
  /\ Len(NodeProps) = NumberOfNodes
  /\ \A k \in 0 .. NumberOfNodes - 1 : Get(NodeProps, k) = Addresses[NumberOfNodes - k]
  /\ \A k \in 0 .. NumberOfNodes : Get(NodeProps, k) \in Nodes
<1> DEFINE N == NumberOfNodes
           P == NodeProps
<1>1. N \in Nat \ {0} /\ \A k \in 1 .. N : Addresses[k] \in Nodes
  BY Size
<1>2. P = [k \in 1 .. N |-> Addresses[(N - k) + 1]]
  BY Size DEF NodeProps, Reverse
<1> HIDE DEF N, P
<1>3. P \in Seq(Nodes) /\ Len(P) = N
  BY <1>1, <1>2
<1>4. P # <<>>
  BY <1>1, <1>3
<1>5. ASSUME NEW k \in 0 .. N - 1
      PROVE  Get(P, k) = Addresses[N - k] /\ Get(P, k) \in Nodes
  <2>1. Get(P, k) = P[k + 1]
    BY <1>1, <1>3, <1>4 DEF Get
  <2>2. P[k + 1] = Addresses[N - k]
    BY <1>1, <1>2
  <2> QED
    BY <2>1, <2>2, <1>1
<1>6. Get(P, N) \in Nodes
  <2>1. Get(P, N) = P[1]
    BY <1>1, <1>3, <1>4 DEF Get
  <2>2. P[1] = Addresses[N]
    BY <1>1, <1>2
  <2> QED
    BY <2>1, <2>2, <1>1
<1>7. \A k \in 0 .. N : k \in 0 .. N - 1 \/ k = N
  BY <1>1
<1> QED
  BY <1>3, <1>5, <1>6, <1>7 DEF N, P

\* A flat copy has the same records.
LEMMA Flattened ==
  ASSUME NEW w \in DataSets, Len(w.readings) = NumberOfNodes
  PROVE  /\ Flat(w) \in DataSets
         /\ Flat(w).round = w.round /\ Flat(w).lat = w.lat /\ Flat(w).lon = w.lon
         /\ Len(Flat(w).readings) = NumberOfNodes
         /\ \A j \in 1 .. NumberOfNodes :
              Flat(w).readings[j] = w.readings[j] /\ w.readings[j] \in Recorded
<1> DEFINE N == NumberOfNodes
           r == w.readings
           f == [k \in 1 .. N |-> Get(r, k - 1)]
<1>1. N \in Nat \ {0}
  BY Size
<1>2. r \in Seq(Recorded) /\ Len(r) = N
  BY DEF DataSets
<1>3. /\ Flat(w).round = w.round /\ Flat(w).lat = w.lat /\ Flat(w).lon = w.lon
      /\ Flat(w).readings = f
      /\ Flat(w) = [round |-> w.round, lat |-> w.lat, lon |-> w.lon, readings |-> f]
  BY DEF Flat
<1> HIDE DEF N, r
<1>4. ASSUME NEW k \in 1 .. N
      PROVE  Get(r, k - 1) = r[k] /\ r[k] \in Recorded
  BY <1>1, <1>2 DEF Get
<1>5. f \in Seq(Recorded) /\ Len(f) = N
  <2>1. f \in [1 .. N -> Recorded]
    BY <1>4
  <2> HIDE DEF f
  <2> QED
    BY <2>1, <1>1
<1>6. \A j \in 1 .. N : f[j] = r[j] /\ r[j] \in Recorded
  BY <1>4
<1> HIDE DEF f
<1>7. Flat(w) \in DataSets
  BY <1>3, <1>5 DEF DataSets
<1> QED
  BY <1>3, <1>5, <1>6, <1>7 DEF N, r

-----------------------------------------------------------------------------
(* The stage of the round.                                                  *)

LEMMA StageInit == Init => Stage
<1> SUFFICES ASSUME Init PROVE Stage
  OBVIOUS
<1>1. NumberOfNodes \in Nat \ {0} /\ Len(Addresses) = NumberOfNodes
  BY Size
<1>2. TypeOK
  BY <1>1, BoundsAreNat DEF Init, TypeOK
<1>3. Places
  BY <1>1 DEF Init, Places, Collecting, Collected
<1> QED
  BY <1>2, <1>3 DEF Init, Stage, Socket, WsnComplete, Complete

\* A record is taken.
LEMMA TakeStep ==
  ASSUME Stage, At("recv"), NEW r \in Recorded, r.label = Get(NodeProps, i), Take(r)
  PROVE  Stage'
<1> DEFINE N == NumberOfNodes
           rs == <<r>> \o readings
<1>1. N \in Nat \ {0} /\ Len(Addresses) = N /\ Len(NodeProps) = N
  BY Size, Asked
<1>2. /\ readings \in Seq(Recorded) /\ Len(readings) = i /\ i \in Nat /\ i < N
      /\ \A k \in 1 .. i : readings[k].label = Addresses[(N - i) + k]
  BY <1>1 DEF Stage, TypeOK, Places, At, Collecting
<1>3. /\ rs \in Seq(Recorded) /\ Len(rs) = i + 1 /\ rs[1] = r
      /\ \A k \in 1 .. i : rs[k + 1] = readings[k]
  BY <1>2, Push
<1>4. r.label = Addresses[N - i]
  BY <1>1, <1>2, Asked
<1>5. \A k \in 1 .. i + 1 : rs[k].label = Addresses[(N - (i + 1)) + k]
  <2>1. SUFFICES ASSUME NEW k \in 1 .. i + 1
                 PROVE  rs[k].label = Addresses[(N - (i + 1)) + k]
    OBVIOUS
  <2>2. CASE k = 1
    <3>1. (N - (i + 1)) + k = N - i
      BY <1>1, <1>2, <2>2
    <3> QED
      BY <3>1, <2>2, <1>3, <1>4
  <2>3. CASE k # 1
    <3>1. k - 1 \in 1 .. i /\ (N - (i + 1)) + k = (N - i) + (k - 1) /\ (k - 1) + 1 = k
      BY <1>1, <1>2, <2>3
    <3>2. rs[k] = readings[k - 1]
      BY <3>1, <1>3
    <3> QED
      BY <3>1, <3>2, <1>2
  <2> QED
    BY <2>2, <2>3
<1> HIDE DEF rs
<1>6. /\ readings' = rs /\ port' = None /\ inbox' = <<>> /\ i' = i + 1
      /\ pc' = IF i + 1 < N THEN "ask" ELSE "lat"
  BY <1>1 DEF Take, rs
<1>7. TypeOK'
  BY <1>1, <1>2, <1>3, <1>6
     DEF Stage, TypeOK, Take, process, gps, outputs
<1>8. Places'
  <2>1. Len(rs) = i + 1 /\ i + 1 \in 1 .. N
    BY <1>1, <1>2, <1>3
  <2>2. \A k \in 1 .. i' : readings'[k].label = Addresses[(N - i') + k]
    BY <1>5, <1>6
  <2>3. pc' # "connect" /\ (Collecting' => i' < N) /\ (Collected' => i' = N)
    BY <1>1, <1>6, <2>1 DEF Collecting, Collected
  <2> HIDE DEF N
  <2>4. Len(readings') = i'
    BY <1>6, <2>1
  <2> QED
    BY <2>2, <2>3, <2>4 DEF Places, N
<1> QED
  BY <1>6, <1>7, <1>8 DEF Stage, Socket, WsnComplete, Complete

LEMMA StageNext == Stage /\ [Next]_vars => Stage'
<1> SUFFICES ASSUME Stage, [Next]_vars PROVE Stage'
  OBVIOUS
<1> DEFINE N == NumberOfNodes
<1>0. N \in Nat \ {0} /\ Len(Addresses) = N
  BY Size
<1> USE DEF process, gps, socket, set, outputs, Stage
<1>1. CASE WriteLat
  <2>1. latG' \in 0 .. MaxFix
    BY <1>1, BoundsAreNat DEF WriteLat, TypeOK
  <2> QED
    BY <1>1, <2>1 DEF WriteLat, TypeOK, Places, Socket, WsnComplete, Collecting, Collected, Complete
<1>2. CASE WriteLon
  BY <1>2 DEF WriteLon, TypeOK, Places, Socket, WsnComplete, Collecting, Collected, Complete
<1>3. CASE GpsEnds
  BY <1>3 DEF GpsEnds, TypeOK, Places, Socket, WsnComplete, Collecting, Collected, Complete
<1>4. ASSUME NEW m \in net, Deliver(m) PROVE Stage'
  <2>1. m \in [node : Nodes, port : Ports, round : 1 .. MaxRound]
    BY DEF TypeOK
  <2> DEFINE a == [from |-> m.node, asked |-> m.round, fix |-> lonG]
             A == [from : Nodes, asked : 1 .. MaxRound, fix : 0 .. MaxFix]
  <2>2. a \in A /\ inbox \in Seq(A)
    BY <2>1 DEF TypeOK
  <2> HIDE DEF a, A
  <2>3. inbox' \in Seq(A)
    BY <1>4, <2>2 DEF Deliver, a
  <2>4. TypeOK'
    BY <1>4, <2>3 DEF Deliver, TypeOK, A
  <2>5. port # None => pc = "recv"
    BY DEF Socket
  <2>6. Socket'
    BY <1>4, <2>1, <2>5, NoneIsNothing DEF Deliver, Socket
  <2> QED
    BY <1>4, <2>4, <2>6 DEF Deliver, Places, WsnComplete, Collecting, Collected, Complete
<1>5. ASSUME NEW m \in net, Lose(m) PROVE Stage'
  BY <1>5 DEF Lose, TypeOK, Places, Socket, WsnComplete, Collecting, Collected, Complete
<1>6. CASE Connected
  BY <1>0, <1>6 DEF Connected, At, TypeOK, Places, Socket, WsnComplete, Collecting, Collected, Complete
<1>7. CASE Ask
  <2>1. Get(NodeProps, i) \in Nodes
    BY <1>0, Asked DEF TypeOK
  <2>2. TypeOK'
    BY <1>7, <2>1 DEF Ask, TypeOK
  <2> QED
    BY <1>7, <2>2 DEF Ask, At, Places, Socket, WsnComplete, Collecting, Collected, Complete
<1>8. CASE Recv
  <2>1. Get(NodeProps, i) \in Nodes
    BY <1>0, Asked DEF TypeOK
  <2> DEFINE A == [from : Nodes, asked : 1 .. MaxRound, fix : 0 .. MaxFix]
             h == Head(inbox)
             r == Reading(Get(NodeProps, i), h.from, h.asked, h.fix)
  <2>2. inbox \in Seq(A) /\ inbox # <<>>
    BY <1>8 DEF Recv, TypeOK
  <2> HIDE DEF A
  <2>3. h \in A
    BY <2>2
  <2>4. At("recv") /\ Take(r)
    BY <1>8 DEF Recv
  <2>5. r \in Recorded /\ r.label = Get(NodeProps, i)
    BY <2>1, <2>3, BoundsAreNat DEF A, Recorded, Reading
  <2> HIDE DEF r
  <2> QED
    BY <2>4, <2>5, TakeStep
<1>9. CASE Timeout
  <2>1. Get(NodeProps, i) \in Nodes
    BY <1>0, Asked DEF TypeOK
  <2> DEFINE r == Reading(Get(NodeProps, i), None, 0, 0)
  <2>2. At("recv") /\ Take(r)
    BY <1>9 DEF Timeout
  <2>3. r \in Recorded /\ r.label = Get(NodeProps, i)
    BY <2>1, BoundsAreNat DEF Recorded, Reading
  <2> HIDE DEF r
  <2> QED
    BY <2>2, <2>3, TakeStep
<1>10. CASE ReadLat
  BY <1>10 DEF ReadLat, At, TypeOK, Places, Socket, WsnComplete, Collecting, Collected, Complete
<1>11. CASE ReadLon
  <2>1. wsn' \in DataSets
    BY <1>11 DEF ReadLon, TypeOK, DataSets
  <2>2. TypeOK'
    BY <1>11, <2>1 DEF ReadLon, TypeOK
  <2> QED
    BY <1>11, <2>1, <2>2 DEF ReadLon, At, Places, Socket, WsnComplete, Collecting, Collected, Complete
<1>12. CASE Record
  <2> DEFINE h == <<wsn>> \o hist
  <2>1. wsn \in DataSets
    BY <1>12 DEF Record, At, WsnComplete, Complete
  <2>2. h \in Seq(DataSets) /\ Len(h) \in Nat
    BY <2>1, Push DEF TypeOK
  <2> HIDE DEF h
  <2>3. Front(h) \in Seq(DataSets)
    BY <2>2 DEF Front
  <2>4. hist' \in Seq(DataSets)
    BY <1>12, <2>2, <2>3 DEF Record, h
  <2>5. TypeOK'
    BY <1>12, <2>4 DEF Record, TypeOK
  <2> QED
    BY <1>12, <2>5 DEF Record, At, Places, Socket, WsnComplete, Collecting, Collected, Complete
<1>13. CASE SendCloud
  <2>1. wsn \in DataSets /\ Len(wsn.readings) = N
    BY <1>13 DEF SendCloud, At, WsnComplete, Complete, Places, Collected
  <2>2. Flat(wsn) \in DataSets
    BY <2>1, Flattened
  <2>3. TypeOK'
    BY <1>13, <2>2 DEF SendCloud, TypeOK
  <2> QED
    BY <1>13, <2>3 DEF SendCloud, At, Places, Socket, WsnComplete, Collecting, Collected, Complete
<1>14. CASE WriteFails
  BY <1>14 DEF WriteFails, At, TypeOK, Places, Socket, WsnComplete, Collecting, Collected, Complete
<1>15. CASE SendLcd
  <2>1. wsn \in DataSets /\ Len(wsn.readings) = N
    BY <1>15 DEF SendLcd, At, WsnComplete, Complete, Places, Collected
  <2>2. Flat(wsn) \in DataSets
    BY <2>1, Flattened
  <2>3. TypeOK'
    BY <1>15, <2>2 DEF SendLcd, TypeOK
  <2> QED
    BY <1>15, <2>3 DEF SendLcd, At, Places, Socket, WsnComplete, Collecting, Collected, Complete
<1>16. CASE NextRound
  <2>1. TypeOK'
    BY <1>0, <1>16, BoundsAreNat DEF NextRound, TypeOK
  <2> QED
    BY <1>0, <1>16, <2>1 DEF NextRound, At, Places, Socket, WsnComplete, Collecting, Collected, Complete
<1>17. CASE Restart
  <2>1. TypeOK'
    BY <1>0, <1>17, BoundsAreNat DEF Restart, TypeOK
  <2> QED
    BY <1>0, <1>17, <2>1 DEF Restart, Places, Socket, WsnComplete, Collecting, Collected, Complete
<1>18. CASE UNCHANGED vars
  BY <1>18 DEF vars, TypeOK, Places, Socket, WsnComplete, Collecting, Collected, Complete
<1> QED
  BY <1>1, <1>2, <1>3, <1>4, <1>5, <1>6, <1>7, <1>8, <1>9, <1>10, <1>11, <1>12, <1>13,
     <1>14, <1>15, <1>16, <1>17, <1>18 DEF Next, Network, Round

THEOREM StageReached == Spec => []Stage
  BY StageInit, StageNext, PTL DEF Spec

\* The variables keep to their domains for any number of nodes: every record of
\* a flat copy that unroll_wsn_data makes exists.
THEOREM TypeCorrect == Spec => []TypeOK
  BY StageReached, PTL DEF Stage

-----------------------------------------------------------------------------
(* The history.                                                             *)

\* A step that leaves the history and the round alone.
LEMMA HistoryKept ==
  ASSUME HistoryIsLatest, UNCHANGED <<hist, round, first>>,
         Recording' <=> Recording, Recording => wsn' = wsn
  PROVE  HistoryIsLatest'
<1>1. Taken' = Taken
  BY DEF Taken, Recording
<1> QED
  BY <1>1 DEF HistoryIsLatest, Recording

LEMMA HistoryNext == Stage /\ HistoryIsLatest /\ [Next]_vars => HistoryIsLatest'
<1> SUFFICES ASSUME Stage, HistoryIsLatest, [Next]_vars PROVE HistoryIsLatest'
  OBVIOUS
<1> DEFINE M == HistoryLimit - 1
           n == Taken
<1>0. /\ M \in Nat /\ M > 0 /\ HistoryLimit = M + 1
      /\ first \in Nat /\ round \in Nat /\ first <= round /\ hist \in Seq(DataSets)
  BY HistoryHoldsOne DEF Stage, TypeOK
<1>1. CASE Record
  <2> DEFINE h == <<wsn>> \o hist
             l == Len(hist)
  <2>1. pc = "record" /\ pc' = "cloud" /\ wsn \in DataSets /\ wsn.round = round
    BY <1>1 DEF Record, At, Stage, WsnComplete, Complete
  <2>2. UNCHANGED <<round, first, wsn>>
    BY <1>1 DEF Record, process, set
  <2>3. n = round - first /\ Taken' = n + 1 /\ n \in Nat
    BY <1>0, <2>1, <2>2 DEF Taken
  <2>4. l = Least(n, M) /\ l \in Nat /\ \A k \in 1 .. l : hist[k].round = first + n - k
    BY <1>0 DEF HistoryIsLatest
  <2>5. /\ h \in Seq(DataSets) /\ Len(h) = l + 1 /\ h[1] = wsn
        /\ \A k \in 1 .. l : h[k + 1] = hist[k]
    BY <1>0, <2>1, Push
  <2>6. ASSUME NEW k \in 1 .. l + 1
        PROVE  h[k].round = first + (n + 1) - k
    <3>1. CASE k = 1
      BY <1>0, <2>1, <2>3, <2>5, <3>1
    <3>2. CASE k # 1
      <4>1. k - 1 \in 1 .. l /\ h[k] = hist[k - 1]
        BY <2>4, <2>5, <3>2
      <4>2. h[k].round = first + n - (k - 1)
        BY <2>4, <4>1
      <4> QED
        BY <4>2, <1>0, <2>3
    <3> QED
      BY <3>1, <3>2
  <2> HIDE DEF h
  <2>7. hist' = IF HistoryLimit <= Len(h) THEN Front(h) ELSE h
    BY <1>1 DEF Record, h
  <2>8. /\ Len(hist') = Least(n + 1, M)
        /\ \A k \in 1 .. Len(hist') : k \in 1 .. l + 1 /\ hist'[k] = h[k]
        /\ hist' # <<>> /\ hist'[1] = wsn
    <3>1. CASE HistoryLimit <= l + 1
      <4>1. l = M /\ Least(n + 1, M) = M
        BY <1>0, <2>3, <2>4, <3>1 DEF Least
      <4>2. hist' = SubSeq(h, 1, M)
        BY <1>0, <2>5, <2>7, <3>1, <4>1 DEF Front
      <4>3. \A k \in 1 .. M : h[k] \in DataSets
        BY <1>0, <2>5, <4>1
      <4>4. /\ Len(SubSeq(h, 1, M)) = M
            /\ \A k \in 1 .. M : SubSeq(h, 1, M)[k] = h[k]
        BY <1>0, <2>5, <4>1
      <4> QED
        BY <1>0, <2>5, <4>1, <4>2, <4>4
    <3>2. CASE ~ (HistoryLimit <= l + 1)
      <4>1. hist' = h
        BY <2>5, <2>7, <3>2
      <4>2. Least(n + 1, M) = l + 1
        BY <1>0, <2>3, <2>4, <3>2 DEF Least
      <4> QED
        BY <2>4, <2>5, <4>1, <4>2
    <3> QED
      BY <3>1, <3>2
  <2> HIDE DEF n, M, l
  <2>9. \A k \in 1 .. Len(hist') : hist'[k].round = first + (n + 1) - k
    BY <2>6, <2>8
  <2> QED
    BY <2>1, <2>2, <2>3, <2>8, <2>9 DEF HistoryIsLatest, M, n
<1>2. CASE NextRound
  <2>1. pc = "sleep" /\ pc' = "ask" /\ round' = round + 1 /\ UNCHANGED <<first, hist>>
    BY <1>2 DEF NextRound, At, process, outputs
  <2>2. Taken' = Taken
    BY <1>0, <2>1 DEF Taken
  <2> QED
    BY <2>1, <2>2 DEF HistoryIsLatest
<1>3. CASE Restart
  <2>1. pc' = "connect" /\ first' = round + 1 /\ round' = round + 1 /\ hist' = <<>>
    BY <1>3 DEF Restart
  <2>2. Taken' = 0
    BY <1>0, <2>1 DEF Taken
  <2> QED
    BY <1>0, <2>1, <2>2 DEF HistoryIsLatest, Least
<1>4. CASE ~ (Record \/ NextRound \/ Restart)
  <2>1. /\ UNCHANGED <<hist, round, first>>
        /\ Recording' <=> Recording
        /\ Recording => wsn' = wsn
    BY <1>4 DEF Next, Network, Round, vars, process, set, outputs, WriteLat, WriteLon, GpsEnds, Deliver,
                Lose, Connected, Ask, Recv, Timeout, Take, ReadLat, ReadLon, SendCloud,
                WriteFails, SendLcd, At, Recording
  <2> QED
    BY <2>1, HistoryKept
<1> QED
  BY <1>1, <1>2, <1>3, <1>4

\* For any limit, the history holds the latest data sets of this process, the
\* newest first: record_a_set_of_wsn_data never frees the set in use.
THEOREM HistoryLatest == Spec => []HistoryIsLatest
<1>1. Init => HistoryIsLatest
  BY HistoryHoldsOne DEF Init, HistoryIsLatest, Taken, Least
<1> QED
  BY <1>1, StageReached, HistoryNext, PTL DEF Spec

-----------------------------------------------------------------------------
(* What has been sent.                                                      *)

LEMMA SentTyped ==
  ASSUME Stage
  PROVE  \A k \in 1 .. Len(sent) : /\ sent[k] \in DataSets /\ sent[k].round \in Nat
                                   /\ sent[k].lat \in Nat /\ sent[k].lon \in Nat
                                   /\ sent[k].readings \in Seq(Recorded)
<1>1. ASSUME NEW w \in DataSets
      PROVE  w.round \in Nat /\ w.lat \in Nat /\ w.lon \in Nat /\ w.readings \in Seq(Recorded)
  BY BoundsAreNat DEF DataSets
<1>2. \A k \in 1 .. Len(sent) : sent[k] \in DataSets
  BY DEF Stage, TypeOK
<1> QED
  BY <1>1, <1>2

LEMMA SentInit == Init => SentSets
  BY DEF Init, SentSets, SentUpTo, Sending

\* A step that sends nothing and does not leave the round.
LEMMA SentKept ==
  ASSUME SentSets, UNCHANGED <<sent, lcd, round, first>>,
         Sending' <=> Sending, Sending => wsn' = wsn, pc' = "sleep" => pc = "sleep"
  PROVE  SentSets'
<1>1. SentUpTo' = SentUpTo
  BY DEF SentUpTo
<1>2. Sending => Flat(wsn)' = Flat(wsn)
  BY DEF Flat
<1>3. pc' = "sleep" => Sending
  BY DEF Sending
<1> QED
  BY <1>1, <1>2, <1>3 DEF SentSets

LEMMA SentNext == Stage /\ SentSets /\ [Next]_vars => SentSets'
<1> SUFFICES ASSUME Stage, SentSets, [Next]_vars PROVE SentSets'
  OBVIOUS
<1> DEFINE N == NumberOfNodes
           l == Len(sent)
<1>0. /\ N \in Nat \ {0} /\ l \in Nat /\ sent \in Seq(DataSets)
      /\ first \in Nat /\ round \in Nat /\ first <= round
  BY Size DEF Stage, TypeOK
<1>1. CASE SendCloud
  <2> DEFINE w == Flat(wsn)
             s == Append(sent, w)
  <2>1. /\ pc = "cloud" /\ pc' = "lcd" /\ sent' = s
        /\ UNCHANGED <<first, round, readings, wsn, lcd>>
    BY <1>1 DEF SendCloud, At, process, set
  <2>2. /\ wsn \in DataSets /\ wsn.round = round /\ wsn.readings = readings
        /\ Len(wsn.readings) = N
        /\ \A k \in 1 .. N : readings[k].label = Addresses[(N - N) + k]
    BY <2>1 DEF Stage, WsnComplete, Complete, Places, Collected
  <2>3. \A k \in 1 .. N : (N - N) + k = k
    BY <1>0
  <2>4. /\ w \in DataSets /\ w.round = round /\ Len(w.readings) = N
        /\ \A j \in 1 .. N : w.readings[j] = readings[j]
    BY <2>2, Flattened
  <2>5. \A j \in 1 .. N : w.readings[j].label = Addresses[j]
    BY <2>2, <2>3, <2>4
  <2>6. w' = w
    BY <2>1 DEF Flat
  <2> HIDE DEF w
  <2>7. s \in Seq(DataSets) /\ Len(s) = l + 1 /\ s[l + 1] = w /\ \A k \in 1 .. l : s[k] = sent[k]
    BY <1>0, <2>4, Behind
  <2> HIDE DEF s
  <2>8. SentUpTo = round - 1 /\ SentUpTo' = round /\ Sending'
    BY <2>1 DEF SentUpTo, Sending
  <2>9. /\ \A k \in 1 .. l : /\ Len(sent[k].readings) = N
                             /\ \A j \in 1 .. N : sent[k].readings[j].label = Addresses[j]
                             /\ sent[k].round <= round - 1
        /\ \A j, k \in 1 .. l : j < k => sent[j].round < sent[k].round
        /\ \A r \in first .. round - 1 : \E k \in 1 .. l : sent[k].round = r
    BY <2>8 DEF SentSets
  <2>10. \A k \in 1 .. l : sent[k].round \in Nat
    BY SentTyped
  <2> HIDE DEF N, l
  <2>11. ASSUME NEW k \in 1 .. l + 1
         PROVE  /\ Len(s[k].readings) = N
                /\ \A j \in 1 .. N : s[k].readings[j].label = Addresses[j]
                /\ s[k].round <= round
    <3>1. CASE k = l + 1
      BY <1>0, <3>1, <2>4, <2>5, <2>7
    <3>2. CASE k # l + 1
      <4>1. k \in 1 .. l
        BY <1>0, <3>2
      <4>2. s[k] = sent[k] /\ sent[k].round <= round
        BY <1>0, <4>1, <2>7, <2>9, <2>10
      <4> QED
        BY <4>1, <4>2, <2>9
    <3> QED
      BY <3>1, <3>2
  <2>12. ASSUME NEW j \in 1 .. l + 1, NEW k \in 1 .. l + 1, j < k
         PROVE  s[j].round < s[k].round
    <3>1. j \in 1 .. l
      BY <1>0, <2>12
    <3>2. CASE k = l + 1
      BY <1>0, <3>1, <3>2, <2>4, <2>7, <2>9, <2>10
    <3>3. CASE k # l + 1
      <4>1. k \in 1 .. l
        BY <1>0, <3>3
      <4> QED
        BY <3>1, <4>1, <2>7, <2>9, <2>12
    <3> QED
      BY <3>2, <3>3
  <2>13. ASSUME NEW r \in first .. round
         PROVE  \E k \in 1 .. l + 1 : s[k].round = r
    <3>1. CASE r = round
      <4>1. l + 1 \in 1 .. l + 1
        BY <1>0
      <4> QED
        BY <4>1, <3>1, <2>4, <2>7
    <3>2. CASE r # round
      <4>1. r \in first .. round - 1
        BY <1>0, <3>2
      <4>2. PICK k \in 1 .. l : sent[k].round = r
        BY <4>1, <2>9
      <4>3. k \in 1 .. l + 1 /\ s[k] = sent[k]
        BY <1>0, <2>7
      <4> QED
        BY <4>2, <4>3
    <3> QED
      BY <3>1, <3>2
  <2>14. l + 1 > 0
    BY <1>0
  <2> QED
    BY <2>1, <2>6, <2>7, <2>8, <2>11, <2>12, <2>13, <2>14 DEF SentSets, N, w
<1>2. CASE SendLcd
  <2>1. pc = "lcd" /\ pc' = "sleep" /\ lcd' = Flat(wsn) /\ UNCHANGED <<first, round, wsn, sent>>
    BY <1>2 DEF SendLcd, At, process, set
  <2>2. Flat(wsn)' = Flat(wsn)
    BY <2>1 DEF Flat
  <2>3. SentUpTo' = SentUpTo /\ Sending /\ Sending'
    BY <2>1 DEF SentUpTo, Sending
  <2> QED
    BY <2>1, <2>2, <2>3 DEF SentSets
<1>3. CASE NextRound
  <2>1. pc = "sleep" /\ pc' = "ask" /\ round' = round + 1 /\ UNCHANGED <<first, sent>>
    BY <1>3 DEF NextRound, At, process, outputs
  <2>2. SentUpTo' = SentUpTo /\ ~ Sending'
    BY <1>0, <2>1 DEF SentUpTo, Sending
  <2> QED
    BY <2>1, <2>2 DEF SentSets
<1>4. CASE Restart
  <2>1. pc' = "connect" /\ round' = round + 1 /\ first' = round + 1 /\ UNCHANGED sent
    BY <1>4 DEF Restart
  <2>2. SentUpTo' = round /\ ~ Sending' /\ SentUpTo \in Int /\ SentUpTo <= round
    BY <1>0, <2>1 DEF SentUpTo, Sending
  <2>3. \A k \in 1 .. l : sent[k].round \in Nat
    BY SentTyped
  <2>4. \A k \in 1 .. l : sent[k].round <= round
    BY <1>0, <2>2, <2>3 DEF SentSets
  <2>5. \A r \in first' .. SentUpTo' : FALSE
    BY <1>0, <2>1, <2>2
  <2> QED
    BY <2>1, <2>2, <2>4, <2>5 DEF SentSets
<1>5. CASE ~ (SendCloud \/ SendLcd \/ NextRound \/ Restart)
  <2>1. /\ UNCHANGED <<sent, lcd, round, first>>
        /\ Sending' <=> Sending
        /\ Sending => wsn' = wsn
        /\ pc' = "sleep" => pc = "sleep"
    BY <1>5 DEF Next, Network, Round, vars, process, set, outputs, WriteLat, WriteLon, GpsEnds, Deliver,
                Lose, Connected, Ask, Recv, Timeout, Take, ReadLat, ReadLon, Record,
                WriteFails, At, Sending
  <2> QED
    BY <2>1, SentKept
<1> QED
  BY <1>1, <1>2, <1>3, <1>4, <1>5

THEOREM SentReached == Spec => []SentSets
  BY StageReached, SentInit, SentNext, PTL DEF Spec

\* Whatever nodes answer, in time, late or not at all, unroll_wsn_data finds
\* exactly one record for every node, for any number of nodes.
THEOREM OneReadingForEachNode == Spec => []OneReadingPerNode
<1>1. Stage /\ SentSets => OneReadingPerNode
  <2> SUFFICES ASSUME Stage, SentSets, NEW k \in 1 .. Len(sent)
               PROVE  LET r == sent[k].readings
                      IN /\ \A j \in 1 .. NumberOfNodes : r[j] \in Recorded
                         /\ \A n \in Nodes : \E j \in 1 .. NumberOfNodes :
                              \A l \in 1 .. NumberOfNodes : r[l].label = n <=> l = j
    BY DEF OneReadingPerNode
  <2> DEFINE N == NumberOfNodes
             r == sent[k].readings
  <2>1. sent[k] \in DataSets
    BY DEF Stage, TypeOK
  <2>2. r \in Seq(Recorded) /\ Len(r) = N /\ \A j \in 1 .. N : r[j].label = Addresses[j]
    BY <2>1 DEF SentSets, DataSets
  <2> HIDE DEF r
  <2>3. \A j \in 1 .. N : r[j] \in Recorded
    BY <2>2
  <2>4. ASSUME NEW n \in Nodes
        PROVE  \E j \in 1 .. N : \A l \in 1 .. N : r[l].label = n <=> l = j
    <3>1. PICK j \in 1 .. N : Addresses[j] = n
      BY Size DEF Nodes
    <3>2. \A l \in 1 .. N : Addresses[l] = n => l = j
      BY <3>1, Size, NodesAreKnown
    <3> QED
      BY <3>1, <3>2, <2>2
  <2> QED
    BY <2>3, <2>4 DEF r
<1> QED
  BY <1>1, StageReached, SentReached, PTL

\* The cloud and the display are sent every round's set once, in order; only a
\* set whose process ended in its round is missing, for any number of rounds.
THEOREM EverySetSent == Spec => []SentAsCollected
<1>1. Stage /\ SentSets => SentAsCollected
  <2> SUFFICES ASSUME Stage, SentSets PROVE SentAsCollected
    OBVIOUS
  <2> DEFINE rounds == { sent[k].round : k \in 1 .. Len(sent) }
             u == SentUpTo
  <2>1. /\ \A k \in 1 .. Len(sent) : sent[k].round <= u
        /\ \A r \in first .. u : \E k \in 1 .. Len(sent) : sent[k].round = r
    BY DEF SentSets
  <2>2. u \in Int /\ u <= MaxRound /\ MaxRound \in Nat /\ first \in Nat
    BY BoundsAreNat DEF SentUpTo, Stage, TypeOK
  <2>3. \A k \in 1 .. Len(sent) : sent[k].round \in Nat
    BY SentTyped
  <2> HIDE DEF u
  <2>4. ASSUME NEW r
        PROVE  r \in rounds \intersect (first .. MaxRound) <=> r \in first .. u
    <3>1. r \in rounds \intersect (first .. MaxRound) => r \in first .. u
      BY <2>1, <2>2, <2>3
    <3>2. r \in first .. u => r \in rounds \intersect (first .. MaxRound)
      BY <2>1, <2>2
    <3> QED
      BY <3>1, <3>2
  <2>5. rounds \intersect (first .. MaxRound) = first .. u
    BY <2>4
  <2>6. pc = "sleep" => lcd = Last(sent)
    BY DEF SentSets, Sending, Last
  <2>7. u = IF pc \in {"lcd", "sleep"} THEN round ELSE round - 1
    BY DEF u, SentUpTo, Sending
  <2>8. \A k \in 1 .. Len(sent) - 1 : sent[k].round < sent[k + 1].round
    <3>1. Len(sent) \in Nat
      BY DEF Stage, TypeOK
    <3> QED
      BY <3>1 DEF SentSets
  <2> HIDE DEF rounds
  <2> QED
    BY <2>5, <2>6, <2>7, <2>8 DEF SentAsCollected, rounds
<1> QED
  BY <1>1, StageReached, SentReached, PTL

-----------------------------------------------------------------------------
(* The position.                                                            *)

LEMMA FixesTyped ==
  ASSUME Stage
  PROVE  /\ latG \in Nat /\ lonG \in Nat /\ lat \in Nat
         /\ \A k \in 1 .. Len(inbox) : inbox[k].fix \in Nat
         /\ \A k \in 1 .. Len(readings) : readings[k] \in Recorded /\ readings[k].fix \in Nat
         /\ Complete => wsn.lon \in Nat
<1> DEFINE A == [from : Nodes, asked : 1 .. MaxRound, fix : 0 .. MaxFix]
<1>1. ASSUME NEW a \in A PROVE a.fix \in Nat
  BY BoundsAreNat
<1>2. ASSUME NEW r \in Recorded PROVE r.fix \in Nat
  BY BoundsAreNat DEF Recorded
<1>3. inbox \in Seq(A) /\ readings \in Seq(Recorded)
  BY DEF Stage, TypeOK
<1> HIDE DEF A
<1>4. \A k \in 1 .. Len(inbox) : inbox[k] \in A
  BY <1>3
<1>5. \A k \in 1 .. Len(readings) : readings[k] \in Recorded
  BY <1>3
<1>6. Complete => wsn.lon \in Nat
  BY BoundsAreNat DEF Stage, WsnComplete, DataSets
<1> QED
  BY <1>1, <1>2, <1>4, <1>5, <1>6, BoundsAreNat, SMTT(30) DEF Stage, TypeOK

LEMMA FixesInit == Init => Fixes
  BY DEF Init, Fixes, Complete

LEMMA FixesNext == Stage /\ Fixes /\ [Next]_vars => Fixes'
<1> SUFFICES ASSUME Stage, Fixes, [Next]_vars PROVE Fixes'
  OBVIOUS
<1> USE FixesTyped DEF process, gps, socket, set, outputs
<1>1. CASE WriteLat
  BY <1>1 DEF WriteLat, Fixes, Complete
<1>2. CASE WriteLon
  BY <1>2 DEF WriteLon, Fixes, Complete
<1>3. ASSUME NEW m \in net, Deliver(m) PROVE Fixes'
  <2> DEFINE a == [from |-> m.node, asked |-> m.round, fix |-> lonG]
             A == [from : Nodes, asked : 1 .. MaxRound, fix : 0 .. MaxFix]
  <2>1. a \in A /\ a.fix = lonG /\ inbox \in Seq(A)
    BY DEF Stage, TypeOK
  <2> HIDE DEF a, A
  <2>2. inbox' = Append(inbox, a) \/ inbox' = inbox
    BY <1>3 DEF Deliver, a
  <2>3. \A k \in 1 .. Len(inbox') : inbox'[k].fix <= lonG
    <3> DEFINE l == Len(inbox)
    <3>1. l \in Nat /\ \A k \in 1 .. l : inbox[k].fix <= lonG
      BY <2>1 DEF Fixes
    <3>2. CASE inbox' = Append(inbox, a)
      <4>1. Len(inbox') = l + 1 /\ inbox'[l + 1] = a /\ \A k \in 1 .. l : inbox'[k] = inbox[k]
        BY <2>1, <3>2, Behind
      <4> HIDE DEF l
      <4>2. \A k \in 1 .. l + 1 : k = l + 1 \/ k \in 1 .. l
        BY <3>1
      <4> QED
        <5>1. a.fix <= lonG
          BY <2>1, FixesTyped
        <5> QED
          BY <3>1, <4>1, <4>2, <5>1, Zenon
    <3> QED
      BY <2>2, <3>1, <3>2
  <2> QED
    BY <1>3, <2>3 DEF Deliver, Fixes, Complete
<1>4. CASE Ask
  BY <1>4 DEF Ask, Fixes, Complete
<1>5. ASSUME NEW r \in Recorded, r.fix <= lonG, At("recv"), Take(r)
      PROVE  Fixes'
  <2> DEFINE rs == <<r>> \o readings
  <2>1. /\ readings \in Seq(Recorded) /\ Len(rs) = Len(readings) + 1 /\ rs[1] = r
        /\ \A k \in 1 .. Len(readings) : rs[k + 1] = readings[k]
    BY Push DEF Stage, TypeOK
  <2>2. \A k \in 1 .. Len(readings) : readings[k].fix <= lonG
    BY DEF Fixes
  <2> DEFINE l == Len(readings)
  <2>3. l \in Nat
    BY <2>1
  <2> HIDE DEF rs, l
  <2>4. ASSUME NEW k \in 1 .. l + 1 PROVE rs[k].fix <= lonG
    <3>1. CASE k = 1
      BY <1>5, <2>1, <3>1
    <3>2. CASE k # 1
      <4>1. k - 1 \in 1 .. l /\ (k - 1) + 1 = k
        BY <2>3, <3>2
      <4> QED
        BY <4>1, <2>1, <2>2 DEF l
    <3> QED
      BY <3>1, <3>2
  <2>5. /\ readings' = rs /\ inbox' = <<>> /\ UNCHANGED <<latG, lonG>>
        /\ pc' \in {"ask", "lat"}
    BY <1>5 DEF Take, rs
  <2>6. \A k \in 1 .. Len(readings') : readings'[k].fix <= lonG'
    BY <2>1, <2>4, <2>5 DEF l
  <2> QED
    BY <2>5, <2>6 DEF Fixes, Complete
<1>6. CASE Recv
  <2> DEFINE A == [from : Nodes, asked : 1 .. MaxRound, fix : 0 .. MaxFix]
             h == Head(inbox)
             r == Reading(Get(NodeProps, i), h.from, h.asked, h.fix)
  <2>1. inbox \in Seq(A) /\ inbox # <<>>
    BY <1>6 DEF Recv, Stage, TypeOK
  <2> HIDE DEF A
  <2>2. h \in A /\ 1 \in 1 .. Len(inbox) /\ h = inbox[1]
    BY <2>1
  <2>3. h.fix <= lonG
    BY <2>2 DEF Fixes
  <2>4. Get(NodeProps, i) \in Nodes
    BY Asked, Size DEF Stage, TypeOK
  <2> HIDE DEF h
  <2>5. r \in Recorded /\ r.fix = h.fix
    BY <2>2, <2>4, BoundsAreNat DEF A, Recorded, Reading
  <2>6. At("recv") /\ Take(r)
    BY <1>6 DEF Recv, h
  <2> HIDE DEF r
  <2> QED
    BY <2>3, <2>5, <2>6, <1>5
<1>7. CASE Timeout
  <2> DEFINE r == Reading(Get(NodeProps, i), None, 0, 0)
  <2>1. Get(NodeProps, i) \in Nodes
    BY Asked, Size DEF Stage, TypeOK
  <2>2. r \in Recorded /\ r.fix = 0
    BY <2>1, BoundsAreNat DEF Recorded, Reading
  <2>3. At("recv") /\ Take(r)
    BY <1>7 DEF Timeout
  <2> HIDE DEF r
  <2> QED
    BY <2>2, <2>3, <1>5
<1>8. CASE ReadLat
  BY <1>8 DEF ReadLat, At, Fixes, Complete
<1>9. CASE ReadLon
  BY <1>9 DEF ReadLon, At, Fixes, Complete
<1>10. CASE NextRound
  BY <1>10 DEF NextRound, Fixes, Complete
<1>11. CASE Restart
  BY <1>11 DEF Restart, Fixes, Complete
<1>12. CASE Record \/ SendCloud \/ SendLcd
  BY <1>12 DEF Record, SendCloud, SendLcd, At, Fixes, Complete
<1>13. CASE GpsEnds \/ Connected \/ WriteFails \/ (\E m \in net : Lose(m)) \/ UNCHANGED vars
  BY <1>13 DEF GpsEnds, Connected, WriteFails, Lose, At, vars, Fixes, Complete
<1> QED
  BY <1>1, <1>2, <1>3, <1>4, <1>6, <1>7, <1>8, <1>9, <1>10, <1>11, <1>12, <1>13
     DEF Next, Network, Round

THEOREM FixesOrdered == Spec => []Fixes
  BY StageReached, FixesInit, FixesNext, PTL DEF Spec

LEMMA FixesSentInit == Init => FixesSent /\ PositionIsRecent
  BY DEF Init, FixesSent, PositionIsRecent

\* What is sent has the position that was read, and the fixes of its records.
LEMMA SentPosition ==
  ASSUME Stage, Fixes, pc = "cloud"
  PROVE  LET w == Flat(wsn)
         IN /\ w \in DataSets /\ w.round = round /\ w.lat = lat /\ w.lon = wsn.lon
            /\ w.lat \in Nat /\ w.lon \in Nat
            /\ \A j \in 1 .. NumberOfNodes : w.readings[j].fix <= Least(w.lat, w.lon)
            /\ w.lon >= w.lat - 1
<1> DEFINE w == Flat(wsn)
<1>1. /\ wsn \in DataSets /\ wsn.round = round /\ wsn.lat = lat /\ wsn.readings = readings
      /\ Len(readings) = NumberOfNodes
  BY DEF Stage, WsnComplete, Complete, Places, Collected
<1>2. /\ w \in DataSets /\ w.round = round /\ w.lat = lat /\ w.lon = wsn.lon
      /\ \A j \in 1 .. NumberOfNodes : w.readings[j] = readings[j]
  BY <1>1, Flattened
<1>3. /\ lat \in Nat /\ wsn.lon \in Nat
      /\ \A j \in 1 .. NumberOfNodes : readings[j].fix \in Nat
  BY <1>1, FixesTyped DEF Complete
<1>4. /\ lat <= wsn.lon + 1
      /\ \A j \in 1 .. NumberOfNodes : readings[j].fix <= lat /\ readings[j].fix <= wsn.lon
  BY <1>1 DEF Fixes, Complete
<1>5. wsn.lon >= lat - 1
  BY <1>3, <1>4
<1>6. \A j \in 1 .. NumberOfNodes : w.readings[j].fix <= Least(w.lat, w.lon)
  BY <1>2, <1>4 DEF Least
<1> HIDE DEF w
<1> QED
  BY <1>2, <1>3, <1>5, <1>6 DEF w

LEMMA FixesSentNext ==
  Stage /\ SentSets /\ Fixes /\ FixesSent /\ PositionIsRecent /\ [Next]_vars
    => FixesSent' /\ PositionIsRecent'
<1> SUFFICES ASSUME Stage, SentSets, Fixes, FixesSent, PositionIsRecent, [Next]_vars
             PROVE  FixesSent' /\ PositionIsRecent'
  OBVIOUS
<1> DEFINE l == Len(sent)
<1>0. /\ l \in Nat /\ sent \in Seq(DataSets) /\ first \in Nat /\ round \in Nat
      /\ latG \in Nat /\ lonG \in Nat /\ lat \in Nat /\ (Complete => wsn.lon \in Nat)
      /\ \A k \in 1 .. l : sent[k].lat \in Nat /\ sent[k].lon \in Nat /\ sent[k].round \in Nat
  BY SentTyped, FixesTyped DEF Stage, TypeOK
<1>1. CASE SendCloud
  <2> DEFINE w == Flat(wsn)
             s == Append(sent, w)
  <2>1. /\ pc = "cloud" /\ pc' = "lcd" /\ sent' = s
        /\ UNCHANGED <<first, round, lat, wsn, latG, lonG>>
    BY <1>1 DEF SendCloud, At, process, set, gps
  <2>2. /\ w \in DataSets /\ w.round = round /\ w.lat = lat /\ w.lon = wsn.lon
        /\ w.lat \in Nat /\ w.lon \in Nat
        /\ \A j \in 1 .. NumberOfNodes : w.readings[j].fix <= Least(w.lat, w.lon)
        /\ w.lon >= w.lat - 1
    BY <2>1, SentPosition
  <2> HIDE DEF w
  <2>3. Len(s) = l + 1 /\ s[l + 1] = w /\ \A k \in 1 .. l : s[k] = sent[k]
    BY <1>0, <2>2, Behind
  <2> HIDE DEF s
  <2>4. lat <= latG /\ wsn.lon <= lonG
    BY <2>1 DEF Fixes, Complete
  <2>5. Len(sent') = l + 1 /\ sent'[l + 1].lat = lat /\ sent'[l + 1].lon = wsn.lon
    BY <2>1, <2>2, <2>3
  <2>6. l > 0 /\ sent[l].round >= first => sent[l].lat <= lat /\ sent[l].lon <= wsn.lon
    BY <2>1 DEF FixesSent, Complete
  <2>7. \A k \in 1 .. l :
          /\ \A j \in 1 .. NumberOfNodes :
               sent[k].readings[j].fix <= Least(sent[k].lat, sent[k].lon)
          /\ sent[k].lon >= sent[k].lat - 1
          /\ k > 1 /\ sent[k - 1].round >= first =>
               sent[k - 1].lat <= sent[k].lat /\ sent[k - 1].lon <= sent[k].lon
    BY DEF PositionIsRecent
  <2> HIDE DEF l
  <2>8. FixesSent'
    BY <1>0, <2>1, <2>4, <2>5 DEF FixesSent, Complete
  <2>9. ASSUME NEW k \in 1 .. l + 1
        PROVE  /\ \A j \in 1 .. NumberOfNodes :
                    s[k].readings[j].fix <= Least(s[k].lat, s[k].lon)
               /\ s[k].lon >= s[k].lat - 1
               /\ k > 1 /\ s[k - 1].round >= first =>
                    s[k - 1].lat <= s[k].lat /\ s[k - 1].lon <= s[k].lon
    <3>1. CASE k = l + 1
      <4>1. (l + 1) - 1 = l /\ (k > 1 => l > 0 /\ l \in 1 .. l)
        BY <1>0, <3>1
      <4> QED
        BY <3>1, <4>1, <2>2, <2>3, <2>6
    <3>2. CASE k # l + 1
      <4>1. k \in 1 .. l /\ (k > 1 => k - 1 \in 1 .. l)
        BY <1>0, <3>2
      <4> QED
        BY <4>1, <2>3, <2>7
    <3> QED
      BY <3>1, <3>2
  <2>10. PositionIsRecent'
    BY <2>1, <2>3, <2>9 DEF PositionIsRecent
  <2> QED
    BY <2>8, <2>10
<1>2. CASE Restart
  <2>1. first' = round + 1 /\ sent' = sent
    BY <1>2 DEF Restart
  <2>2. \A k \in 1 .. l : sent[k].round <= round
    BY <1>0 DEF SentSets, SentUpTo
  <2>3. \A k \in 1 .. l : ~ (sent'[k].round >= first')
    BY <1>0, <2>1, <2>2
  <2>4. l > 0 => l \in 1 .. l
    BY <1>0
  <2>5. FixesSent'
    BY <2>1, <2>3, <2>4 DEF FixesSent
  <2>6. \A k \in 1 .. l : k > 1 => k - 1 \in 1 .. l
    BY <1>0
  <2> QED
    BY <2>1, <2>3, <2>5, <2>6 DEF PositionIsRecent
<1>3. CASE ~ (SendCloud \/ Restart)
  <2>1. UNCHANGED <<sent, first>>
    BY <1>3 DEF Next, Network, Round, vars, process, outputs, WriteLat, WriteLon, GpsEnds, Deliver,
                Lose, Connected, Ask, Recv, Timeout, Take, ReadLat, ReadLon, Record,
                SendLcd, WriteFails, NextRound
  <2>2. PositionIsRecent'
    BY <2>1 DEF PositionIsRecent
  <2>3. latG <= latG' /\ lonG <= lonG' /\ latG' \in Nat /\ lonG' \in Nat
    <3>1. WriteLat \/ WriteLon \/ UNCHANGED <<latG, lonG>>
      BY <1>3 DEF Next, Network, Round, vars, gps, GpsEnds, Deliver,
                  Lose, Connected, Ask, Recv, Timeout, Take, ReadLat, ReadLon, Record,
                  SendLcd, WriteFails, NextRound
    <3> QED
      BY <1>0, <3>1 DEF WriteLat, WriteLon
  <2>4. /\ pc' = "lon" \/ Complete' =>
             ((pc = "lon" \/ Complete) /\ lat' = lat) \/ lat' = latG
        /\ Complete' =>
             (Complete /\ wsn' = wsn) \/ wsn'.lon = lonG
    <3>1. CASE ReadLat \/ ReadLon
      BY <3>1 DEF ReadLat, ReadLon, At, Complete
    <3>2. CASE ~ (ReadLat \/ ReadLon)
      BY <1>3, <3>2 DEF Next, Network, Round, vars, set, WriteLat, WriteLon, GpsEnds, Deliver,
                  Lose, Connected, Ask, Recv, Timeout, Take, Record,
                  SendLcd, WriteFails, NextRound, At, Complete
    <3> QED
      BY <3>1, <3>2
  <2>5. ASSUME l > 0, sent[l].round >= first
        PROVE  /\ sent[l].lat <= latG' /\ sent[l].lon <= lonG'
               /\ pc' = "lon" \/ Complete' => sent[l].lat <= lat'
               /\ Complete' => sent[l].lon <= wsn'.lon
    <3>1. /\ sent[l].lat <= latG /\ sent[l].lon <= lonG
          /\ pc = "lon" \/ Complete => sent[l].lat <= lat
          /\ Complete => sent[l].lon <= wsn.lon
      BY <2>5 DEF FixesSent
    <3>2. sent[l].lat \in Nat /\ sent[l].lon \in Nat
      BY <1>0, <2>5
    <3> HIDE DEF l
    <3>3. sent[l].lat <= latG' /\ sent[l].lon <= lonG'
      BY <1>0, <2>3, <3>1, <3>2
    <3>4. pc' = "lon" \/ Complete' => sent[l].lat <= lat'
      BY <2>4, <3>1, <3>3
    <3>5. Complete' => sent[l].lon <= wsn'.lon
      BY <2>4, <3>1, <3>3
    <3> QED
      BY <3>3, <3>4, <3>5
  <2> QED
    BY <2>1, <2>2, <2>5 DEF FixesSent
<1> QED
  BY <1>1, <1>2, <1>3

\* The position of every set is at least as recent as its readings and as the
\* position the process sent before, and the longitude at most one fix behind
\* the latitude, although nothing protects the GPS thread's two variables.
THEOREM PositionRecent == Spec => []PositionIsRecent
  BY StageReached, SentReached, FixesOrdered, FixesSentInit, FixesSentNext, PTL DEF Spec

-----------------------------------------------------------------------------
(* The answers, as long as no port is given out while one to it is under    *)
(* way.                                                                     *)

\* A record of the answer to this round's request, or of none.
Answering(r, n) == r.from # None => r.from = r.label /\ r.asked = n

LEMMA AnswersInit == Init => Answers /\ AnswersSent
  BY DEF Init, Answers, AnswersSent

\* A record is taken.
LEMMA AnswersTake ==
  ASSUME Stage, Answers, ~ PortReuse, NEW r \in Recorded, Answering(r, round), At("recv"), Take(r)
  PROVE  Answers'
<1> DEFINE rs == <<r>> \o readings
           l == Len(readings)
<1>1. /\ l \in Nat /\ Len(rs) = l + 1 /\ rs[1] = r
      /\ \A k \in 1 .. l : rs[k + 1] = readings[k]
  BY Push DEF Stage, TypeOK
<1>2. \A k \in 1 .. l : Answering(readings[k], round)
  BY DEF Answers, Answering
<1> HIDE DEF rs, l
<1>3. ASSUME NEW k \in 1 .. l + 1 PROVE Answering(rs[k], round)
  <2>1. CASE k = 1
    BY <1>1, <2>1
  <2>2. CASE k # 1
    <3>1. k - 1 \in 1 .. l /\ (k - 1) + 1 = k
      BY <1>1, <2>2
    <3> QED
      BY <3>1, <1>1, <1>2
  <2> QED
    BY <2>1, <2>2
<1>4. readings' = rs /\ round' = round /\ pc' # "recv"
  BY DEF Take, rs
<1> QED
  BY <1>1, <1>3, <1>4 DEF Answers, Answering

LEMMA AnswersNext == Stage /\ Answers /\ [Next]_vars => Answers'
<1> SUFFICES ASSUME Stage, Answers, [Next]_vars, ~ PortReuse PROVE Answers'
  BY DEF Answers
<1> USE DEF process, gps, socket, set, outputs
<1>0. /\ \A m \in net : m.port \in Ports
      /\ pc = "recv" =>
           /\ \A m \in net : m.port = port => m.node = Get(NodeProps, i) /\ m.round = round
           /\ \A k \in 1 .. Len(inbox) : inbox[k].from = Get(NodeProps, i) /\ inbox[k].asked = round
      /\ \A k \in 1 .. Len(readings) :
           readings[k].from # None => readings[k].from = readings[k].label /\ readings[k].asked = round
  BY DEF Stage, TypeOK, Answers
<1>1. ASSUME NEW m \in net, Deliver(m) PROVE Answers'
  <2>1. UNCHANGED <<pc, port, round, i, readings>> /\ net' = net \ {m}
    BY <1>1 DEF Deliver
  <2>2. ASSUME pc = "recv"
        PROVE  \A k \in 1 .. Len(inbox') :
                 inbox'[k].from = Get(NodeProps, i) /\ inbox'[k].asked = round
    <3>1. CASE m.port = port
      <4> DEFINE a == [from |-> m.node, asked |-> m.round, fix |-> lonG]
                 A == [from : Nodes, asked : 1 .. MaxRound, fix : 0 .. MaxFix]
                 l == Len(inbox)
      <4>1. inbox \in Seq(A) /\ a \in A
        BY DEF Stage, TypeOK
      <4>2. a.from = Get(NodeProps, i) /\ a.asked = round
        BY <1>0, <2>2, <3>1
      <4> HIDE DEF a, A
      <4>3. inbox' = Append(inbox, a)
        BY <1>1, <3>1 DEF Deliver, a
      <4>4. /\ l \in Nat /\ Len(inbox') = l + 1 /\ inbox'[l + 1] = a
            /\ \A k \in 1 .. l : inbox'[k] = inbox[k]
        BY <4>1, <4>3, Behind
      <4>5. \A k \in 1 .. l : inbox[k].from = Get(NodeProps, i) /\ inbox[k].asked = round
        BY <1>0, <2>2
      <4> HIDE DEF l
      <4>6. \A k \in 1 .. l + 1 : k = l + 1 \/ k \in 1 .. l
        BY <4>4
      <4> QED
        BY <4>2, <4>4, <4>5, <4>6
    <3>2. CASE m.port # port
      <4>1. inbox' = inbox
        BY <1>1, <3>2 DEF Deliver
      <4> QED
        BY <4>1, <1>0, <2>2
    <3> QED
      BY <3>1, <3>2
  <2> QED
    BY <1>0, <2>1, <2>2 DEF Answers
<1>2. CASE Ask
  <2>1. PICK p \in Ports :
          /\ Free(p) /\ port' = p
          /\ net' = net \union {[node |-> Get(NodeProps, i), port |-> p, round |-> round]}
    BY <1>2 DEF Ask
  <2>2. \A m \in net : m.port # p
    BY <2>1 DEF Free
  <2>3. inbox' = <<>> /\ UNCHANGED <<round, i, readings>>
    BY <1>2 DEF Ask
  <2>4. \A m \in net' : m.port = port' => m.node = Get(NodeProps, i) /\ m.round = round
    BY <2>1, <2>2
  <2> QED
    BY <1>0, <2>3, <2>4 DEF Answers
<1>3. CASE Recv
  <2> DEFINE A == [from : Nodes, asked : 1 .. MaxRound, fix : 0 .. MaxFix]
             h == Head(inbox)
             r == Reading(Get(NodeProps, i), h.from, h.asked, h.fix)
  <2>1. inbox \in Seq(A) /\ inbox # <<>> /\ pc = "recv"
    BY <1>3 DEF Recv, At, Stage, TypeOK
  <2> HIDE DEF A
  <2>2. h \in A /\ 1 \in 1 .. Len(inbox) /\ h = inbox[1]
    BY <2>1
  <2>3. h.from = Get(NodeProps, i) /\ h.asked = round
    BY <1>0, <2>1, <2>2
  <2>4. Get(NodeProps, i) \in Nodes
    BY Asked, Size DEF Stage, TypeOK
  <2> HIDE DEF h
  <2>5. r \in Recorded /\ Answering(r, round)
    BY <2>2, <2>3, <2>4, BoundsAreNat DEF A, Recorded, Reading, Answering
  <2>6. At("recv") /\ Take(r)
    BY <1>3 DEF Recv, h
  <2> HIDE DEF r
  <2> QED
    BY <2>5, <2>6, AnswersTake
<1>4. CASE Timeout
  <2> DEFINE r == Reading(Get(NodeProps, i), None, 0, 0)
  <2>1. Get(NodeProps, i) \in Nodes
    BY Asked, Size DEF Stage, TypeOK
  <2>2. r \in Recorded /\ Answering(r, round)
    BY <2>1, BoundsAreNat DEF Recorded, Reading, Answering
  <2>3. At("recv") /\ Take(r)
    BY <1>4 DEF Timeout
  <2> HIDE DEF r
  <2> QED
    BY <2>2, <2>3, AnswersTake
<1>5. CASE NextRound \/ Restart
  BY <1>5 DEF NextRound, Restart, Answers
<1>6. CASE ~ (Ask \/ Recv \/ Timeout \/ NextRound \/ Restart \/ \E m \in net : Deliver(m))
  <2>1. /\ UNCHANGED <<port, inbox, round, i, readings>>
        /\ net' \subseteq net
        /\ pc' = "recv" => pc = "recv"
    BY <1>6 DEF Next, Network, Round, vars, WriteLat, WriteLon, GpsEnds, Lose, Connected,
                ReadLat, ReadLon, Record, SendCloud, SendLcd, WriteFails, At
  <2> QED
    BY <1>0, <2>1 DEF Answers
<1> QED
  BY <1>1, <1>2, <1>3, <1>4, <1>5, <1>6

LEMMA AnswersSentNext == Stage /\ Answers /\ AnswersSent /\ [Next]_vars => AnswersSent'
<1> SUFFICES ASSUME Stage, Answers, AnswersSent, [Next]_vars, ~ PortReuse PROVE AnswersSent'
  BY DEF AnswersSent
<1>1. CASE SendCloud
  <2> DEFINE w == Flat(wsn)
             s == Append(sent, w)
             l == Len(sent)
  <2>1. pc = "cloud" /\ sent' = s
    BY <1>1 DEF SendCloud, At
  <2>2. /\ wsn \in DataSets /\ wsn.round = round /\ wsn.readings = readings
        /\ Len(readings) = NumberOfNodes /\ sent \in Seq(DataSets)
    BY <2>1 DEF Stage, WsnComplete, Complete, Places, Collected, TypeOK
  <2>3. /\ w \in DataSets /\ w.round = round
        /\ \A j \in 1 .. NumberOfNodes : w.readings[j] = readings[j]
    BY <2>2, Flattened
  <2>4. \A j \in 1 .. NumberOfNodes : Answering(w.readings[j], w.round)
    BY <2>2, <2>3 DEF Answers, Answering
  <2> HIDE DEF w
  <2>5. l \in Nat /\ Len(s) = l + 1 /\ s[l + 1] = w /\ \A k \in 1 .. l : s[k] = sent[k]
    BY <2>2, <2>3, Behind
  <2>6. \A k \in 1 .. l : \A j \in 1 .. NumberOfNodes : Answering(sent[k].readings[j], sent[k].round)
    BY DEF AnswersSent, Answering
  <2> HIDE DEF s, l
  <2>7. \A k \in 1 .. l + 1 : k = l + 1 \/ k \in 1 .. l
    BY <2>5
  <2>8. \A k \in 1 .. l + 1 : \A j \in 1 .. NumberOfNodes : Answering(s[k].readings[j], s[k].round)
    BY <2>4, <2>5, <2>6, <2>7
  <2> QED
    BY <2>1, <2>5, <2>8 DEF AnswersSent, Answering
<1>2. CASE ~ SendCloud
  <2>1. sent' = sent
    BY <1>2 DEF Next, Network, Round, vars, outputs, WriteLat, WriteLon, GpsEnds, Deliver,
                Lose, Connected, Ask, Recv, Timeout, Take, ReadLat, ReadLon, Record,
                SendLcd, WriteFails, NextRound, Restart
  <2> QED
    BY <2>1 DEF AnswersSent
<1> QED
  BY <1>1, <1>2

\* As long as no port is given out while an answer to it is under way, every
\* record that is sent is its node's answer to that round's request, or missing.
THEOREM AnswersBelong == Spec => []AnswersSent
<1>1. Init => Answers /\ AnswersSent
  BY AnswersInit
<1>2. Stage /\ Answers /\ AnswersSent /\ [Next]_vars => Answers' /\ AnswersSent'
  BY AnswersNext, AnswersSentNext
<1> QED
  BY <1>1, <1>2, StageReached, PTL DEF Spec

-----------------------------------------------------------------------------
(* The coordinator and the server together.                                 *)

\* The theorems about the server, for the bridge that the coordinator is.
Srv == INSTANCE CloudServerProof
         WITH wsn <- handled, written <- Len(sent), up <- alive /\ pc # "connect",
              MaxSet <- MaxRound

-----------------------------------------------------------------------------
(* Each part makes its own steps.                                           *)

\* The bridge holds a connection.
Up == alive /\ pc # "connect"

\* Steps of the bridge that do not concern the cloud neither write to it nor
\* make or leave a connection.
LEMMA AsideKeeps ==
  ASSUME Stage, \/ WriteLat \/ WriteLon \/ Network \/ Restart
                \/ Ask \/ Recv \/ Timeout \/ ReadLat \/ ReadLon \/ Record \/ SendLcd \/ NextRound
  PROVE  Next /\ sent' = sent /\ Up' = Up
<1>1. Next
  BY DEF Next, Round
<1>2. sent' = sent
  BY DEF Network, WriteLat, WriteLon, Deliver, Lose, Ask, Recv, Timeout, Take, ReadLat,
         ReadLon, Record, SendLcd, NextRound, Restart, outputs
<1>3. Up' <=> Up
  <2>1. CASE Restart
    <3>1. ~ alive /\ pc' = "connect"
      BY <2>1 DEF Restart
    <3> QED
      BY <3>1 DEF Up
  <2>2. CASE \/ WriteLat \/ WriteLon \/ Network
    <3>1. alive' = alive /\ pc' = pc
      BY <2>2 DEF Network, WriteLat, WriteLon, Deliver, Lose, process
    <3> QED
      BY <3>1 DEF Up
  <2>3. CASE \/ Ask \/ Recv \/ Timeout \/ ReadLat \/ ReadLon \/ Record \/ SendLcd \/ NextRound
    <3>1. alive' = alive /\ pc # "connect" /\ pc' # "connect"
      BY <2>3 DEF Ask, Recv, Timeout, Take, ReadLat, ReadLon, Record, SendLcd, NextRound, At, process
    <3> QED
      BY <3>1 DEF Up
  <2> QED
    BY <2>1, <2>2, <2>3
<1>4. Up' = Up
  BY <1>3, Zenon DEF Up
<1> QED
  BY <1>1, <1>2, <1>4

LEMMA Parts ==
  ASSUME Stage, [TNext]_tvars
  PROVE  [Next]_vars /\ [Cloud!Next]_(Cloud!vars)
<1> USE DEF Cloud!Next, Cloud!Environment, cloud
<1>1. CASE Aside
  <2>1. Next /\ sent' = sent /\ Up' = Up
    BY <1>1, AsideKeeps DEF Aside
  <2> QED
    BY <1>1, <2>1 DEF Aside, Up, Cloud!vars, Cloud!bridge, Cloud!server
<1>2. CASE ConnectCloud
  BY <1>2 DEF ConnectCloud, Next
<1>3. CASE Send
  BY <1>3 DEF Send, Next, Round
<1>4. CASE SendFails
  BY <1>4 DEF SendFails, Next, Round
<1>5. CASE Exit
  <2>1. CASE pc = "connect"
    <3>1. sent' = sent /\ Up' = Up
      BY <1>5, <2>1 DEF Exit, GpsEnds, outputs, Up
    <3> QED
      BY <1>5, <2>1, <3>1 DEF Exit, Next, Up, Cloud!vars, Cloud!bridge, Cloud!server
  <2>2. CASE pc # "connect"
    BY <1>5, <2>2 DEF Exit, Next
  <2> QED
    BY <2>1, <2>2
<1>6. CASE Outage
  BY <1>6 DEF Outage
<1>7. CASE Serve
  BY <1>7 DEF Serve
<1>8. CASE UNCHANGED tvars
  <2>1. UNCHANGED vars /\ UNCHANGED cloud
    BY <1>8 DEF tvars
  <2> QED
    BY <2>1 DEF vars, process, outputs, Cloud!vars, Cloud!bridge, Cloud!server
<1> QED
  BY <1>1, <1>2, <1>3, <1>4, <1>5, <1>6, <1>7, <1>8 DEF TNext

\* The coordinator in Telemetry is the one of Coordinator.
LEMMA IsACoordinator == TSpec => Spec /\ []Stage
<1>1. TInit => Init
  BY DEF TInit
<1>2. Stage /\ [TNext]_tvars => Stage' /\ [Next]_vars
  BY Parts, StageNext
<1> QED
  BY <1>1, <1>2, StageInit, PTL DEF TSpec, Spec

\* For any number of nodes and any sizes, the coordinator is a bridge that the
\* server's model allows for: what holds of CloudServer holds of both together.
THEOREM BridgeConforms == TSpec => IsABridge
<1>1. TInit => Cloud!Init
  BY DEF TInit
<1>2. Stage /\ [TNext]_tvars => [Cloud!Next]_(Cloud!vars)
  BY Parts
<1> QED
  BY <1>1, <1>2, IsACoordinator, PTL DEF TSpec, IsABridge, Cloud!Spec

-----------------------------------------------------------------------------
(* From one end to the other.                                               *)

\* Both instances of the server are the same module under the same names.
LEMMA SameServer == Cloud!Spec => Srv!Spec
<1>1. Cloud!Init => Srv!Init
  BY DEF Cloud!Init, Srv!Init
<1>2. [Cloud!Next]_(Cloud!vars) => [Srv!Next]_(Srv!vars)
  BY DEF Cloud!Next, Cloud!vars, Cloud!bridge, Cloud!server, Cloud!Environment, Cloud!Connect,
         Cloud!Write, Cloud!WriteLost, Cloud!BridgeEnds, Cloud!Cut, Cloud!Server, Cloud!Accept,
         Cloud!Read, Cloud!ReadEnd, Cloud!ReadError, Cloud!PrepFile, Cloud!Insert, Cloud!At,
         Cloud!Link, Cloud!SetLink, Cloud!Connection, Cloud!Unread, Cloud!Cur, Cloud!Waiting,
         Cloud!Upto, Cloud!ReadLimit, Cloud!Least, Cloud!Most, Cloud!Consumed, Cloud!HandleFirst,
         Cloud!HandleNoRows, Cloud!HandleCrashes, Cloud!Rows,
         Srv!Next, Srv!vars, Srv!bridge, Srv!server, Srv!Environment, Srv!Connect,
         Srv!Write, Srv!WriteLost, Srv!BridgeEnds, Srv!Cut, Srv!Server, Srv!Accept,
         Srv!Read, Srv!ReadEnd, Srv!ReadError, Srv!PrepFile, Srv!Insert, Srv!At,
         Srv!Link, Srv!SetLink, Srv!Connection, Srv!Unread, Srv!Cur, Srv!Waiting,
         Srv!Upto, Srv!ReadLimit, Srv!Least, Srv!Most, Srv!Consumed, Srv!HandleFirst,
         Srv!HandleNoRows, Srv!HandleCrashes, Srv!Rows
<1> QED
  BY <1>1, <1>2, PTL DEF Cloud!Spec, Srv!Spec

LEMMA ServerStoresInOrder == Srv!Spec => []Srv!InOrder
  BY Srv!StoredInOrder, SetFits, LimitsAreNat, BoundsAreNat

\* As long as no port is given out while an answer to it is under way, whatever
\* answers late, crashes, is cut or is restarted on the way: every insert adds the
\* readings of one round, a later one than before, and under no other round.
THEOREM DatabaseInRounds == TSpec => [](~ PortReuse => DatabaseIsInRounds)
<1>1. Stage /\ SentSets /\ AnswersSent /\ Srv!InOrder => (~ PortReuse => DatabaseIsInRounds)
  <2> SUFFICES ASSUME Stage, SentSets, AnswersSent, Srv!InOrder, ~ PortReuse,
                      NEW k \in 1 .. Len(db)
               PROVE  LET d == sent[db[k]]
                      IN /\ k > 1 => sent[db[k - 1]].round < d.round
                         /\ \A j \in 1 .. NumberOfNodes :
                              d.readings[j].from # None =>
                                d.readings[j].from = d.readings[j].label /\ d.readings[j].asked = d.round
    BY DEF DatabaseIsInRounds
  <2>1. db[k] \in 1 .. Len(sent)
    BY DEF Srv!InOrder
  <2>2. ASSUME k > 1 PROVE sent[db[k - 1]].round < sent[db[k]].round
    <3>1. k - 1 \in 1 .. Len(db)
      BY <2>2
    <3>2. db[k - 1] \in 1 .. Len(sent) /\ db[k - 1] < db[k]
      BY <2>2, <3>1 DEF Srv!InOrder
    <3> QED
      BY <2>1, <3>2 DEF SentSets
  <2>3. \A j \in 1 .. NumberOfNodes :
          sent[db[k]].readings[j].from # None =>
            /\ sent[db[k]].readings[j].from = sent[db[k]].readings[j].label
            /\ sent[db[k]].readings[j].asked = sent[db[k]].round
    BY <2>1 DEF AnswersSent
  <2> QED
    BY <2>2, <2>3
<1>2. TSpec => Spec /\ Srv!Spec
  BY IsACoordinator, BridgeConforms, SameServer, PTL DEF IsABridge
<1> QED
  BY <1>1, <1>2, StageReached, SentReached, AnswersBelong, ServerStoresInOrder, PTL
=============================================================================
