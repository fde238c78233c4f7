----------------------------- MODULE CenterProof -----------------------------
(* Proofs about Center, for any channels, configurations, connections,       *)
(* commands, windows and socket buffers.                                     *)
EXTENDS Center, SequenceTheorems, TLAPS

-----------------------------------------------------------------------------
(* The inductive invariant, part by part.                                   *)

\* The manager is on a connection that was made; connections before it, and
\* those not made yet, carry nothing; a client that has closed reads nothing.
Links(c) ==
  /\ se[c] <= ce[c] /\ ce[c] <= MaxConn[c]
  /\ mpc[c] # "accept" => se[c] > 0
  /\ open[c] => ce[c] > 0 /\ (mpc[c] = "accept" => se[c] < ce[c])
  /\ ~ open[c] => s2c[c] = <<>> /\ due[c] = <<>>
  /\ \A e \in 1 .. MaxConn[c] :
       e > ce[c] \/ e < se[c] \/ (e = se[c] /\ mpc[c] = "accept") => c2s[c][e] = <<>>
  /\ mpc[c] = "push" <=> in[c] # None

\* What is worked on is there, and is at the back of its list.
Holds(c) ==
  /\ mpc[c] \in {"check", "send", "remove"} /\ out[c] # None =>
       Len(tx[c]) > 0 /\ tx[c][Len(tx[c])] = out[c]
  /\ mpc[c] \in {"send", "remove"} => out[c] # None

MainHolds ==
  /\ cpc # "back" /\ hand # None =>
       Len(rx[turn]) > 0 /\ rx[turn][Len(rx[turn])] = hand
  /\ cpc \in {"fopen", "fclose", "remove"} => hand # None

\* A command to modify brings a configuration, and a command was sent when at
\* most as many configurations had been applied as now.
Command(p) == (p.dac = "MDFY" => p.cfg # None) /\ p.asOf <= Len(applied)

Asked(c) ==
  /\ \A k \in 1 .. Len(rx[c]) : Command(rx[c][k])
  /\ in[c] # None => Command(in[c])
  /\ \A e \in 1 .. MaxConn[c] : \A k \in 1 .. Len(c2s[c][e]) : Command(c2s[c][e][k])

Current == Len(applied) > 0 /\ applied[Len(applied)] = cfg

Sound == /\ TypeOK /\ MainHolds /\ Current
         /\ \A c \in Channels : Links(c) /\ Holds(c) /\ Asked(c)

-----------------------------------------------------------------------------
(* Sequences.                                                               *)

\* Something in front of a list.
LEMMA InFront ==
  ASSUME NEW S, NEW e \in S, NEW s \in Seq(S)
  PROVE  /\ PushFront(s, e) \in Seq(S)
         /\ Len(PushFront(s, e)) = Len(s) + 1
         /\ PushFront(s, e)[1] = e
         /\ \A k \in 1 .. Len(s) : PushFront(s, e)[k + 1] = s[k]
<1> DEFINE t == <<e>>
<1>1. t \in Seq(S) /\ Len(t) = 1 /\ t[1] = e
  OBVIOUS
<1> HIDE DEF t
<1>2. /\ t \o s \in Seq(S)
      /\ Len(t \o s) = Len(t) + Len(s)
      /\ \A k \in 1 .. Len(t) + Len(s) : (t \o s)[k] = IF k <= Len(t) THEN t[k] ELSE s[k - Len(t)]
  BY <1>1, ConcatProperties
<1>3. Len(s) \in Nat
  OBVIOUS
<1> QED
  BY <1>1, <1>2, <1>3 DEF t, PushFront

\* Something behind a sequence.
LEMMA Behind ==
  ASSUME NEW S, NEW e \in S, NEW s \in Seq(S)
  PROVE  /\ Append(s, e) \in Seq(S)
         /\ Len(Append(s, e)) = Len(s) + 1
         /\ Append(s, e)[Len(s) + 1] = e
         /\ \A k \in 1 .. Len(s) : Append(s, e)[k] = s[k]
  OBVIOUS

\* A sequence without its first element.
LEMMA Rest ==
  ASSUME NEW S, NEW s \in Seq(S), s # <<>>
  PROVE  /\ Tail(s) \in Seq(S)
         /\ Len(s) \in Nat \ {0}
         /\ Len(Tail(s)) = Len(s) - 1
         /\ \A k \in 1 .. Len(s) - 1 : Tail(s)[k] = s[k + 1]
         /\ Head(s) = s[1] /\ Head(s) \in S
  OBVIOUS

\* A sequence without its last element.
LEMMA Fronts ==
  ASSUME NEW S, NEW s \in Seq(S), Len(s) > 0
  PROVE  /\ Front(s) \in Seq(S)
         /\ Len(Front(s)) = Len(s) - 1
         /\ \A k \in 1 .. Len(s) - 1 : Front(s)[k] = s[k]
<1>1. Len(s) \in Nat /\ \A k \in 1 .. Len(s) : s[k] \in S
  OBVIOUS
<1>2. \A k \in 1 .. Len(s) - 1 : s[k] \in S
  BY <1>1
<1>3. Front(s) = SubSeq(s, 1, Len(s) - 1)
  BY DEF Front
<1>4. SubSeq(s, 1, Len(s) - 1) = [k \in 1 .. Len(s) - 1 |-> s[k]]
  BY <1>1
<1> DEFINE f == [k \in 1 .. Len(s) - 1 |-> s[k]]
<1>5. f \in [1 .. Len(s) - 1 -> S] /\ \A k \in 1 .. Len(s) - 1 : f[k] = s[k]
  BY <1>2
<1>6. Len(s) - 1 \in Nat
  BY <1>1
<1>7. f = Front(s)
  BY <1>3, <1>4
<1> HIDE DEF f
<1>8. f \in Seq(S) /\ Len(f) = Len(s) - 1
  BY <1>5, <1>6
<1> QED
  BY <1>5, <1>7, <1>8

LEMMA WithoutBack ==
  ASSUME NEW S, NEW s \in Seq(S)
  PROVE  /\ RemoveBack(s) \in Seq(S)
         /\ Len(s) > 0 => /\ Len(RemoveBack(s)) = Len(s) - 1
                          /\ \A k \in 1 .. Len(s) - 1 : RemoveBack(s)[k] = s[k]
<1>1. CASE s = <<>>
  BY <1>1 DEF RemoveBack
<1>2. CASE s # <<>>
  <2>1. Len(s) > 0
    BY <1>2
  <2> QED
    BY <1>2, <2>1, Fronts DEF RemoveBack
<1> QED
  BY <1>1, <1>2

\* The packet at the back of a list.
LEMMA BackIs ==
  ASSUME NEW S, NEW s \in Seq(S)
  PROVE  /\ Back(s) \in S \union {None}
         /\ s # <<>> => Len(s) > 0 /\ Back(s) = s[Len(s)] /\ s[Len(s)] \in S
         /\ s = <<>> => Back(s) = None
         /\ Back(s) # None => Len(s) > 0 /\ s[Len(s)] = Back(s)
  BY DEF Back, Last

\* The reverse of a sequence, element by element.
LEMMA Reversed ==
  ASSUME NEW S, NEW s \in Seq(S)
  PROVE  /\ Reverse(s) \in Seq(S)
         /\ Len(Reverse(s)) = Len(s)
         /\ \A k \in 1 .. Len(s) : Reverse(s)[k] = s[(Len(s) - k) + 1]
<1> DEFINE n == Len(s)
           e(k) == s[(n - k) + 1]
           f == [k \in 1 .. n |-> e(k)]
<1>1. n \in Nat /\ \A k \in 1 .. n : s[k] \in S
  OBVIOUS
<1>2. Reverse(s) = f
  BY DEF Reverse
<1> HIDE DEF n
<1>3. \A k \in 1 .. n : e(k) \in S
  BY <1>1
<1> HIDE DEF e
<1>4. f \in [1 .. n -> S] /\ \A k \in 1 .. n : f[k] = e(k)
  BY <1>3
<1> HIDE DEF f
<1>5. f \in Seq(S) /\ Len(f) = n
  BY <1>1, <1>4
<1> QED
  BY <1>2, <1>4, <1>5 DEF n, e

\* One sequence after another.
LEMMA After ==
  ASSUME NEW S, NEW s \in Seq(S), NEW t \in Seq(S)
  PROVE  /\ s \o t \in Seq(S)
         /\ Len(s \o t) = Len(s) + Len(t)
         /\ \A k \in 1 .. Len(s) : (s \o t)[k] = s[k]
         /\ \A k \in 1 .. Len(t) : (s \o t)[k + Len(s)] = t[k]
<1>1. Len(s) \in Nat /\ Len(t) \in Nat
  OBVIOUS
<1>2. /\ s \o t \in Seq(S)
      /\ Len(s \o t) = Len(s) + Len(t)
      /\ \A k \in 1 .. Len(s) + Len(t) : (s \o t)[k] = IF k <= Len(s) THEN s[k] ELSE t[k - Len(s)]
  BY ConcatProperties
<1> QED
  BY <1>1, <1>2

\* What a packet holds.
LEMMA PacketIs ==
  ASSUME NEW p \in Packets
  PROVE  /\ p # None
         /\ p.n \in Nat /\ p.asOf \in Nat /\ p.ver \in Nat
         /\ p.dac \in {"REQ", "MDFY", "DBG", "RES"}
         /\ p.cfg \in Cfg \union {None}
  BY NullIsNoPacket DEF Packets

LEMMA APacket ==
  ASSUME NEW n \in Nat, NEW d \in {"REQ", "MDFY", "DBG", "RES"}, NEW v \in Cfg \union {None},
         NEW a \in Nat, NEW b \in Nat
  PROVE  /\ Packet(n, d, v, a, b) \in Packets
         /\ Packet(n, d, v, a, b).n = n /\ Packet(n, d, v, a, b).dac = d
         /\ Packet(n, d, v, a, b).cfg = v /\ Packet(n, d, v, a, b).asOf = a
         /\ Packet(n, d, v, a, b).ver = b
  BY DEF Packet, Packets

-----------------------------------------------------------------------------
(* The domains of the variables.                                            *)

\* What main holds at a command is a command of its channel.
LEMMA InTheHand ==
  ASSUME Sound, cpc # "back", hand # None
  PROVE  /\ hand \in Packets /\ Command(hand)
         /\ Len(rx[turn]) \in Nat \ {0} /\ rx[turn][Len(rx[turn])] = hand
         /\ turn \in Channels
<1>1. Len(rx[turn]) \in Nat /\ turn \in Channels /\ hand \in Packets
  BY DEF Sound, TypeOK
<1>2. Len(rx[turn]) > 0 /\ rx[turn][Len(rx[turn])] = hand
  BY DEF Sound, MainHolds
<1> QED
  BY <1>1, <1>2 DEF Sound, Asked

LEMMA TypeStep ==
  ASSUME Sound, [Next]_vars
  PROVE  TypeOK'
<1> TypeOK
  BY DEF Sound
<1>1. ASSUME NEW c \in Channels, Connect(c)
      PROVE  TypeOK'
  <2>1. ce' \in [Channels -> Nat] /\ open' \in [Channels -> BOOLEAN]
    BY <1>1, SMTT(30) DEF Connect, TypeOK
  <2> QED
    BY <1>1, <2>1 DEF Connect, TypeOK, server, wire
<1>2. ASSUME NEW c \in Channels, Send(c)
      PROVE  TypeOK'
  <2> DEFINE q == c2s[c][ce[c]]
  <2>1. q \in Seq(Packets) /\ ce[c] \in 1 .. MaxConn[c]
    <3>1. ce[c] \in Nat /\ MaxConn[c] \in Nat /\ ce[c] > 0 /\ ce[c] <= MaxConn[c]
      BY <1>2, Bounds DEF Sound, TypeOK, Links, Send, Connected
    <3>2. ce[c] \in 1 .. MaxConn[c] /\ c2s[c] \in [1 .. MaxConn[c] -> Seq(Packets)]
      BY <3>1, SMTT(30) DEF TypeOK
    <3> QED
      BY <3>2
  <2>2. Len(applied) \in Nat /\ sent[c] + 1 \in Nat
    BY SMTT(30) DEF TypeOK
  <2>3. PICK k \in Kinds[c], v \in Cfg \union {None} :
          /\ c2s' = [c2s EXCEPT ![c][ce[c]] = Append(@, Packet(sent[c] + 1, k, v, Len(applied), 0))]
          /\ due' = [due EXCEPT ![c] = IF k \in Answerable THEN Append(@, sent[c] + 1) ELSE @]
    BY <1>2 DEF Send
  <2>4. k \in {"REQ", "MDFY", "DBG", "RES"}
    BY CommandsSent
  <2> DEFINE p == Packet(sent[c] + 1, k, v, Len(applied), 0)
  <2>5. p \in Packets
    BY <2>2, <2>4, APacket
  <2> HIDE DEF p
  <2>6. Append(q, p) \in Seq(Packets)
    BY <2>1, <2>5
  <2>7. c2s' = [c2s EXCEPT ![c] = [c2s[c] EXCEPT ![ce[c]] = Append(q, p)]]
    BY <2>3 DEF p
  <2> HIDE DEF q
  <2>8. DOMAIN c2s' = Channels /\ \A d \in Channels : c2s'[d] \in [1 .. MaxConn[d] -> Seq(Packets)]
    BY <2>1, <2>6, <2>7 DEF TypeOK
  <2>9. due' \in [Channels -> Seq(Nat)] /\ sent' \in [Channels -> Nat]
    BY <1>2, <2>2, <2>3, SMTT(30) DEF Send, TypeOK
  <2> QED
    BY <1>2, <2>8, <2>9 DEF Send, TypeOK, server, main, manager
<1>3. ASSUME NEW c \in Channels, Receive(c)
      PROVE  TypeOK'
  <2>1. Tail(due[c]) \in Seq(Nat) /\ Tail(s2c[c]) \in Seq(Packets)
    BY <1>3 DEF Receive, TypeOK
  <2> QED
    BY <1>3, <2>1 DEF Receive, TypeOK, server, main, manager
<1>4. ASSUME NEW c \in Channels, Close(c)
      PROVE  TypeOK'
  <2>1. /\ open' \in [Channels -> BOOLEAN] /\ due' \in [Channels -> Seq(Nat)]
        /\ s2c' \in [Channels -> Seq(Packets)]
    BY <1>4, SMTT(30) DEF Close, TypeOK
  <2>2. (reset[c] \/ s2c[c] # <<>>) \in BOOLEAN
    BY DEF TypeOK
  <2>3. reset' \in [Channels -> BOOLEAN]
    BY <1>4, <2>2, Zenon DEF Close, TypeOK
  <2> QED
    BY <1>4, <2>1, <2>3 DEF Close, TypeOK, server
<1>5. ASSUME NEW c \in Channels, Accept(c)
      PROVE  TypeOK'
  <2>1. se' \in [Channels -> Nat]
    BY <1>5, SMTT(30) DEF Accept, TypeOK
  <2> QED
    BY <1>5, <2>1 DEF Accept, Goto, TypeOK, main, client, wire
<1>6. ASSUME NEW c \in Channels, RecvData(c)
      PROVE  TypeOK'
  <2> DEFINE q == c2s[c][se[c]]
  <2>1. se[c] \in 1 .. MaxConn[c]
    <3>1. /\ se[c] \in Nat /\ ce[c] \in Nat /\ MaxConn[c] \in Nat
          /\ se[c] > 0 /\ se[c] <= ce[c] /\ ce[c] <= MaxConn[c]
      BY <1>6, Bounds DEF Sound, TypeOK, Links, RecvData, At
    <3> QED
      BY <3>1
  <2>2. q \in Seq(Packets) /\ q # <<>>
    BY <1>6, <2>1 DEF TypeOK, RecvData
  <2>3. Head(q) \in Packets
    BY <2>2
  <2>4. c2s' = [c2s EXCEPT ![c] = [c2s[c] EXCEPT ![se[c]] = <<>>]] /\ in' = [in EXCEPT ![c] = Head(q)]
    BY <1>6 DEF RecvData
  <2> HIDE DEF q
  <2>5. DOMAIN c2s' = Channels /\ \A d \in Channels : c2s'[d] \in [1 .. MaxConn[d] -> Seq(Packets)]
    <3> DEFINE E == <<>>
    <3>1. E \in Seq(Packets)
      OBVIOUS
    <3> HIDE DEF E
    <3>2. c2s' = [c2s EXCEPT ![c] = [c2s[c] EXCEPT ![se[c]] = E]]
      BY <2>4 DEF E
    <3> QED
      BY <2>1, <3>1, <3>2 DEF TypeOK
  <2>6. in' \in [Channels -> Packets \union {None}]
    BY <2>3, <2>4 DEF TypeOK
  <2> QED
    BY <1>6, <2>5, <2>6 DEF RecvData, Goto, TypeOK, main, client
<1>7. ASSUME NEW c \in Channels, RecvNothing(c)
      PROVE  TypeOK'
  BY <1>7 DEF RecvNothing, Goto, TypeOK, main, client
<1>8. ASSUME NEW c \in Channels, RecvClosed(c) \/ Check(c) \/ SendFull(c)
      PROVE  TypeOK'
  BY <1>8, ZenonT(60) DEF RecvClosed, Check, SendFull, Goto, TypeOK, main, client, wire
<1>9. ASSUME NEW c \in Channels, Push(c)
      PROVE  TypeOK'
  <2>1. in[c] \in Packets
    BY <1>9 DEF Sound, TypeOK, Links, Push, At
  <2>2. PushFront(rx[c], in[c]) \in Seq(Packets)
    BY <2>1, InFront DEF TypeOK
  <2> QED
    BY <1>9, <2>2 DEF Push, Goto, TypeOK, main, client, wire
<1>10. ASSUME NEW c \in Channels, Peek(c)
       PROVE  TypeOK'
  <2>1. Back(tx[c]) \in Packets \union {None}
    BY BackIs DEF TypeOK
  <2> QED
    BY <1>10, <2>1 DEF Peek, Goto, TypeOK, main, client, wire
<1>11. ASSUME NEW c \in Channels, SendOut(c)
       PROVE  TypeOK'
  <2>1. out[c] \in Packets
    BY <1>11 DEF Sound, TypeOK, Holds, SendOut, At
  <2>2. Append(s2c[c], out[c]) \in Seq(Packets)
    BY <2>1 DEF TypeOK
  <2> QED
    BY <1>11, <2>2 DEF SendOut, Goto, TypeOK, main, client
<1>12. ASSUME NEW c \in Channels, RemoveSent(c)
       PROVE  TypeOK'
  <2>1. RemoveBack(tx[c]) \in Seq(Packets)
    BY WithoutBack DEF TypeOK
  <2> QED
    BY <1>12, <2>1 DEF RemoveSent, Goto, TypeOK, main, client, wire
<1>13. ASSUME NEW c \in Channels, SendBroken(c)
       PROVE  TypeOK'
  BY <1>13 DEF SendBroken, TypeOK, server, main, manager, client, wire
<1>14. ASSUME MainBack
       PROVE  TypeOK'
  <2>1. Back(rx[turn]) \in Packets \union {None}
    BY BackIs DEF TypeOK
  <2> QED
    BY <1>14, <2>1 DEF MainBack, TypeOK, manager, client, wire
<1>15. ASSUME MainSkip
       PROVE  TypeOK'
  BY <1>15, RoundRobin DEF MainSkip, NextTurn, TypeOK, manager, client, wire
<1>16. ASSUME HandleReq \/ HandleDbg
       PROVE  TypeOK'
  <2>1. hand \in Packets /\ hand.n \in Nat /\ hand.asOf \in Nat
    BY <1>16, InTheHand, PacketIs DEF HandleReq, HandleDbg, Handling, AtMain
  <2>2. Len(applied) \in Nat /\ cfg \in Cfg
    BY DEF TypeOK
  <2>3. PICK d \in {"RES", "DBG"}, v \in Cfg \union {None} :
          tx' = [tx EXCEPT ![turn] = PushFront(@, Packet(hand.n, d, v, hand.asOf, Len(applied)))]
    BY <1>16, <2>2 DEF HandleReq, HandleDbg
  <2> DEFINE p == Packet(hand.n, d, v, hand.asOf, Len(applied))
  <2>4. p \in Packets
    BY <2>1, <2>2, APacket, ZenonT(60)
  <2> HIDE DEF p
  <2>5. PushFront(tx[turn], p) \in Seq(Packets)
    BY <2>4, InFront DEF TypeOK
  <2>6. tx' \in [Channels -> Seq(Packets)]
    BY <2>3, <2>5 DEF TypeOK, p
  <2> QED
    BY <1>16, <2>1, <2>6 DEF HandleReq, HandleDbg, Done, TypeOK, manager, client, wire
<1>17. ASSUME HandleMdfy
       PROVE  TypeOK'
  <2>1. hand \in Packets /\ Command(hand) /\ hand.n \in Nat
    BY <1>17, InTheHand, PacketIs DEF HandleMdfy, Handling, AtMain
  <2>2. hand.cfg \in Cfg
    BY <1>17, <2>1, PacketIs DEF HandleMdfy, Handling, Command
  <2> QED
    BY <1>17, <2>1, <2>2, SMTT(30) DEF HandleMdfy, Done, TypeOK, manager, client, wire
<1>18. ASSUME MdfyOpen \/ MdfyWrite
       PROVE  TypeOK'
  BY <1>18, ConfigurationsDiffer DEF MdfyOpen, MdfyWrite, TypeOK, manager, client, wire
<1>19. ASSUME RemoveHandled
       PROVE  TypeOK'
  <2>1. RemoveBack(rx[turn]) \in Seq(Packets)
    BY WithoutBack DEF TypeOK
  <2> QED
    BY <1>19, <2>1, RoundRobin DEF RemoveHandled, NextTurn, TypeOK, manager, client, wire
<1>20. ASSUME Restart
       PROVE  TypeOK'
  <2>1. DOMAIN c2s' = Channels /\ \A d \in Channels : c2s'[d] \in [1 .. MaxConn[d] -> Seq(Packets)]
    BY <1>20 DEF Restart, NoBytes
  <2>2. /\ rx' \in [Channels -> Seq(Packets)] /\ tx' \in [Channels -> Seq(Packets)]
        /\ in' \in [Channels -> Packets \union {None}] /\ out' \in [Channels -> Packets \union {None}]
    BY <1>20 DEF Restart, Each
  <2>3. /\ mpc' \in [Channels -> {"accept", "recv", "push", "peek", "check", "send", "remove"}]
        /\ status' \in [Channels -> {"WAITING", "ESTABLISHED", "LOST"}]
        /\ reset' \in [Channels -> BOOLEAN]
    BY <1>20 DEF Restart, Each
  <2>4. applied' \in Seq(Cfg) /\ cfg' \in Cfg /\ turn' \in Channels
    BY <1>20, RoundRobin, ConfigurationsDiffer DEF Restart
  <2> QED
    BY <1>20, <2>1, <2>2, <2>3, <2>4 DEF Restart, TypeOK, client
<1>21. ASSUME UNCHANGED vars
       PROVE  TypeOK'
  BY <1>21 DEF vars, server, main, manager, client, wire, TypeOK
<1> QED
  BY <1>1, <1>2, <1>3, <1>4, <1>5, <1>6, <1>7, <1>8, <1>9, <1>10, <1>11, <1>12, <1>13, <1>14,
     <1>15, <1>16, <1>17, <1>18, <1>19, <1>20, <1>21 DEF Next, Client, Manager, Main

-----------------------------------------------------------------------------
(* The connections.                                                         *)

\* What the types say of a channel.
LEMMA ChannelIs ==
  ASSUME TypeOK, NEW c \in Channels
  PROVE  /\ rx[c] \in Seq(Packets) /\ tx[c] \in Seq(Packets) /\ s2c[c] \in Seq(Packets)
         /\ Len(rx[c]) \in Nat /\ Len(tx[c]) \in Nat /\ Len(s2c[c]) \in Nat
         /\ se[c] \in Nat /\ ce[c] \in Nat /\ sent[c] \in Nat /\ handled[c] \in Nat
         /\ due[c] \in Seq(Nat) /\ Len(due[c]) \in Nat
         /\ MaxConn[c] \in Nat
         /\ c2s[c] \in [1 .. MaxConn[c] -> Seq(Packets)]
         /\ \A e \in 1 .. MaxConn[c] : c2s[c][e] \in Seq(Packets) /\ Len(c2s[c][e]) \in Nat
<1>1. /\ rx[c] \in Seq(Packets) /\ tx[c] \in Seq(Packets) /\ s2c[c] \in Seq(Packets)
      /\ se[c] \in Nat /\ ce[c] \in Nat /\ sent[c] \in Nat /\ handled[c] \in Nat
      /\ due[c] \in Seq(Nat) /\ MaxConn[c] \in Nat
      /\ c2s[c] \in [1 .. MaxConn[c] -> Seq(Packets)]
  BY Bounds DEF TypeOK
<1>2. \A e \in 1 .. MaxConn[c] : c2s[c][e] \in Seq(Packets)
  BY <1>1
<1> QED
  BY <1>1, <1>2, SMTT(30)

\* The connection a client has, and the one a manager that is past accept has.
LEMMA Connections ==
  ASSUME Sound, NEW c \in Channels
  PROVE  /\ se[c] <= ce[c] /\ ce[c] <= MaxConn[c]
         /\ open[c] => ce[c] \in 1 .. MaxConn[c]
         /\ mpc[c] # "accept" => se[c] \in 1 .. MaxConn[c]
<1>1. se[c] \in Nat /\ ce[c] \in Nat /\ MaxConn[c] \in Nat
  BY ChannelIs DEF Sound
<1> QED
  BY <1>1 DEF Sound, Links

\* What the steps on the bytes under way do.
LEMMA SendEffect ==
  ASSUME Sound, NEW c \in Channels, Send(c)
  PROVE  /\ open[c] /\ ce[c] \in 1 .. MaxConn[c]
         /\ \A e \in 1 .. MaxConn[c] : e # ce[c] => c2s'[c][e] = c2s[c][e]
         /\ \A d \in Channels : d # c => c2s'[d] = c2s[d] /\ due'[d] = due[d] /\ sent'[d] = sent[d]
         /\ sent'[c] = sent[c] + 1
         /\ \E p \in Packets :
              /\ p.n = sent[c] + 1 /\ Command(p) /\ p.dac \in {"REQ", "MDFY", "DBG"}
              /\ c2s'[c][ce[c]] = Append(c2s[c][ce[c]], p)
              /\ due'[c] = IF p.dac \in Answerable THEN Append(due[c], sent[c] + 1) ELSE due[c]
         /\ UNCHANGED <<alive, server, disk, ce, open, s2c, reset>>
<1>1. open[c] /\ ce[c] \in 1 .. MaxConn[c]
  BY Connections DEF Send, Connected
<1>2. Len(applied) \in Nat /\ sent[c] + 1 \in Nat /\ due \in [Channels -> Seq(Nat)]
  BY SMTT(30) DEF Sound, TypeOK
<1>3. PICK k \in Kinds[c], v \in Cfg \union {None} :
        /\ k = "MDFY" <=> v # None
        /\ c2s' = [c2s EXCEPT ![c][ce[c]] = Append(@, Packet(sent[c] + 1, k, v, Len(applied), 0))]
        /\ due' = [due EXCEPT ![c] = IF k \in Answerable THEN Append(@, sent[c] + 1) ELSE @]
  BY DEF Send
<1>4. k \in {"REQ", "MDFY", "DBG"} /\ k \in {"REQ", "MDFY", "DBG", "RES"} /\ 0 \in Nat
  BY CommandsSent
<1> DEFINE p == Packet(sent[c] + 1, k, v, Len(applied), 0)
<1>5. p \in Packets /\ p.n = sent[c] + 1 /\ p.dac = k /\ p.cfg = v /\ p.asOf = Len(applied)
  <2>1. p \in Packets
    BY <1>2, <1>4, APacket
  <2> QED
    BY <2>1 DEF Packet
<1> HIDE DEF p
<1>6. Command(p)
  BY <1>2, <1>3, <1>5 DEF Command
<1>7. c2s' = [c2s EXCEPT ![c] = [c2s[c] EXCEPT ![ce[c]] = Append(c2s[c][ce[c]], p)]]
  BY <1>3 DEF p
<1>8. DOMAIN c2s = Channels /\ DOMAIN c2s[c] = 1 .. MaxConn[c]
  BY DEF Sound, TypeOK
<1>9. /\ \A e \in 1 .. MaxConn[c] : e # ce[c] => c2s'[c][e] = c2s[c][e]
      /\ c2s'[c][ce[c]] = Append(c2s[c][ce[c]], p)
      /\ \A d \in Channels : d # c => c2s'[d] = c2s[d]
  BY <1>1, <1>7, <1>8
<1>10. /\ due'[c] = IF p.dac \in Answerable THEN Append(due[c], sent[c] + 1) ELSE due[c]
       /\ \A d \in Channels : d # c => due'[d] = due[d]
  BY <1>2, <1>3, <1>5
<1>11. sent'[c] = sent[c] + 1 /\ \A d \in Channels : d # c => sent'[d] = sent[d]
  BY DEF Send, Sound, TypeOK
<1> QED
  BY <1>1, <1>4, <1>5, <1>6, <1>9, <1>10, <1>11 DEF Send

LEMMA RecvEffect ==
  ASSUME Sound, NEW c \in Channels, RecvData(c)
  PROVE  /\ se[c] \in 1 .. MaxConn[c]
         /\ c2s[c][se[c]] \in Seq(Packets) /\ Len(c2s[c][se[c]]) > 0
         /\ in'[c] = c2s[c][se[c]][1] /\ in'[c] \in Packets /\ in[c] = None
         /\ c2s'[c][se[c]] = <<>>
         /\ \A e \in 1 .. MaxConn[c] : e # se[c] => c2s'[c][e] = c2s[c][e]
         /\ \A d \in Channels : d # c => c2s'[d] = c2s[d] /\ in'[d] = in[d] /\ mpc'[d] = mpc[d]
         /\ mpc[c] = "recv" /\ mpc'[c] = "push"
         /\ UNCHANGED <<alive, rx, tx, out, se, status, main, client, s2c, reset>>
<1>1. /\ mpc[c] = "recv" /\ mpc'[c] = "push"
      /\ \A d \in Channels : d # c => mpc'[d] = mpc[d]
  BY DEF RecvData, At, Goto, Sound, TypeOK
<1>2. se[c] \in 1 .. MaxConn[c]
  BY <1>1, Connections
<1> DEFINE q == c2s[c][se[c]]
<1>3. q \in Seq(Packets) /\ q # <<>>
  BY <1>2, ChannelIs DEF Sound, RecvData
<1>4. in' = [in EXCEPT ![c] = Head(q)] /\ in \in [Channels -> Packets \union {None}]
  BY DEF RecvData, Sound, TypeOK
<1>5. c2s' = [c2s EXCEPT ![c] = [c2s[c] EXCEPT ![se[c]] = <<>>]]
  BY DEF RecvData
<1>6. Head(q) = q[1] /\ Head(q) \in Packets /\ Len(q) > 0
  BY <1>3, Rest
<1> HIDE DEF q
<1>7. in'[c] = q[1] /\ in'[c] \in Packets /\ \A d \in Channels : d # c => in'[d] = in[d]
  BY <1>4, <1>6
<1>8. DOMAIN c2s = Channels /\ DOMAIN c2s[c] = 1 .. MaxConn[c]
  BY DEF Sound, TypeOK
<1>9. /\ \A e \in 1 .. MaxConn[c] : e # se[c] => c2s'[c][e] = c2s[c][e]
      /\ c2s'[c][se[c]] = <<>>
      /\ \A d \in Channels : d # c => c2s'[d] = c2s[d]
  BY <1>2, <1>5, <1>8
<1>10. in[c] = None
  BY <1>1 DEF Sound, Links
<1> QED
  BY <1>1, <1>2, <1>3, <1>6, <1>7, <1>9, <1>10 DEF RecvData, q

LEMMA ReceiveEffect ==
  ASSUME TypeOK, NEW c \in Channels, Receive(c)
  PROVE  /\ open[c] /\ due[c] # <<>> /\ s2c[c] # <<>>
         /\ due'[c] = Tail(due[c]) /\ s2c'[c] = Tail(s2c[c])
         /\ \A d \in Channels : d # c => due'[d] = due[d] /\ s2c'[d] = s2c[d]
         /\ UNCHANGED <<alive, server, disk, ce, open, sent, c2s, reset>>
<1>1. DOMAIN due = Channels /\ DOMAIN s2c = Channels
  BY DEF TypeOK
<1> QED
  BY <1>1 DEF Receive

LEMMA CloseEffect ==
  ASSUME TypeOK, NEW c \in Channels, Close(c)
  PROVE  /\ due'[c] = <<>> /\ s2c'[c] = <<>> /\ open[c] /\ open'[c] = FALSE
         /\ \A d \in Channels : d # c => due'[d] = due[d] /\ s2c'[d] = s2c[d] /\ open'[d] = open[d]
         /\ UNCHANGED <<alive, server, disk, ce, sent, c2s>>
<1>1. DOMAIN due = Channels /\ DOMAIN s2c = Channels /\ DOMAIN open = Channels
  BY DEF TypeOK
<1> QED
  BY <1>1 DEF Close

LEMMA LinksStep ==
  ASSUME Sound, [Next]_vars, NEW d \in Channels
  PROVE  Links(d)'
<1>1. TypeOK /\ TypeOK' /\ Links(d)
  BY TypeStep DEF Sound
<1>2. CASE UNCHANGED <<se, ce, mpc, open, s2c, due, c2s, in>>
  BY <1>1, <1>2 DEF Links
<1>3. ASSUME NEW c \in Channels, Connect(c)
      PROVE  Links(d)'
  <2>1. UNCHANGED <<se, mpc, s2c, due, c2s, in>>
    BY <1>3 DEF Connect, server, wire
  <2>2. /\ ~ open[c] /\ ce[c] < MaxConn[c]
        /\ ce' = [ce EXCEPT ![c] = @ + 1] /\ open' = [open EXCEPT ![c] = TRUE]
    BY <1>3 DEF Connect
  <2>3. CASE d = c
    <3>1. ce'[d] = ce[d] + 1 /\ open'[d] /\ ce[d] < MaxConn[d] /\ ~ open[d]
      BY <2>2, <2>3, <1>1 DEF TypeOK
    <3>2. ce[d] \in Nat /\ se[d] \in Nat /\ MaxConn[d] \in Nat
      BY <1>1, ChannelIs
    <3> QED
      BY <1>1, <2>1, <3>1, <3>2 DEF Links
  <2>4. CASE d # c
    <3>1. ce'[d] = ce[d] /\ open'[d] = open[d]
      BY <2>2, <2>4, <1>1 DEF TypeOK
    <3> QED
      BY <1>1, <2>1, <3>1 DEF Links
  <2> QED
    BY <2>3, <2>4
<1>4. ASSUME NEW c \in Channels, Send(c)
      PROVE  Links(d)'
  <2>1. UNCHANGED <<se, mpc, s2c, ce, open, in>>
    BY <1>4, SendEffect DEF server
  <2>2. /\ open[c] /\ ce[c] \in 1 .. MaxConn[c]
        /\ \A e \in 1 .. MaxConn[c] : e # ce[c] => c2s'[c][e] = c2s[c][e]
        /\ \A x \in Channels : x # c => c2s'[x] = c2s[x] /\ due'[x] = due[x]
    BY <1>4, SendEffect
  <2>3. CASE d = c
    <3>1. open[d] /\ ce[d] \in 1 .. MaxConn[d]
          /\ \A e \in 1 .. MaxConn[d] : e # ce[d] => c2s'[d][e] = c2s[d][e]
      BY <2>2, <2>3
    <3>2. ce[d] \in Nat /\ se[d] \in Nat /\ MaxConn[d] \in Nat
      BY <1>1, ChannelIs
    <3> QED
      BY <1>1, <2>1, <3>1, <3>2 DEF Links
  <2>4. CASE d # c
    <3>1. c2s'[d] = c2s[d] /\ due'[d] = due[d]
      BY <2>2, <2>4
    <3> QED
      BY <1>1, <2>1, <3>1 DEF Links
  <2> QED
    BY <2>3, <2>4
<1>5. ASSUME NEW c \in Channels, Receive(c)
      PROVE  Links(d)'
  <2>1. UNCHANGED <<se, ce, mpc, c2s, in, open>> /\ open[c]
    BY <1>1, <1>5, ReceiveEffect DEF server
  <2>2. d # c => s2c'[d] = s2c[d] /\ due'[d] = due[d]
    BY <1>1, <1>5, ReceiveEffect
  <2> QED
    BY <1>1, <2>1, <2>2 DEF Links
<1>12. ASSUME NEW c \in Channels, Close(c)
       PROVE  Links(d)'
  <2>1. UNCHANGED <<se, ce, mpc, c2s, in>>
    BY <1>1, <1>12, CloseEffect DEF server
  <2>2. d # c => s2c'[d] = s2c[d] /\ due'[d] = due[d] /\ open'[d] = open[d]
    BY <1>1, <1>12, CloseEffect
  <2>3. s2c'[c] = <<>> /\ due'[c] = <<>> /\ open'[c] = FALSE
    BY <1>1, <1>12, CloseEffect
  <2> QED
    BY <1>1, <2>1, <2>2, <2>3 DEF Links
<1>6. ASSUME NEW c \in Channels, Accept(c)
      PROVE  Links(d)'
  <2>1. UNCHANGED <<ce, open, s2c, due, c2s, in>>
    BY <1>6 DEF Accept, client, wire
  <2>2. CASE d = c
    <3>1. se[d] < ce[d] /\ se'[d] = se[d] + 1 /\ mpc'[d] = "recv" /\ mpc[d] = "accept"
      BY <1>1, <1>6, <2>2 DEF Accept, At, Goto, TypeOK
    <3>2. ce[d] \in Nat /\ se[d] \in Nat /\ MaxConn[d] \in Nat
      BY <1>1, ChannelIs
    <3> QED
      BY <1>1, <2>1, <3>1, <3>2 DEF Links
  <2>3. CASE d # c
    <3>1. se'[d] = se[d] /\ mpc'[d] = mpc[d]
      BY <1>1, <1>6, <2>3 DEF Accept, Goto, TypeOK
    <3> QED
      BY <1>1, <2>1, <3>1 DEF Links
  <2> QED
    BY <2>2, <2>3
<1>7. ASSUME NEW c \in Channels, RecvData(c)
      PROVE  Links(d)'
  <2>1. UNCHANGED <<se, ce, open, s2c, due>>
    BY <1>7 DEF RecvData, client
  <2>2. CASE d = c
    <3>1. /\ mpc[d] = "recv" /\ mpc'[d] = "push" /\ in'[d] \in Packets
          /\ \A e \in 1 .. MaxConn[d] : c2s'[d][e] = c2s[d][e] \/ c2s'[d][e] = <<>>
      BY <1>7, <2>2, RecvEffect
    <3> QED
      BY <1>1, <2>1, <3>1, NullIsNoPacket DEF Links
  <2>3. CASE d # c
    <3>1. c2s'[d] = c2s[d] /\ in'[d] = in[d] /\ mpc'[d] = mpc[d]
      BY <1>7, <2>3, RecvEffect
    <3> QED
      BY <1>1, <2>1, <3>1 DEF Links
  <2> QED
    BY <2>2, <2>3
<1>8. ASSUME NEW c \in Channels, RecvClosed(c)
      PROVE  Links(d)'
  <2>1. UNCHANGED <<se, ce, open, s2c, due, c2s, in>>
    BY <1>8 DEF RecvClosed, client, wire
  <2>2. CASE d = c
    <3>1. /\ mpc[d] = "recv" /\ mpc'[d] = "accept" /\ c2s[d][se[d]] = <<>>
          /\ se[d] < ce[d] \/ ~ open[d]
      BY <1>1, <1>8, <2>2 DEF RecvClosed, PeerClosed, At, Goto, TypeOK
    <3> QED
      BY <1>1, <2>1, <3>1 DEF Links
  <2>3. CASE d # c
    <3>1. mpc'[d] = mpc[d]
      BY <1>1, <1>8, <2>3 DEF RecvClosed, Goto, TypeOK
    <3> QED
      BY <1>1, <2>1, <3>1 DEF Links
  <2> QED
    BY <2>2, <2>3
<1>9. ASSUME NEW c \in Channels,
             RecvNothing(c) \/ Push(c) \/ Peek(c) \/ Check(c) \/ SendFull(c) \/ RemoveSent(c)
      PROVE  Links(d)'
  <2>1. UNCHANGED <<se, ce, open, s2c, due, c2s>>
    BY <1>9 DEF RecvNothing, Push, Peek, Check, SendFull, RemoveSent, client, wire
  <2>2. CASE Push(c)
    <3>1. d = c => mpc[d] = "push" /\ mpc'[d] = "peek" /\ in'[d] = None
      BY <1>1, <2>2 DEF Push, At, Goto, TypeOK
    <3>2. d # c => mpc'[d] = mpc[d] /\ in'[d] = in[d]
      BY <1>1, <2>2 DEF Push, Goto, TypeOK
    <3> QED
      BY <1>1, <2>1, <3>1, <3>2 DEF Links
  <2>3. CASE ~ Push(c)
    <3>1. in' = in
      BY <1>9, <2>3 DEF RecvNothing, Peek, Check, SendFull, RemoveSent
    <3>2. d = c => mpc[d] \notin {"accept", "push"} /\ mpc'[d] \notin {"accept", "push"}
      BY <1>1, <1>9, <2>3, ZenonT(60) DEF RecvNothing, Peek, Check, SendFull, RemoveSent, At, Goto, TypeOK
    <3>3. d # c => mpc'[d] = mpc[d]
      BY <1>1, <1>9, <2>3, ZenonT(60) DEF RecvNothing, Peek, Check, SendFull, RemoveSent, Goto, TypeOK
    <3> QED
      BY <1>1, <2>1, <3>1, <3>2, <3>3 DEF Links
  <2> QED
    BY <2>2, <2>3
<1>10. ASSUME NEW c \in Channels, SendOut(c)
       PROVE  Links(d)'
  <2>1. UNCHANGED <<se, ce, open, due, c2s, in>>
    BY <1>10 DEF SendOut, client
  <2>2. CASE d = c
    <3>1. mpc[d] = "send" /\ mpc'[d] = "remove" /\ open[d]
      BY <1>1, <1>10, <2>2 DEF SendOut, PeerClosed, At, Goto, TypeOK
    <3> QED
      BY <1>1, <2>1, <3>1 DEF Links
  <2>3. CASE d # c
    <3>1. mpc'[d] = mpc[d] /\ s2c'[d] = s2c[d]
      BY <1>1, <1>10, <2>3 DEF SendOut, Goto, TypeOK
    <3> QED
      BY <1>1, <2>1, <3>1 DEF Links
  <2> QED
    BY <2>2, <2>3
<1>11. ASSUME Restart
       PROVE  Links(d)'
  <2>1. /\ se'[d] = ce[d] /\ mpc'[d] = "accept" /\ in'[d] = None /\ ~ open'[d]
        /\ \A e \in 1 .. MaxConn[d] : c2s'[d][e] = <<>>
        /\ UNCHANGED <<ce, open, due, s2c>>
    BY <1>11 DEF Restart, Each, NoBytes, client
  <2>2. ce[d] \in Nat /\ ce[d] <= MaxConn[d]
    BY <1>1, ChannelIs DEF Links
  <2> QED
    BY <1>1, <2>1, <2>2 DEF Links
<1> QED
  BY <1>2, <1>3, <1>4, <1>5, <1>6, <1>7, <1>8, <1>9, <1>10, <1>11, <1>12
     DEF Next, Client, Manager, Main, SendBroken, MainBack, MainSkip, HandleReq, HandleDbg,
         HandleMdfy, MdfyOpen, MdfyWrite, RemoveHandled, vars, server, manager, client, wire

-----------------------------------------------------------------------------
(* The lists.                                                               *)

LEMMA PushEffect ==
  ASSUME Sound, NEW c \in Channels, Push(c)
  PROVE  /\ in[c] \in Packets /\ in'[c] = None
         /\ rx'[c] \in Seq(Packets) /\ Len(rx'[c]) = Len(rx[c]) + 1
         /\ rx'[c][1] = in[c] /\ \A k \in 1 .. Len(rx[c]) : rx'[c][k + 1] = rx[c][k]
         /\ \A d \in Channels : d # c => rx'[d] = rx[d] /\ in'[d] = in[d] /\ mpc'[d] = mpc[d]
         /\ mpc[c] = "push" /\ mpc'[c] = "peek"
         /\ UNCHANGED <<alive, tx, out, se, status, main, client, wire>>
<1>1. DOMAIN rx = Channels /\ DOMAIN in = Channels /\ DOMAIN mpc = Channels
  BY DEF Sound, TypeOK
<1>2. mpc[c] = "push" /\ in[c] \in Packets /\ rx[c] \in Seq(Packets)
  BY DEF Push, At, Sound, TypeOK, Links
<1>3. rx'[c] = PushFront(rx[c], in[c])
  BY <1>1 DEF Push
<1>4. /\ rx'[c] \in Seq(Packets) /\ Len(rx'[c]) = Len(rx[c]) + 1
      /\ rx'[c][1] = in[c] /\ \A k \in 1 .. Len(rx[c]) : rx'[c][k + 1] = rx[c][k]
  <2> DEFINE l == rx[c]
             e == in[c]
  <2>1. l \in Seq(Packets) /\ e \in Packets
    BY <1>2
  <2> HIDE DEF l, e
  <2>2. /\ PushFront(l, e) \in Seq(Packets) /\ Len(PushFront(l, e)) = Len(l) + 1
        /\ PushFront(l, e)[1] = e /\ \A k \in 1 .. Len(l) : PushFront(l, e)[k + 1] = l[k]
    BY <2>1, InFront
  <2> QED
    BY <1>3, <2>2 DEF l, e
<1>5. /\ mpc'[c] = "peek" /\ in'[c] = None
      /\ \A d \in Channels : d # c => rx'[d] = rx[d] /\ in'[d] = in[d] /\ mpc'[d] = mpc[d]
  BY <1>1 DEF Push, Goto
<1>6. UNCHANGED <<alive, tx, out, se, status, main, client, wire>>
  BY DEF Push
<1> QED
  BY <1>2, <1>4, <1>5, <1>6

LEMMA SendOutEffect ==
  ASSUME Sound, NEW c \in Channels, SendOut(c)
  PROVE  /\ open[c] /\ out[c] \in Packets
         /\ Len(tx[c]) > 0 /\ tx[c][Len(tx[c])] = out[c]
         /\ s2c'[c] \in Seq(Packets) /\ Len(s2c'[c]) = Len(s2c[c]) + 1
         /\ s2c'[c][Len(s2c[c]) + 1] = out[c]
         /\ \A k \in 1 .. Len(s2c[c]) : s2c'[c][k] = s2c[c][k]
         /\ \A d \in Channels : d # c => s2c'[d] = s2c[d] /\ mpc'[d] = mpc[d]
         /\ mpc[c] = "send" /\ mpc'[c] = "remove"
         /\ UNCHANGED <<alive, rx, tx, in, out, se, status, main, client, c2s, reset>>
<1>1. DOMAIN s2c = Channels /\ DOMAIN mpc = Channels
  BY DEF Sound, TypeOK
<1>2. mpc[c] = "send" /\ out[c] \in Packets /\ s2c[c] \in Seq(Packets)
  BY DEF SendOut, At, Sound, TypeOK, Holds
<1>3. s2c'[c] = Append(s2c[c], out[c])
  BY <1>1 DEF SendOut
<1>4. /\ s2c'[c] \in Seq(Packets) /\ Len(s2c'[c]) = Len(s2c[c]) + 1
      /\ s2c'[c][Len(s2c[c]) + 1] = out[c]
      /\ \A k \in 1 .. Len(s2c[c]) : s2c'[c][k] = s2c[c][k]
  BY <1>2, <1>3, Behind
<1>5. Len(tx[c]) > 0 /\ tx[c][Len(tx[c])] = out[c]
  BY <1>2, NullIsNoPacket DEF Sound, Holds
<1>6. open[c]
  BY DEF SendOut, PeerClosed
<1> QED
  BY <1>1, <1>2, <1>4, <1>5, <1>6 DEF SendOut, Goto

LEMMA RemoveSentEffect ==
  ASSUME Sound, NEW c \in Channels, RemoveSent(c)
  PROVE  /\ Len(tx[c]) \in Nat \ {0}
         /\ tx'[c] \in Seq(Packets) /\ Len(tx'[c]) = Len(tx[c]) - 1
         /\ \A k \in 1 .. Len(tx[c]) - 1 : tx'[c][k] = tx[c][k]
         /\ \A d \in Channels : d # c => tx'[d] = tx[d] /\ out'[d] = out[d] /\ mpc'[d] = mpc[d]
         /\ out'[c] = None /\ mpc[c] = "remove" /\ mpc'[c] = "recv"
         /\ UNCHANGED <<alive, rx, in, se, status, main, client, wire>>
<1>1. DOMAIN tx = Channels /\ DOMAIN out = Channels /\ DOMAIN mpc = Channels
  BY DEF Sound, TypeOK
<1>2. mpc[c] = "remove" /\ tx[c] \in Seq(Packets) /\ Len(tx[c]) \in Nat
  BY DEF RemoveSent, At, Sound, TypeOK
<1>3. Len(tx[c]) > 0
  BY <1>2 DEF Sound, Holds
<1>4. tx'[c] = RemoveBack(tx[c])
  BY <1>1 DEF RemoveSent
<1>5. /\ tx'[c] \in Seq(Packets) /\ Len(tx'[c]) = Len(tx[c]) - 1
      /\ \A k \in 1 .. Len(tx[c]) - 1 : tx'[c][k] = tx[c][k]
  BY <1>2, <1>3, <1>4, WithoutBack
<1> QED
  BY <1>1, <1>2, <1>3, <1>5 DEF RemoveSent, Goto

\* The answer to a request or to a debug command.
LEMMA AnswerEffect ==
  ASSUME Sound, HandleReq \/ HandleDbg
  PROVE  /\ tx'[turn] \in Seq(Packets) /\ Len(tx'[turn]) = Len(tx[turn]) + 1
         /\ \A k \in 1 .. Len(tx[turn]) : tx'[turn][k + 1] = tx[turn][k]
         /\ tx'[turn][1] \in Packets
         /\ tx'[turn][1].n = hand.n /\ tx'[turn][1].asOf = hand.asOf
         /\ tx'[turn][1].ver = Len(applied)
         /\ tx'[turn][1].dac = "RES" => tx'[turn][1].cfg = cfg
         /\ hand \in Packets /\ Command(hand) /\ hand.dac \in Answerable
         /\ Len(rx[turn]) \in Nat \ {0} /\ rx[turn][Len(rx[turn])] = hand
         /\ turn \in Channels /\ cpc = "check" /\ cpc' = "remove"
         /\ handled'[turn] = hand.n
         /\ \A d \in Channels : d # turn => tx'[d] = tx[d] /\ handled'[d] = handled[d]
         /\ UNCHANGED <<alive, rx, manager, turn, hand, cfg, disk, applied, client, wire>>
<1>1. DOMAIN tx = Channels /\ DOMAIN handled = Channels /\ turn \in Channels
  BY DEF Sound, TypeOK
<1>2. /\ hand \in Packets /\ Command(hand)
      /\ Len(rx[turn]) \in Nat \ {0} /\ rx[turn][Len(rx[turn])] = hand
  BY InTheHand DEF HandleReq, HandleDbg, Handling, AtMain
<1>3. hand.n \in Nat /\ hand.asOf \in Nat /\ Len(applied) \in Nat /\ cfg \in Cfg
  BY <1>2, PacketIs DEF Sound, TypeOK
<1>4. PICK d \in {"RES", "DBG"}, v \in Cfg \union {None} :
        /\ tx' = [tx EXCEPT ![turn] = PushFront(@, Packet(hand.n, d, v, hand.asOf, Len(applied)))]
        /\ d = "RES" => v = cfg
  BY <1>3 DEF HandleReq, HandleDbg
<1> DEFINE p == Packet(hand.n, d, v, hand.asOf, Len(applied))
<1>5. /\ p \in Packets /\ p.n = hand.n /\ p.dac = d /\ p.cfg = v
      /\ p.asOf = hand.asOf /\ p.ver = Len(applied)
  <2>1. p \in Packets
    BY <1>3, APacket
  <2> QED
    BY <2>1 DEF Packet
<1> HIDE DEF p
<1>6. tx'[turn] = PushFront(tx[turn], p) /\ \A x \in Channels : x # turn => tx'[x] = tx[x]
  BY <1>1, <1>4 DEF p
<1>7. tx[turn] \in Seq(Packets)
  BY <1>1 DEF Sound, TypeOK
<1>8. /\ tx'[turn] \in Seq(Packets) /\ Len(tx'[turn]) = Len(tx[turn]) + 1
      /\ \A k \in 1 .. Len(tx[turn]) : tx'[turn][k + 1] = tx[turn][k]
      /\ tx'[turn][1] = p
  <2> DEFINE l == tx[turn]
  <2>1. l \in Seq(Packets)
    BY <1>7
  <2> HIDE DEF l
  <2>2. /\ PushFront(l, p) \in Seq(Packets) /\ Len(PushFront(l, p)) = Len(l) + 1
        /\ PushFront(l, p)[1] = p /\ \A k \in 1 .. Len(l) : PushFront(l, p)[k + 1] = l[k]
    <3>1. p \in Packets
      BY <1>5
    <3> QED
      BY <2>1, <3>1, InFront
  <2> QED
    BY <1>6, <2>2 DEF l
<1>9. /\ cpc = "check" /\ cpc' = "remove" /\ hand.dac \in Answerable
      /\ handled'[turn] = hand.n /\ \A x \in Channels : x # turn => handled'[x] = handled[x]
      /\ UNCHANGED <<alive, rx, manager, turn, hand, cfg, disk, applied, client, wire>>
  BY <1>1 DEF HandleReq, HandleDbg, Handling, AtMain, Done, Answerable
<1>10. /\ tx'[turn][1] \in Packets
       /\ tx'[turn][1].n = hand.n /\ tx'[turn][1].asOf = hand.asOf
       /\ tx'[turn][1].ver = Len(applied)
       /\ tx'[turn][1].dac = "RES" => tx'[turn][1].cfg = cfg
  BY <1>4, <1>5, <1>8
<1> QED
  BY <1>1, <1>2, <1>6, <1>8, <1>9, <1>10

LEMMA MdfyEffect ==
  ASSUME Sound, HandleMdfy
  PROVE  /\ hand \in Packets /\ hand.dac = "MDFY" /\ hand.cfg \in Cfg
         /\ Len(rx[turn]) \in Nat \ {0} /\ rx[turn][Len(rx[turn])] = hand
         /\ turn \in Channels /\ cpc = "check" /\ cpc' = "fopen"
         /\ cfg' = hand.cfg
         /\ Len(applied) \in Nat /\ Len(applied') = Len(applied) + 1
         /\ applied'[Len(applied) + 1] = hand.cfg
         /\ \A k \in 1 .. Len(applied) : applied'[k] = applied[k]
         /\ handled'[turn] = hand.n
         /\ \A d \in Channels : d # turn => handled'[d] = handled[d]
         /\ UNCHANGED <<alive, rx, tx, manager, turn, hand, disk, client, wire>>
<1>1. DOMAIN handled = Channels /\ turn \in Channels /\ applied \in Seq(Cfg)
  BY DEF Sound, TypeOK
<1>2. /\ hand \in Packets /\ Command(hand)
      /\ Len(rx[turn]) \in Nat \ {0} /\ rx[turn][Len(rx[turn])] = hand
  BY InTheHand DEF HandleMdfy, Handling, AtMain
<1>3. hand.dac = "MDFY" /\ hand.cfg \in Cfg
  BY <1>2, PacketIs DEF HandleMdfy, Handling, Command
<1>4. applied' = Append(applied, hand.cfg)
  BY DEF HandleMdfy
<1>5. /\ Len(applied) \in Nat /\ Len(applied') = Len(applied) + 1
      /\ applied'[Len(applied) + 1] = hand.cfg
      /\ \A k \in 1 .. Len(applied) : applied'[k] = applied[k]
  BY <1>1, <1>3, <1>4, Behind
<1> QED
  BY <1>1, <1>2, <1>3, <1>5 DEF HandleMdfy, Handling, AtMain, Done

LEMMA HandledEffect ==
  ASSUME Sound, RemoveHandled
  PROVE  /\ turn \in Channels /\ Len(rx[turn]) \in Nat \ {0}
         /\ rx'[turn] \in Seq(Packets) /\ Len(rx'[turn]) = Len(rx[turn]) - 1
         /\ \A k \in 1 .. Len(rx[turn]) - 1 : rx'[turn][k] = rx[turn][k]
         /\ \A d \in Channels : d # turn => rx'[d] = rx[d]
         /\ cpc = "remove" /\ cpc' = "back" /\ hand' = None
         /\ UNCHANGED <<alive, tx, manager, cfg, disk, applied, handled, client, wire>>
<1>1. DOMAIN rx = Channels /\ turn \in Channels /\ cpc = "remove"
  BY DEF Sound, TypeOK, RemoveHandled, AtMain
<1>2. hand # None
  BY <1>1 DEF Sound, MainHolds
<1>3. Len(rx[turn]) \in Nat \ {0}
  BY <1>1, <1>2, InTheHand
<1>4. rx'[turn] = RemoveBack(rx[turn]) /\ rx[turn] \in Seq(Packets)
  BY <1>1 DEF RemoveHandled, Sound, TypeOK
<1>5. /\ rx'[turn] \in Seq(Packets) /\ Len(rx'[turn]) = Len(rx[turn]) - 1
      /\ \A k \in 1 .. Len(rx[turn]) - 1 : rx'[turn][k] = rx[turn][k]
  BY <1>3, <1>4, WithoutBack
<1> QED
  BY <1>1, <1>3, <1>5 DEF RemoveHandled, NextTurn

LEMMA RestartEffect ==
  ASSUME TypeOK, Restart, NEW d \in Channels
  PROVE  /\ rx'[d] = <<>> /\ tx'[d] = <<>> /\ in'[d] = None /\ out'[d] = None
         /\ mpc'[d] = "accept" /\ se'[d] = ce[d] /\ ~ open[d]
         /\ \A e \in 1 .. MaxConn[d] : c2s'[d][e] = <<>>
         /\ cpc' = "back" /\ hand' = None /\ cfg' = InitCfg /\ applied' = <<InitCfg>>
         /\ UNCHANGED <<ce, open, sent, due, s2c, handled>>
  BY DEF Restart, Each, NoBytes, client

LEMMA HoldsStep ==
  ASSUME Sound, [Next]_vars, NEW d \in Channels
  PROVE  Holds(d)'
<1>1. TypeOK /\ TypeOK' /\ Holds(d)
  BY TypeStep DEF Sound
<1>2. tx[d] \in Seq(Packets) /\ Len(tx[d]) \in Nat
  BY <1>1, ChannelIs
<1>3. CASE UNCHANGED <<mpc, out, tx>>
  BY <1>1, <1>3 DEF Holds
<1>4. ASSUME NEW c \in Channels,
             Accept(c) \/ RecvData(c) \/ RecvNothing(c) \/ RecvClosed(c) \/ Push(c) \/ SendFull(c)
      PROVE  Holds(d)'
  <2>1. UNCHANGED <<out, tx>>
    BY <1>4 DEF Accept, RecvData, RecvNothing, RecvClosed, Push, SendFull
  <2>2. PICK l \in {"recv", "push", "peek", "accept"} : mpc' = [mpc EXCEPT ![c] = l]
    BY <1>4 DEF Accept, RecvData, RecvNothing, RecvClosed, Push, SendFull, Goto
  <2>3. mpc'[d] = mpc[d] \/ mpc'[d] \in {"recv", "push", "peek", "accept"}
    BY <1>1, <2>2 DEF TypeOK
  <2> QED
    BY <1>1, <2>1, <2>3 DEF Holds
<1>5. ASSUME NEW c \in Channels, Peek(c)
      PROVE  Holds(d)'
  <2>1. /\ d = c => mpc'[d] = "check" /\ out'[d] = Back(tx[d])
        /\ d # c => mpc'[d] = mpc[d] /\ out'[d] = out[d]
        /\ tx' = tx
    BY <1>1, <1>5 DEF Peek, Goto, TypeOK
  <2>2. Back(tx[d]) # None => Len(tx[d]) > 0 /\ tx[d][Len(tx[d])] = Back(tx[d])
    BY <1>2, BackIs
  <2> QED
    BY <1>1, <2>1, <2>2 DEF Holds
<1>6. ASSUME NEW c \in Channels, Check(c)
      PROVE  Holds(d)'
  <2>1. /\ d = c => mpc[d] = "check" /\ (mpc'[d] = "recv" \/ (mpc'[d] = "send" /\ out[d] # None))
        /\ d # c => mpc'[d] = mpc[d]
        /\ UNCHANGED <<out, tx>>
    BY <1>1, <1>6 DEF Check, At, Goto, TypeOK
  <2> QED
    BY <1>1, <2>1 DEF Holds
<1>7. ASSUME NEW c \in Channels, SendOut(c)
      PROVE  Holds(d)'
  <2>1. /\ d = c => mpc[d] = "send" /\ mpc'[d] = "remove"
        /\ d # c => mpc'[d] = mpc[d]
        /\ UNCHANGED <<out, tx>>
    BY <1>7, SendOutEffect
  <2> QED
    BY <1>1, <2>1 DEF Holds
<1>8. ASSUME NEW c \in Channels, RemoveSent(c)
      PROVE  Holds(d)'
  <2>1. /\ d = c => mpc'[d] = "recv"
        /\ d # c => mpc'[d] = mpc[d] /\ out'[d] = out[d] /\ tx'[d] = tx[d]
    BY <1>8, RemoveSentEffect
  <2> QED
    BY <1>1, <2>1 DEF Holds
<1>9. ASSUME HandleReq \/ HandleDbg
      PROVE  Holds(d)'
  <2>1. UNCHANGED <<mpc, out>>
    BY <1>9, AnswerEffect DEF manager
  <2>2. d # turn => tx'[d] = tx[d]
    BY <1>9, AnswerEffect
  <2>3. d = turn => Len(tx'[d]) = Len(tx[d]) + 1 /\ \A k \in 1 .. Len(tx[d]) : tx'[d][k + 1] = tx[d][k]
    BY <1>9, AnswerEffect
  <2>4. Len(tx[d]) > 0 => Len(tx'[d]) > 0 /\ tx'[d][Len(tx'[d])] = tx[d][Len(tx[d])]
    BY <1>2, <2>2, <2>3
  <2> QED
    BY <1>1, <2>1, <2>4 DEF Holds
<1>10. ASSUME Restart
       PROVE  Holds(d)'
  BY <1>1, <1>10, RestartEffect DEF Holds
<1> QED
  BY <1>3, <1>4, <1>5, <1>6, <1>7, <1>8, <1>9, <1>10
     DEF Next, Client, Manager, Main, Connect, Send, Receive, Close, SendBroken, MainBack,
         MainSkip, HandleMdfy, MdfyOpen, MdfyWrite, RemoveHandled, vars, server, manager

\* A manager's step changes nothing of main's, and only a push its queue.
LEMMA ManagerLeavesMain ==
  ASSUME NEW c \in Channels, Manager(c)
  PROVE  UNCHANGED <<cpc, turn, hand>> /\ (Push(c) \/ rx' = rx)
<1>1. CASE Accept(c) \/ RecvData(c)
  BY <1>1 DEF Accept, RecvData, main
<1>2. CASE RecvNothing(c) \/ RecvClosed(c)
  BY <1>2 DEF RecvNothing, RecvClosed, main
<1>3. CASE Push(c)
  BY <1>3 DEF Push, main
<1>4. CASE Peek(c) \/ Check(c)
  BY <1>4 DEF Peek, Check, main
<1>5. CASE SendOut(c) \/ SendFull(c)
  BY <1>5 DEF SendOut, SendFull, main
<1>6. CASE RemoveSent(c) \/ SendBroken(c)
  BY <1>6 DEF RemoveSent, SendBroken, server, main
<1> QED
  BY <1>1, <1>2, <1>3, <1>4, <1>5, <1>6, ZenonT(30) DEF Manager

LEMMA MainHoldsStep ==
  ASSUME Sound, [Next]_vars
  PROVE  MainHolds'
<1>1. TypeOK /\ TypeOK' /\ MainHolds /\ turn \in Channels
  BY TypeStep DEF Sound, TypeOK
<1>2. rx[turn] \in Seq(Packets) /\ Len(rx[turn]) \in Nat
  BY <1>1, ChannelIs
<1>3. CASE UNCHANGED <<rx, cpc, turn, hand>>
  BY <1>1, <1>3 DEF MainHolds
<1>4. ASSUME NEW c \in Channels, Push(c)
      PROVE  MainHolds'
  <2>1. UNCHANGED <<cpc, turn, hand>>
    BY <1>4, PushEffect DEF main, Sound
  <2>2. c # turn => rx'[turn] = rx[turn]
    BY <1>1, <1>4, PushEffect
  <2>3. c = turn =>
          Len(rx'[turn]) = Len(rx[turn]) + 1 /\ \A k \in 1 .. Len(rx[turn]) : rx'[turn][k + 1] = rx[turn][k]
    BY <1>4, PushEffect
  <2>4. Len(rx[turn]) > 0 => Len(rx'[turn]) > 0 /\ rx'[turn][Len(rx'[turn])] = rx[turn][Len(rx[turn])]
    BY <1>2, <2>2, <2>3
  <2> QED
    BY <1>1, <2>1, <2>4 DEF MainHolds
<1>5. ASSUME MainBack
      PROVE  MainHolds'
  <2>1. cpc' = "check" /\ hand' = Back(rx[turn]) /\ UNCHANGED <<rx, turn>>
    BY <1>5 DEF MainBack
  <2>2. Back(rx[turn]) # None => Len(rx[turn]) > 0 /\ rx[turn][Len(rx[turn])] = Back(rx[turn])
    BY <1>2, BackIs
  <2> QED
    BY <2>1, <2>2 DEF MainHolds
<1>6. ASSUME MainSkip \/ RemoveHandled \/ Restart
      PROVE  MainHolds'
  <2>1. cpc' = "back"
    BY <1>6 DEF MainSkip, RemoveHandled, NextTurn, Restart
  <2> QED
    BY <2>1 DEF MainHolds
<1>7. ASSUME HandleReq \/ HandleDbg \/ HandleMdfy
      PROVE  MainHolds'
  <2>1. hand # None /\ cpc = "check" /\ UNCHANGED <<rx, turn, hand>>
    BY <1>7 DEF HandleReq, HandleDbg, HandleMdfy, Handling, AtMain
  <2> QED
    BY <1>1, <2>1 DEF MainHolds
<1>8. ASSUME MdfyOpen \/ MdfyWrite
      PROVE  MainHolds'
  <2>1. cpc \in {"fopen", "fclose"} /\ UNCHANGED <<rx, turn, hand>>
    BY <1>8 DEF MdfyOpen, MdfyWrite, AtMain
  <2> QED
    BY <1>1, <2>1 DEF MainHolds
<1>9. ASSUME NEW c \in Channels, Client(c)
      PROVE  UNCHANGED <<rx, cpc, turn, hand>>
  BY <1>9, SMTT(30) DEF Client, Connect, Send, Receive, Close, server, main
<1>10. ASSUME NEW c \in Channels, Manager(c)
       PROVE  Push(c) \/ UNCHANGED <<rx, cpc, turn, hand>>
  BY <1>10, ManagerLeavesMain
<1>11. ASSUME UNCHANGED vars
       PROVE  UNCHANGED <<rx, cpc, turn, hand>>
  BY <1>11 DEF vars, server, main
<1> QED
  BY <1>3, <1>4, <1>5, <1>6, <1>7, <1>8, <1>9, <1>10, <1>11, ZenonT(30) DEF Next, Main

LEMMA CurrentStep ==
  ASSUME Sound, [Next]_vars
  PROVE  /\ Current'
         /\ \/ Restart
            \/ Len(applied) <= Len(applied') /\ \A k \in 1 .. Len(applied) : applied'[k] = applied[k]
<1>1. Current /\ Len(applied) \in Nat
  BY DEF Sound, TypeOK
<1>2. CASE UNCHANGED <<applied, cfg>>
  BY <1>1, <1>2 DEF Current
<1>3. CASE HandleMdfy
  <2>1. /\ cfg' = hand.cfg
        /\ Len(applied') = Len(applied) + 1
        /\ applied'[Len(applied) + 1] = hand.cfg
        /\ \A k \in 1 .. Len(applied) : applied'[k] = applied[k]
    BY <1>3, MdfyEffect
  <2> QED
    BY <1>1, <2>1 DEF Current
<1>4. CASE Restart
  BY <1>4 DEF Restart, Current
<1>5. ASSUME NEW c \in Channels, Client(c) PROVE UNCHANGED <<applied, cfg>>
  BY <1>5 DEF Client, Connect, Send, Receive, Close, server
<1>6. ASSUME NEW c \in Channels, Manager(c) PROVE UNCHANGED <<applied, cfg>>
  BY <1>6 DEF Manager, Accept, RecvData, RecvNothing, RecvClosed, Push, Peek, Check, SendOut,
              SendFull, RemoveSent, SendBroken, server, main
<1>7. CASE MainBack \/ MainSkip \/ HandleReq \/ HandleDbg \/ MdfyOpen \/ MdfyWrite \/ RemoveHandled
  <2>1. UNCHANGED <<applied, cfg>>
    BY <1>7 DEF MainBack, MainSkip, HandleReq, HandleDbg, MdfyOpen, MdfyWrite, RemoveHandled
  <2> QED
    BY <1>2, <2>1
<1>8. CASE UNCHANGED vars
  BY <1>2, <1>8 DEF vars, server
<1> QED
  BY <1>2, <1>3, <1>4, <1>5, <1>6, <1>7, <1>8, Zenon DEF Next, Main

LEMMA AskedStep ==
  ASSUME Sound, [Next]_vars, NEW d \in Channels
  PROVE  Asked(d)'
<1>1. TypeOK /\ Asked(d)
  BY DEF Sound
<1>2. /\ rx[d] \in Seq(Packets) /\ Len(rx[d]) \in Nat
      /\ \A e \in 1 .. MaxConn[d] : c2s[d][e] \in Seq(Packets) /\ Len(c2s[d][e]) \in Nat
  BY <1>1, ChannelIs
<1>3. ASSUME Restart
      PROVE  Asked(d)'
  BY <1>1, <1>3, RestartEffect DEF Asked
<1>4. ASSUME ~ Restart, NEW p \in Packets, Command(p)
      PROVE  Command(p)'
  <2>1. Len(applied) <= Len(applied') /\ Len(applied) \in Nat /\ Len(applied') \in Nat
    <3>1. TypeOK /\ TypeOK'
      BY TypeStep DEF Sound
    <3>2. applied \in Seq(Cfg) /\ applied' \in Seq(Cfg)
      BY <3>1 DEF TypeOK
    <3>3. Len(applied) \in Nat /\ Len(applied') \in Nat
      BY <3>2
    <3> QED
      BY <1>4, <3>3, CurrentStep
  <2>2. p.asOf \in Nat
    BY PacketIs
  <2> QED
    BY <1>4, <2>1, <2>2 DEF Command
<1>5. /\ \A k \in 1 .. Len(rx[d]) : rx[d][k] \in Packets
      /\ in[d] # None => in[d] \in Packets
      /\ \A e \in 1 .. MaxConn[d] : \A k \in 1 .. Len(c2s[d][e]) : c2s[d][e][k] \in Packets
  <2>1. in[d] \in Packets \union {None}
    BY <1>1 DEF TypeOK
  <2> QED
    BY <1>2, <2>1
<1>6. CASE ~ Restart /\ UNCHANGED <<rx, in, c2s>>
  BY <1>1, <1>4, <1>5, <1>6 DEF Asked
<1>7. ASSUME ~ Restart, NEW c \in Channels, Send(c)
      PROVE  Asked(d)'
  <2>1. UNCHANGED <<rx, in>>
    BY <1>7, SendEffect DEF server
  <2>2. /\ \A e \in 1 .. MaxConn[c] : e # ce[c] => c2s'[c][e] = c2s[c][e]
        /\ \A x \in Channels : x # c => c2s'[x] = c2s[x]
        /\ ce[c] \in 1 .. MaxConn[c]
    BY <1>7, SendEffect
  <2>3. PICK p \in Packets : Command(p) /\ c2s'[c][ce[c]] = Append(c2s[c][ce[c]], p)
    BY <1>7, SendEffect
  <2>4. ASSUME NEW e \in 1 .. MaxConn[d], NEW k \in 1 .. Len(c2s'[d][e])
        PROVE  Command(c2s[d][e][k])'
    <3>1. CASE d = c /\ e = ce[c]
      <4> DEFINE q == c2s[d][e]
      <4>1. q \in Seq(Packets) /\ Len(q) \in Nat /\ c2s'[d][e] = Append(q, p)
        BY <1>2, <2>3, <3>1
      <4>2. \A j \in 1 .. Len(q) : q[j] \in Packets /\ Command(q[j])
        BY <1>1, <1>5 DEF Asked
      <4> HIDE DEF q
      <4>3. \/ c2s'[d][e][k] = p
            \/ \E j \in 1 .. Len(q) : c2s'[d][e][k] = q[j]
        BY <2>3, <4>1, Behind
      <4> QED
        BY <1>4, <1>7, <2>3, <4>2, <4>3
    <3>2. CASE ~ (d = c /\ e = ce[c])
      <4>1. c2s'[d][e] = c2s[d][e]
        BY <2>2, <3>2
      <4> QED
        BY <1>1, <1>4, <1>5, <1>7, <4>1 DEF Asked
    <3> QED
      BY <3>1, <3>2
  <2> QED
    BY <1>1, <1>4, <1>5, <1>7, <2>1, <2>4 DEF Asked
<1>8. ASSUME ~ Restart, NEW c \in Channels, RecvData(c)
      PROVE  Asked(d)'
  <2>1. rx' = rx
    BY <1>8, RecvEffect
  <2>2. CASE d = c
    <3>1. /\ se[d] \in 1 .. MaxConn[d] /\ Len(c2s[d][se[d]]) > 0 /\ in'[d] = c2s[d][se[d]][1]
          /\ c2s'[d][se[d]] = <<>>
          /\ \A e \in 1 .. MaxConn[d] : e # se[d] => c2s'[d][e] = c2s[d][e]
      BY <1>8, <2>2, RecvEffect
    <3>2. 1 \in 1 .. Len(c2s[d][se[d]])
      BY <1>2, <3>1
    <3>3. in'[d] \in Packets /\ Command(in[d])'
      BY <1>1, <1>4, <1>5, <1>8, <3>1, <3>2 DEF Asked
    <3> QED
      BY <1>1, <1>4, <1>5, <1>8, <2>1, <3>1, <3>3 DEF Asked
  <2>3. CASE d # c
    <3>1. c2s'[d] = c2s[d] /\ in'[d] = in[d]
      BY <1>8, <2>3, RecvEffect
    <3> QED
      BY <1>1, <1>4, <1>5, <1>8, <2>1, <3>1 DEF Asked
  <2> QED
    BY <2>2, <2>3
<1>9. ASSUME ~ Restart, NEW c \in Channels, Push(c)
      PROVE  Asked(d)'
  <2>1. c2s' = c2s
    BY <1>9, PushEffect DEF wire
  <2>2. CASE d = c
    <3>1. /\ Len(rx'[d]) = Len(rx[d]) + 1 /\ in[d] \in Packets /\ in'[d] = None
          /\ rx'[d][1] = in[d] /\ \A k \in 1 .. Len(rx[d]) : rx'[d][k + 1] = rx[d][k]
      BY <1>9, <2>2, PushEffect
    <3>2. ASSUME NEW k \in 1 .. Len(rx'[d])
          PROVE  rx'[d][k] = in[d] \/ \E j \in 1 .. Len(rx[d]) : rx'[d][k] = rx[d][j]
      <4>1. CASE k = 1
        BY <3>1, <4>1
      <4>2. CASE k # 1
        <5>1. k - 1 \in 1 .. Len(rx[d]) /\ (k - 1) + 1 = k
          BY <1>2, <3>1, <4>2
        <5> QED
          BY <3>1, <5>1
      <4> QED
        BY <4>1, <4>2
    <3>3. \A k \in 1 .. Len(rx'[d]) : Command(rx[d][k])'
      BY <1>1, <1>4, <1>5, <1>9, <3>1, <3>2, NullIsNoPacket DEF Asked
    <3> QED
      BY <1>1, <1>4, <1>5, <1>9, <2>1, <3>1, <3>3 DEF Asked
  <2>3. CASE d # c
    <3>1. rx'[d] = rx[d] /\ in'[d] = in[d]
      BY <1>9, <2>3, PushEffect
    <3> QED
      BY <1>1, <1>4, <1>5, <1>9, <2>1, <3>1 DEF Asked
  <2> QED
    BY <2>2, <2>3
<1>10. ASSUME ~ Restart, RemoveHandled
       PROVE  Asked(d)'
  <2>1. UNCHANGED <<in, c2s>>
    BY <1>10, HandledEffect DEF manager, wire
  <2>2. \A k \in 1 .. Len(rx'[d]) : k \in 1 .. Len(rx[d]) /\ rx'[d][k] = rx[d][k]
    BY <1>2, <1>10, HandledEffect
  <2> QED
    BY <1>1, <1>4, <1>5, <1>10, <2>1, <2>2 DEF Asked
<1> QED
  BY <1>3, <1>6, <1>7, <1>8, <1>9, <1>10
     DEF Next, Client, Manager, Main, Connect, Receive, Close, Accept, RecvNothing,
         RecvClosed, Peek, Check, SendOut, SendFull, RemoveSent, SendBroken, MainBack,
         MainSkip, HandleReq, HandleDbg, HandleMdfy, MdfyOpen, MdfyWrite, vars, server, manager, wire

LEMMA SoundInit == Init => Sound
<1> SUFFICES ASSUME Init
             PROVE  Sound
  OBVIOUS
<1>1. /\ \A c \in Channels : MaxConn[c] \in Nat
      /\ DOMAIN c2s = Channels /\ \A c \in Channels : c2s[c] = [e \in 1 .. MaxConn[c] |-> <<>>]
  BY Bounds DEF Init, NoBytes
<1>2. \A c \in Channels : c2s[c] \in [1 .. MaxConn[c] -> Seq(Packets)]
  <2> DEFINE E == <<>>
  <2>1. E \in Seq(Packets)
    OBVIOUS
  <2> HIDE DEF E
  <2>2. \A c \in Channels : c2s[c] = [e \in 1 .. MaxConn[c] |-> E]
    BY <1>1 DEF E
  <2> QED
    BY <2>1, <2>2
<1>3. TypeOK
  BY <1>1, <1>2, RoundRobin, ConfigurationsDiffer DEF Init, Each, TypeOK
<1>4. MainHolds /\ Current
  BY DEF Init, MainHolds, Current
<1>5. ASSUME NEW c \in Channels
      PROVE  Links(c) /\ Holds(c) /\ Asked(c)
  BY <1>1 DEF Init, Each, Links, Holds, Asked
<1> QED
  BY <1>3, <1>4, <1>5 DEF Sound

LEMMA SoundStep == Sound /\ [Next]_vars => Sound'
<1> SUFFICES ASSUME Sound, [Next]_vars
             PROVE  Sound'
  OBVIOUS
<1>1. ASSUME NEW c \in Channels
      PROVE  Links(c)' /\ Holds(c)' /\ Asked(c)'
  <2>1. Links(c)'
    BY LinksStep
  <2>2. Holds(c)'
    BY HoldsStep
  <2>3. Asked(c)'
    BY AskedStep
  <2> QED
    BY <2>1, <2>2, <2>3
<1> QED
  BY <1>1, TypeStep, MainHoldsStep, CurrentStep DEF Sound

LEMMA SoundReached == Spec => []Sound
  BY SoundInit, SoundStep, PTL DEF Spec

\* The variables of the server and of its clients keep to their domains,
\* whatever the clients send and however often the server ends.
THEOREM TypeCorrect == Spec => []TypeOK
<1>1. Sound => TypeOK
  BY DEF Sound
<1> QED
  BY <1>1, SoundReached, PTL

\* The packet that the manager sends, or that main handles, is the one that it
\* removes and frees when it has done so.
THEOREM NothingDangles == Spec => []NoDanglingPacket
<1>1. Sound => NoDanglingPacket
  <2> SUFFICES ASSUME Sound
               PROVE  NoDanglingPacket
    OBVIOUS
  <2>1. ASSUME NEW c \in Channels, mpc[c] \in {"check", "send", "remove"}, out[c] # None
        PROVE  tx[c] # <<>> /\ Last(tx[c]) = out[c]
    BY <2>1, SMTT(30) DEF Sound, Holds, TypeOK, Last
  <2>2. ASSUME cpc # "back", hand # None
        PROVE  rx[turn] # <<>> /\ Last(rx[turn]) = hand
    BY <2>2 DEF Sound, MainHolds, TypeOK, Last
  <2> QED
    BY <2>1, <2>2 DEF NoDanglingPacket
<1> QED
  BY <1>1, SoundReached, PTL

-----------------------------------------------------------------------------
(* The answers show one configuration after another.                        *)

\* An answer that was right when it was made, and later ones are of later
\* configurations.
Right(p) == /\ p.asOf <= p.ver /\ p.ver <= Len(applied) /\ p.ver > 0
            /\ p.dac = "RES" => p.cfg = applied[p.ver]

Fresh(c) ==
  /\ \A k \in 1 .. Len(tx[c])  : Right(tx[c][k])
  /\ \A k \in 1 .. Len(s2c[c]) : Right(s2c[c][k])
  /\ \A j, k \in 1 .. Len(tx[c])  : j < k => tx[c][k].ver <= tx[c][j].ver
  /\ \A j, k \in 1 .. Len(s2c[c]) : j < k => s2c[c][j].ver <= s2c[c][k].ver
  /\ \A j \in 1 .. Len(s2c[c]), k \in 1 .. Len(tx[c]) : s2c[c][j].ver <= tx[c][k].ver

Freshes == \A c \in Channels : Fresh(c)

\* The packets of a list are packets.
LEMMA Elements ==
  ASSUME NEW s \in Seq(Packets)
  PROVE  /\ Len(s) \in Nat
         /\ \A k \in 1 .. Len(s) : s[k] \in Packets /\ s[k].n \in Nat /\ s[k].ver \in Nat
<1>1. Len(s) \in Nat /\ \A k \in 1 .. Len(s) : s[k] \in Packets
  OBVIOUS
<1> QED
  BY <1>1, PacketIs

LEMMA FreshStep ==
  ASSUME Sound, Freshes, [Next]_vars, NEW d \in Channels
  PROVE  Fresh(d)'
<1>1. TypeOK /\ Fresh(d) /\ TypeOK'
  BY TypeStep DEF Sound, Freshes
<1>2. tx[d] \in Seq(Packets) /\ s2c[d] \in Seq(Packets)
  BY <1>1, ChannelIs
<1>3. /\ Len(tx[d]) \in Nat
      /\ \A k \in 1 .. Len(tx[d]) : tx[d][k] \in Packets /\ tx[d][k].n \in Nat /\ tx[d][k].ver \in Nat
  BY <1>2, Elements
<1>4. /\ Len(s2c[d]) \in Nat
      /\ \A k \in 1 .. Len(s2c[d]) :
           s2c[d][k] \in Packets /\ s2c[d][k].n \in Nat /\ s2c[d][k].ver \in Nat
  BY <1>2, Elements
<1>5. Current /\ Len(applied) \in Nat
  BY DEF Sound, TypeOK
<1>6. CASE UNCHANGED <<tx, s2c, applied>>
  BY <1>1, <1>6 DEF Fresh, Right
<1>7. ASSUME NEW c \in Channels, Receive(c)
      PROVE  Fresh(d)'
  <2>1. UNCHANGED <<tx, applied>>
    BY <1>1, <1>7, ReceiveEffect DEF server
  <2>2. CASE d = c
    <3>1. s2c[d] # <<>> /\ s2c'[d] = Tail(s2c[d])
      BY <1>1, <1>7, <2>2, ReceiveEffect
    <3>2. /\ Len(s2c[d]) \in Nat \ {0} /\ Len(s2c'[d]) = Len(s2c[d]) - 1
          /\ \A k \in 1 .. Len(s2c[d]) - 1 : s2c'[d][k] = s2c[d][k + 1]
      BY <1>2, <3>1, Rest
    <3>3. \A k \in 1 .. Len(s2c'[d]) : k + 1 \in 1 .. Len(s2c[d]) /\ s2c'[d][k] = s2c[d][k + 1]
      BY <3>2
    <3>4. ASSUME NEW j \in 1 .. Len(s2c'[d]), NEW k \in 1 .. Len(s2c'[d]), j < k
          PROVE  s2c'[d][j].ver <= s2c'[d][k].ver
      <4>1. j + 1 \in 1 .. Len(s2c[d]) /\ k + 1 \in 1 .. Len(s2c[d]) /\ j + 1 < k + 1
        BY <3>2, <3>3, <3>4
      <4>2. s2c[d][j + 1].ver <= s2c[d][k + 1].ver
        BY <1>1, <4>1 DEF Fresh
      <4> QED
        BY <3>3, <4>2
    <3>5. /\ \A k \in 1 .. Len(s2c'[d]) : Right(s2c[d][k])'
          /\ \A j \in 1 .. Len(s2c'[d]), k \in 1 .. Len(tx[d]) : s2c'[d][j].ver <= tx[d][k].ver
      BY <1>1, <2>1, <3>3 DEF Fresh, Right
    <3> QED
      BY <1>1, <2>1, <3>4, <3>5 DEF Fresh, Right
  <2>3. CASE d # c
    <3>1. s2c'[d] = s2c[d]
      BY <1>1, <1>7, <2>3, ReceiveEffect
    <3> QED
      BY <1>1, <2>1, <3>1 DEF Fresh, Right
  <2> QED
    BY <2>2, <2>3
<1>8. ASSUME NEW c \in Channels, Close(c)
      PROVE  Fresh(d)'
  <2>1. UNCHANGED <<tx, applied>> /\ (s2c'[d] = s2c[d] \/ s2c'[d] = <<>>)
    BY <1>1, <1>8, CloseEffect DEF server
  <2> QED
    BY <1>1, <2>1 DEF Fresh, Right
<1>9. ASSUME NEW c \in Channels, SendOut(c)
      PROVE  Fresh(d)'
  <2>1. UNCHANGED <<tx, applied>>
    BY <1>9, SendOutEffect DEF main
  <2>2. CASE d = c
    <3> DEFINE l == Len(s2c[d])
               m == Len(tx[d])
    <3>1. /\ m > 0 /\ Len(s2c'[d]) = l + 1 /\ s2c'[d][l + 1] = tx[d][m]
          /\ \A k \in 1 .. l : s2c'[d][k] = s2c[d][k]
      BY <1>9, <2>2, SendOutEffect
    <3>2. l \in Nat /\ m \in Nat
      BY <1>3, <1>4
    <3> HIDE DEF l, m
    <3>3. \A k \in 1 .. l + 1 : k \in 1 .. l \/ k = l + 1
      BY <3>2
    <3>4. m \in 1 .. m /\ \A k \in 1 .. m : tx[d][m].ver <= tx[d][k].ver
      BY <1>1, <1>3, <3>1, <3>2 DEF Fresh, m
    <3>5. \A k \in 1 .. l + 1 : Right(s2c'[d][k])
      BY <1>1, <3>1, <3>3, <3>4 DEF Fresh, l, m
    <3>6. \A j, k \in 1 .. l + 1 : j < k => s2c'[d][j].ver <= s2c'[d][k].ver
      <4>1. ASSUME NEW j \in 1 .. l + 1, NEW k \in 1 .. l + 1, j < k
            PROVE  s2c'[d][j].ver <= s2c'[d][k].ver
        <5>1. j \in 1 .. l /\ s2c'[d][j] = s2c[d][j]
          BY <3>1, <3>2, <4>1
        <5>2. CASE k \in 1 .. l
          BY <1>1, <3>1, <4>1, <5>1, <5>2 DEF Fresh, l
        <5>3. CASE k = l + 1
          BY <1>1, <3>1, <3>4, <5>1, <5>3 DEF Fresh, l, m
        <5> QED
          BY <3>3, <5>2, <5>3
      <4> QED
        BY <4>1
    <3>7. \A j \in 1 .. l + 1, k \in 1 .. m : s2c'[d][j].ver <= tx[d][k].ver
      BY <1>1, <3>1, <3>3, <3>4 DEF Fresh, l, m
    <3> QED
      BY <1>1, <2>1, <3>1, <3>5, <3>6, <3>7 DEF Fresh, Right, m
  <2>3. CASE d # c
    <3>1. s2c'[d] = s2c[d]
      BY <1>9, <2>3, SendOutEffect
    <3> QED
      BY <1>1, <2>1, <3>1 DEF Fresh, Right
  <2> QED
    BY <2>2, <2>3
<1>10. ASSUME NEW c \in Channels, RemoveSent(c)
       PROVE  Fresh(d)'
  <2>1. UNCHANGED <<s2c, applied>>
    BY <1>10, RemoveSentEffect DEF main, wire
  <2>2. \A k \in 1 .. Len(tx'[d]) : k \in 1 .. Len(tx[d]) /\ tx'[d][k] = tx[d][k]
    BY <1>3, <1>10, RemoveSentEffect
  <2> QED
    BY <1>1, <2>1, <2>2 DEF Fresh, Right
<1>11. ASSUME HandleReq \/ HandleDbg
       PROVE  Fresh(d)'
  <2>1. UNCHANGED <<s2c, applied>>
    BY <1>11, AnswerEffect DEF wire
  <2>2. CASE d = turn
    <3> DEFINE m == Len(tx[d])
               a == Len(applied)
               p == tx'[d][1]
    <3>1. /\ Len(tx'[d]) = m + 1 /\ \A k \in 1 .. m : tx'[d][k + 1] = tx[d][k]
          /\ p.asOf = hand.asOf /\ p.ver = a
          /\ p.dac = "RES" => p.cfg = cfg
          /\ hand \in Packets /\ Command(hand)
      BY <1>11, <2>2, AnswerEffect
    <3>2. Right(p)
      BY <1>5, <3>1, PacketIs DEF Right, Command, Current
    <3>3. m \in Nat /\ a \in Nat
      BY <1>3, <1>5
    <3>4. /\ \A k \in 1 .. m : tx[d][k].ver <= a
          /\ \A k \in 1 .. Len(s2c[d]) : s2c[d][k].ver <= a
      BY <1>1 DEF Fresh, Right
    <3>5. p = tx'[d][1]
      OBVIOUS
    <3> HIDE DEF m, a, p
    <3>6. \A k \in 1 .. m + 1 : (k = 1 /\ tx'[d][k] = p) \/ (k - 1 \in 1 .. m /\ tx'[d][k] = tx[d][k - 1])
      <4>1. ASSUME NEW k \in 1 .. m + 1, k # 1
            PROVE  k - 1 \in 1 .. m /\ tx'[d][k] = tx[d][k - 1]
        <5>1. k - 1 \in 1 .. m /\ (k - 1) + 1 = k
          BY <3>3, <4>1
        <5> QED
          BY <3>1, <5>1
      <4> QED
        BY <3>5, <4>1
    <3>7. \A k \in 1 .. m + 1 : Right(tx'[d][k])
      BY <1>1, <3>2, <3>6 DEF Fresh, m
    <3>8. \A j, k \in 1 .. m + 1 : j < k => tx'[d][k].ver <= tx'[d][j].ver
      <4>1. ASSUME NEW j \in 1 .. m + 1, NEW k \in 1 .. m + 1, j < k
            PROVE  tx'[d][k].ver <= tx'[d][j].ver
        <5>1. k - 1 \in 1 .. m /\ tx'[d][k] = tx[d][k - 1]
          BY <3>3, <3>6, <4>1
        <5>2. CASE j = 1
          BY <3>1, <3>4, <3>5, <5>1, <5>2
        <5>3. CASE j # 1
          <6>1. j - 1 \in 1 .. m /\ tx'[d][j] = tx[d][j - 1] /\ j - 1 < k - 1
            BY <3>3, <3>6, <4>1, <5>3
          <6> QED
            BY <1>1, <5>1, <6>1 DEF Fresh, m
        <5> QED
          BY <5>2, <5>3
      <4> QED
        BY <4>1
    <3>9. \A j \in 1 .. Len(s2c[d]), k \in 1 .. m + 1 : s2c[d][j].ver <= tx'[d][k].ver
      BY <1>1, <3>1, <3>4, <3>6 DEF Fresh, m
    <3> QED
      BY <1>1, <2>1, <3>1, <3>7, <3>8, <3>9 DEF Fresh, Right
  <2>3. CASE d # turn
    <3>1. tx'[d] = tx[d]
      BY <1>11, <2>3, AnswerEffect
    <3> QED
      BY <1>1, <2>1, <3>1 DEF Fresh, Right
  <2> QED
    BY <2>2, <2>3
<1>12. ASSUME HandleMdfy
       PROVE  Fresh(d)'
  <2>1. /\ UNCHANGED <<tx, s2c>> /\ Len(applied') = Len(applied) + 1
        /\ \A k \in 1 .. Len(applied) : applied'[k] = applied[k]
    BY <1>12, MdfyEffect DEF wire
  <2>2. ASSUME NEW p \in Packets, Right(p)
        PROVE  Right(p)'
    <3>1. p.ver \in Nat
      BY PacketIs
    <3> QED
      BY <1>5, <2>1, <2>2, <3>1 DEF Right
  <2>3. /\ \A k \in 1 .. Len(tx[d]) : Right(tx[d][k])'
        /\ \A k \in 1 .. Len(s2c[d]) : Right(s2c[d][k])'
    BY <1>1, <1>3, <1>4, <2>1, <2>2 DEF Fresh
  <2> QED
    BY <1>1, <2>1, <2>3 DEF Fresh
<1>13. ASSUME Restart
       PROVE  Fresh(d)'
  <2>1. tx'[d] = <<>> /\ s2c'[d] = s2c[d] /\ ~ open[d]
    BY <1>1, <1>13, RestartEffect
  <2>2. s2c'[d] = <<>>
    BY <2>1 DEF Sound, Links
  <2> QED
    BY <2>1, <2>2 DEF Fresh
<1> QED
  BY <1>6, <1>7, <1>8, <1>9, <1>10, <1>11, <1>12, <1>13
     DEF Next, Client, Manager, Main, Connect, Send, Accept, RecvData, RecvNothing, RecvClosed,
         Push, Peek, Check, SendFull, SendBroken, MainBack, MainSkip, MdfyOpen, MdfyWrite,
         RemoveHandled, vars, server, main, client, wire

\* What is on its way to a client, element by element.
LEMMA AnswerAt ==
  ASSUME Sound, NEW c \in Channels
  PROVE  \E m \in Nat :
           /\ m = IF mpc[c] = "remove" THEN Len(tx[c]) - 1 ELSE Len(tx[c])
           /\ Answers(c) \in Seq(Packets) /\ Len(Answers(c)) = Len(s2c[c]) + m
           /\ \A k \in 1 .. Len(s2c[c]) : Answers(c)[k] = s2c[c][k]
           /\ \A k \in 1 .. m : Answers(c)[k + Len(s2c[c])] = tx[c][(m - k) + 1]
<1> DEFINE t == IF mpc[c] = "remove" THEN Front(tx[c]) ELSE tx[c]
           s == s2c[c]
<1>1. tx[c] \in Seq(Packets) /\ s \in Seq(Packets) /\ Len(tx[c]) \in Nat
  BY ChannelIs DEF Sound
<1>2. mpc[c] = "remove" => Len(tx[c]) > 0
  BY DEF Sound, Holds
<1>3. /\ t \in Seq(Packets)
      /\ Len(t) = IF mpc[c] = "remove" THEN Len(tx[c]) - 1 ELSE Len(tx[c])
      /\ \A k \in 1 .. Len(t) : t[k] = tx[c][k]
  BY <1>1, <1>2, Fronts
<1>4. Answers(c) = s \o Reverse(t)
  BY DEF Answers
<1> HIDE DEF t, s
<1>5. /\ Reverse(t) \in Seq(Packets) /\ Len(Reverse(t)) = Len(t)
      /\ \A k \in 1 .. Len(t) : Reverse(t)[k] = t[(Len(t) - k) + 1]
  BY <1>3, Reversed
<1> DEFINE r == Reverse(t)
           m == Len(t)
<1>6. m \in Nat
  BY <1>3
<1> HIDE DEF r
<1>7. /\ s \o r \in Seq(Packets) /\ Len(s \o r) = Len(s) + Len(r)
      /\ \A k \in 1 .. Len(s) : (s \o r)[k] = s[k]
      /\ \A k \in 1 .. Len(r) : (s \o r)[k + Len(s)] = r[k]
  <2>1. r \in Seq(Packets)
    BY <1>5 DEF r
  <2> QED
    BY <1>1, <2>1, After
<1> HIDE DEF m
<1>8. \A k \in 1 .. m : (m - k) + 1 \in 1 .. m
  BY <1>6
<1>9. \A k \in 1 .. m : (s \o r)[k + Len(s)] = tx[c][(m - k) + 1]
  BY <1>3, <1>5, <1>7, <1>8 DEF r, m
<1>10. Answers(c) \in Seq(Packets) /\ Len(Answers(c)) = Len(s) + m
  BY <1>4, <1>5, <1>7 DEF r, m
<1>11. \A k \in 1 .. Len(s) : Answers(c)[k] = s[k]
  BY <1>4, <1>7 DEF r
<1>12. \A k \in 1 .. m : Answers(c)[k + Len(s)] = tx[c][(m - k) + 1]
  BY <1>4, <1>9 DEF r
<1>13. m = IF mpc[c] = "remove" THEN Len(tx[c]) - 1 ELSE Len(tx[c])
  BY <1>3 DEF m
<1> QED
  BY <1>6, <1>10, <1>11, <1>12, <1>13 DEF s

LEMMA FreshAnswers ==
  ASSUME Sound, Freshes
  PROVE  AnswersAreFresh
<1> SUFFICES ASSUME NEW c \in Channels
             PROVE  \A k \in 1 .. Len(Answers(c)) :
                      /\ Answers(c)[k].asOf <= Answers(c)[k].ver
                      /\ Answers(c)[k].ver <= Len(applied)
                      /\ Answers(c)[k].dac = "RES" => Answers(c)[k].cfg = applied[Answers(c)[k].ver]
                      /\ k > 1 => Answers(c)[k - 1].ver <= Answers(c)[k].ver
  BY DEF AnswersAreFresh
<1> DEFINE a == Answers(c)
           l == Len(s2c[c])
<1>1. PICK m \in Nat :
        /\ m = IF mpc[c] = "remove" THEN Len(tx[c]) - 1 ELSE Len(tx[c])
        /\ a \in Seq(Packets) /\ Len(a) = l + m
        /\ \A k \in 1 .. l : a[k] = s2c[c][k]
        /\ \A k \in 1 .. m : a[k + l] = tx[c][(m - k) + 1]
  BY AnswerAt
<1>2. l \in Nat /\ Len(tx[c]) \in Nat
  BY ChannelIs DEF Sound
<1>3. Fresh(c)
  BY DEF Freshes
<1> HIDE DEF a, l
<1>4. \A k \in 1 .. m : (m - k) + 1 \in 1 .. Len(tx[c])
  BY <1>1, <1>2
<1>5. \A k \in 1 .. l + m : k \in 1 .. l \/ (k - l \in 1 .. m /\ (k - l) + l = k)
  BY <1>1, <1>2
<1>6. \A k \in 1 .. l + m :
        \/ k \in 1 .. l /\ a[k] = s2c[c][k]
        \/ k - l \in 1 .. m /\ a[k] = tx[c][(m - (k - l)) + 1]
  BY <1>1, <1>5
<1>7. \A k \in 1 .. l + m : Right(a[k])
  BY <1>3, <1>4, <1>6 DEF Fresh, l
<1>8. ASSUME NEW k \in 1 .. l + m, k > 1
      PROVE  a[k - 1].ver <= a[k].ver
  <2>1. k - 1 \in 1 .. l + m
    BY <1>1, <1>2, <1>8
  <2>2. CASE k \in 1 .. l
    <3>1. k - 1 \in 1 .. l /\ a[k] = s2c[c][k] /\ a[k - 1] = s2c[c][k - 1] /\ k - 1 < k
      BY <1>1, <1>2, <1>8, <2>2
    <3> QED
      BY <1>3, <2>2, <3>1 DEF Fresh, l
  <2>3. CASE k - l \in 1 .. m /\ k - 1 \in 1 .. l
    <3>1. a[k] = tx[c][(m - (k - l)) + 1] /\ a[k - 1] = s2c[c][k - 1]
      BY <1>1, <1>2, <1>6, <2>3
    <3> QED
      BY <1>3, <1>4, <2>3, <3>1 DEF Fresh, l
  <2>4. CASE k - l \in 1 .. m /\ ~ k - 1 \in 1 .. l
    <3>1. (k - 1) - l \in 1 .. m /\ ((k - 1) - l) + l = k - 1
      BY <1>5, <2>1, <2>4
    <3> DEFINE x == (m - (k - l)) + 1
               y == (m - ((k - 1) - l)) + 1
    <3>2. a[k] = tx[c][x]
      <4>1. k \notin 1 .. l
        BY <1>1, <1>2, <2>4
      <4> QED
        BY <1>6, <4>1
    <3>3. a[k - 1] = tx[c][y]
      BY <1>6, <2>1, <2>4
    <3>4. x \in 1 .. Len(tx[c]) /\ y \in 1 .. Len(tx[c]) /\ x < y
      <4>1. m <= Len(tx[c])
        BY <1>1, <1>2
      <4> QED
        BY <1>1, <1>2, <2>4, <3>1, <4>1, SMTT(30)
    <3> HIDE DEF x, y
    <3> QED
      BY <1>3, <3>2, <3>3, <3>4 DEF Fresh
  <2> QED
    BY <1>5, <2>2, <2>3, <2>4
<1> QED
  BY <1>1, <1>7, <1>8 DEF Right, a

LEMMA FreshInit == Init => Freshes
  BY DEF Init, Each, Freshes, Fresh

LEMMA FreshNext == Sound /\ Freshes /\ [Next]_vars => Freshes'
<1> SUFFICES ASSUME Sound, Freshes, [Next]_vars
             PROVE  Freshes'
  OBVIOUS
<1>1. ASSUME NEW c \in Channels
      PROVE  Fresh(c)'
  BY FreshStep
<1> QED
  BY <1>1 DEF Freshes

\* Every answer on its way to a client holds what had been set when it was made,
\* at least what had been set when its request was sent, and no answer shows an
\* older configuration than the one before it.
THEOREM FreshAnswersOnly == Spec => []AnswersAreFresh
<1>1. Spec => []Freshes
  BY FreshInit, FreshNext, SoundReached, PTL DEF Spec
<1>2. Sound /\ Freshes => AnswersAreFresh
  BY FreshAnswers
<1> QED
  BY <1>1, <1>2, SoundReached, PTL

-----------------------------------------------------------------------------
(* The order of commands and answers.  The number of the command that main   *)
(* has handled last separates the answers from what is still to be handled.  *)

\* The answers belong to commands up to the last one handled; the one that has
\* been sent and is still in the list is the last in it.
AnswerOrder(c) ==
  /\ \A k \in 1 .. Len(tx[c])  : tx[c][k].n <= handled[c]
  /\ \A k \in 1 .. Len(s2c[c]) : s2c[c][k].n <= handled[c]
  /\ \A j, k \in 1 .. Len(tx[c])  : j < k => tx[c][k].n < tx[c][j].n
  /\ \A j, k \in 1 .. Len(s2c[c]) : j < k => s2c[c][j].n < s2c[c][k].n
  /\ \A j \in 1 .. Len(s2c[c]), k \in 1 .. Len(tx[c]) :
       s2c[c][j].n < tx[c][k].n \/ (mpc[c] = "remove" /\ k = Len(tx[c]))

\* The commands in the list come after it, except the one in main's hand ...
ListOrder(c) ==
  /\ handled[c] <= sent[c]
  /\ \A k \in 1 .. Len(rx[c]) : rx[c][k].n <= sent[c]
  /\ \A k \in 1 .. Len(rx[c]) : handled[c] < rx[c][k].n \/ (Handled(c) /\ k = Len(rx[c]))
  /\ \A j, k \in 1 .. Len(rx[c]) : j < k => rx[c][k].n < rx[c][j].n

\* ... then the one the manager is about to add to the list ...
ReadOrder(c) ==
  in[c] # None =>
    /\ handled[c] < in[c].n /\ in[c].n <= sent[c]
    /\ \A k \in 1 .. Len(rx[c]) : rx[c][k].n < in[c].n

\* ... and then what is under way, connection after connection.
WireOrder(c) ==
  /\ \A e \in 1 .. MaxConn[c] : \A j \in 1 .. Len(c2s[c][e]) :
       /\ handled[c] < c2s[c][e][j].n /\ c2s[c][e][j].n <= sent[c]
       /\ in[c] # None => in[c].n < c2s[c][e][j].n
       /\ \A k \in 1 .. Len(rx[c]) : rx[c][k].n < c2s[c][e][j].n
  /\ \A e, f \in 1 .. MaxConn[c] : \A j \in 1 .. Len(c2s[c][e]), k \in 1 .. Len(c2s[c][f]) :
       e < f \/ (e = f /\ j < k) => c2s[c][e][j].n < c2s[c][f][k].n

CommandOrder(c) == ListOrder(c) /\ ReadOrder(c) /\ WireOrder(c)

Order == \A c \in Channels : AnswerOrder(c) /\ CommandOrder(c)

\* Main has handled a command from the moment it starts to write its answer, or
\* its configuration, until it removes the command.
LEMMA HandledStep ==
  ASSUME Sound, [Next]_vars, NEW d \in Channels,
         ~ HandleReq, ~ HandleDbg, ~ HandleMdfy, ~ RemoveHandled, ~ Restart
  PROVE  Handled(d)' <=> Handled(d)
<1>1. CASE UNCHANGED <<cpc, turn>>
  BY <1>1 DEF Handled
<1>2. CASE MainBack
  BY <1>2 DEF MainBack, AtMain, Handled
<1>3. CASE MainSkip
  BY <1>3 DEF MainSkip, NextTurn, AtMain, Handled
<1>4. CASE MdfyOpen \/ MdfyWrite
  BY <1>4 DEF MdfyOpen, MdfyWrite, AtMain, Handled
<1>5. ASSUME NEW c \in Channels, Client(c)
      PROVE  UNCHANGED <<cpc, turn>>
  BY <1>5, SMTT(30) DEF Client, Connect, Send, Receive, Close, server, main
<1>6. ASSUME NEW c \in Channels, Manager(c)
      PROVE  UNCHANGED <<cpc, turn>>
  BY <1>6, ManagerLeavesMain
<1>7. ASSUME UNCHANGED vars
      PROVE  UNCHANGED <<cpc, turn>>
  BY <1>7 DEF vars, server, main
<1> QED
  BY <1>1, <1>2, <1>3, <1>4, <1>5, <1>6, <1>7, ZenonT(30) DEF Next, Main

\* The command main is about to handle comes after every one it has handled.
LEMMA HandleNext ==
  ASSUME Sound, Order, HandleReq \/ HandleDbg \/ HandleMdfy
  PROVE  /\ turn \in Channels /\ hand.n \in Nat
         /\ handled[turn] < hand.n /\ hand.n <= sent[turn]
         /\ handled'[turn] = hand.n
         /\ ~ Handled(turn) /\ Handled(turn)'
         /\ Len(rx[turn]) \in Nat \ {0} /\ rx[turn][Len(rx[turn])] = hand
         /\ \A d \in Channels : d # turn => handled'[d] = handled[d] /\ ~ Handled(d) /\ ~ Handled(d)'
         /\ UNCHANGED <<rx, in, c2s, sent, mpc, s2c>>
<1>1. cpc = "check" /\ cpc' \in {"fopen", "remove"} /\ turn' = turn
  BY DEF HandleReq, HandleDbg, HandleMdfy, Handling, AtMain, Done
<1>2. /\ turn \in Channels /\ hand \in Packets
      /\ Len(rx[turn]) \in Nat \ {0} /\ rx[turn][Len(rx[turn])] = hand
      /\ handled'[turn] = hand.n /\ \A d \in Channels : d # turn => handled'[d] = handled[d]
  BY AnswerEffect, MdfyEffect
<1>3. ~ Handled(turn) /\ Handled(turn)' /\ \A d \in Channels : d # turn => ~ Handled(d) /\ ~ Handled(d)'
  BY <1>1 DEF Handled
<1>4. hand.n \in Nat
  BY <1>2, PacketIs
<1>5. Len(rx[turn]) \in 1 .. Len(rx[turn])
  BY <1>2
<1>6. handled[turn] < hand.n /\ hand.n <= sent[turn]
  BY <1>2, <1>3, <1>5 DEF Order, CommandOrder, ListOrder
<1>7. UNCHANGED <<rx, in, c2s, sent, mpc, s2c>>
  BY DEF HandleReq, HandleDbg, HandleMdfy, manager, client, wire
<1> QED
  BY <1>2, <1>3, <1>4, <1>6, <1>7

\* What the types say of the elements of the queues of a channel.
LEMMA NumbersAre ==
  ASSUME TypeOK, NEW c \in Channels
  PROVE  /\ \A k \in 1 .. Len(rx[c]) : rx[c][k].n \in Nat
         /\ \A k \in 1 .. Len(tx[c]) : tx[c][k].n \in Nat
         /\ \A k \in 1 .. Len(s2c[c]) : s2c[c][k].n \in Nat
         /\ in[c] # None => in[c].n \in Nat
         /\ \A e \in 1 .. MaxConn[c] : \A k \in 1 .. Len(c2s[c][e]) : c2s[c][e][k].n \in Nat
<1>1. /\ rx[c] \in Seq(Packets) /\ tx[c] \in Seq(Packets) /\ s2c[c] \in Seq(Packets)
      /\ \A e \in 1 .. MaxConn[c] : c2s[c][e] \in Seq(Packets)
  BY ChannelIs
<1>2. in[c] # None => in[c] \in Packets
  BY DEF TypeOK
<1> QED
  BY <1>1, <1>2, Elements, PacketIs

LEMMA AnswerOrderStep ==
  ASSUME Sound, Order, [Next]_vars, NEW d \in Channels
  PROVE  AnswerOrder(d)'
<1>1. TypeOK /\ AnswerOrder(d)
  BY DEF Sound, Order
<1>2. Len(tx[d]) \in Nat /\ Len(s2c[d]) \in Nat /\ handled[d] \in Nat
  BY <1>1, ChannelIs
<1>3. /\ \A k \in 1 .. Len(tx[d]) : tx[d][k].n \in Nat
      /\ \A k \in 1 .. Len(s2c[d]) : s2c[d][k].n \in Nat
  BY <1>1, NumbersAre
<1>4. CASE /\ UNCHANGED <<tx, s2c, handled>>
           /\ mpc'[d] = "remove" <=> mpc[d] = "remove"
  BY <1>1, <1>4 DEF AnswerOrder
<1>5. ASSUME NEW c \in Channels,
             Accept(c) \/ RecvData(c) \/ RecvNothing(c) \/ RecvClosed(c) \/ Push(c)
             \/ Peek(c) \/ Check(c) \/ SendFull(c)
      PROVE  AnswerOrder(d)'
  <2>1. UNCHANGED <<tx, s2c, handled>>
    BY <1>5 DEF Accept, RecvData, RecvNothing, RecvClosed, Push, Peek, Check, SendFull, main, wire
  <2>2. PICK l \in {"recv", "push", "peek", "accept", "check", "send"} : mpc' = [mpc EXCEPT ![c] = l]
    BY <1>5 DEF Accept, RecvData, RecvNothing, RecvClosed, Push, Peek, Check, SendFull, Goto
  <2>3. mpc[c] # "remove"
    BY <1>5 DEF Accept, RecvData, RecvNothing, RecvClosed, Push, Peek, Check, SendFull, At
  <2>4. mpc'[d] = "remove" <=> mpc[d] = "remove"
    BY <1>1, <2>2, <2>3 DEF TypeOK
  <2> QED
    BY <1>4, <2>1, <2>4
<1>6. ASSUME NEW c \in Channels, Receive(c)
      PROVE  AnswerOrder(d)'
  <2>1. UNCHANGED <<tx, handled, mpc>>
    BY <1>1, <1>6, ReceiveEffect DEF server
  <2>2. CASE d = c
    <3>1. s2c[d] # <<>> /\ s2c'[d] = Tail(s2c[d]) /\ s2c[d] \in Seq(Packets)
      BY <1>1, <1>6, <2>2, ReceiveEffect, ChannelIs
    <3>2. /\ Len(s2c[d]) \in Nat \ {0} /\ Len(s2c'[d]) = Len(s2c[d]) - 1
          /\ \A k \in 1 .. Len(s2c[d]) - 1 : s2c'[d][k] = s2c[d][k + 1]
      BY <3>1, Rest
    <3>3. \A k \in 1 .. Len(s2c'[d]) : k + 1 \in 1 .. Len(s2c[d]) /\ s2c'[d][k] = s2c[d][k + 1]
      BY <3>2
    <3>4. ASSUME NEW j \in 1 .. Len(s2c'[d]), NEW k \in 1 .. Len(s2c'[d]), j < k
          PROVE  s2c'[d][j].n < s2c'[d][k].n
      <4>1. j + 1 \in 1 .. Len(s2c[d]) /\ k + 1 \in 1 .. Len(s2c[d]) /\ j + 1 < k + 1
        BY <3>2, <3>3, <3>4
      <4>2. s2c[d][j + 1].n < s2c[d][k + 1].n
        BY <1>1, <4>1 DEF AnswerOrder
      <4> QED
        BY <3>3, <4>2
    <3>5. /\ \A k \in 1 .. Len(s2c'[d]) : s2c'[d][k].n <= handled[d]
          /\ \A j \in 1 .. Len(s2c'[d]), k \in 1 .. Len(tx[d]) :
               s2c'[d][j].n < tx[d][k].n \/ (mpc[d] = "remove" /\ k = Len(tx[d]))
      BY <1>1, <3>3 DEF AnswerOrder
    <3> QED
      BY <1>1, <2>1, <3>4, <3>5 DEF AnswerOrder
  <2>3. CASE d # c
    <3>1. s2c'[d] = s2c[d]
      BY <1>1, <1>6, <2>3, ReceiveEffect
    <3> QED
      BY <1>1, <2>1, <3>1 DEF AnswerOrder
  <2> QED
    BY <2>2, <2>3
<1>7. ASSUME NEW c \in Channels, Close(c)
      PROVE  AnswerOrder(d)'
  <2>1. UNCHANGED <<tx, handled, mpc>> /\ (s2c'[d] = s2c[d] \/ s2c'[d] = <<>>)
    BY <1>1, <1>7, CloseEffect DEF server
  <2> QED
    BY <1>1, <2>1 DEF AnswerOrder
<1>8. ASSUME NEW c \in Channels, SendOut(c)
      PROVE  AnswerOrder(d)'
  <2>1. UNCHANGED <<tx, handled>>
    BY <1>8, SendOutEffect DEF main
  <2>2. CASE d = c
    <3> DEFINE l == Len(s2c[d])
               m == Len(tx[d])
    <3>1. /\ m > 0 /\ Len(s2c'[d]) = l + 1 /\ s2c'[d][l + 1] = tx[d][m]
          /\ \A k \in 1 .. l : s2c'[d][k] = s2c[d][k]
          /\ mpc[d] = "send" /\ mpc'[d] = "remove"
      BY <1>8, <2>2, SendOutEffect
    <3>2. l \in Nat /\ m \in Nat
      BY <1>2
    <3> HIDE DEF l, m
    <3>3. m \in 1 .. m /\ \A k \in 1 .. l + 1 : k \in 1 .. l \/ k = l + 1
      BY <3>1, <3>2
    <3>4. \A k \in 1 .. m : k # m => tx[d][m].n < tx[d][k].n
      BY <1>1, <3>2, <3>3 DEF AnswerOrder, m
    <3>5. \A j \in 1 .. l, k \in 1 .. m : s2c[d][j].n < tx[d][k].n
      BY <1>1, <3>1 DEF AnswerOrder, l, m
    <3>6. \A k \in 1 .. l + 1 : s2c'[d][k].n <= handled[d]
      BY <1>1, <3>1, <3>3 DEF AnswerOrder, l, m
    <3>7. ASSUME NEW j \in 1 .. l + 1, NEW k \in 1 .. l + 1, j < k
          PROVE  s2c'[d][j].n < s2c'[d][k].n
      <4>1. j \in 1 .. l /\ s2c'[d][j] = s2c[d][j]
        BY <3>1, <3>2, <3>7
      <4>2. CASE k \in 1 .. l
        BY <1>1, <3>1, <3>7, <4>1, <4>2 DEF AnswerOrder, l
      <4>3. CASE k = l + 1
        BY <3>1, <3>3, <3>5, <4>1, <4>3
      <4> QED
        BY <3>3, <4>2, <4>3
    <3>8. \A j \in 1 .. l + 1, k \in 1 .. m : s2c'[d][j].n < tx[d][k].n \/ k = m
      BY <3>1, <3>3, <3>4, <3>5
    <3> QED
      BY <1>1, <2>1, <3>1, <3>6, <3>7, <3>8 DEF AnswerOrder, m
  <2>3. CASE d # c
    <3>1. s2c'[d] = s2c[d] /\ mpc'[d] = mpc[d]
      BY <1>8, <2>3, SendOutEffect
    <3> QED
      BY <1>1, <2>1, <3>1 DEF AnswerOrder
  <2> QED
    BY <2>2, <2>3
<1>9. ASSUME NEW c \in Channels, RemoveSent(c)
      PROVE  AnswerOrder(d)'
  <2>1. UNCHANGED <<s2c, handled>>
    BY <1>9, RemoveSentEffect DEF main, wire
  <2>2. CASE d = c
    <3>1. \A k \in 1 .. Len(tx'[d]) :
            k \in 1 .. Len(tx[d]) /\ k # Len(tx[d]) /\ tx'[d][k] = tx[d][k]
      BY <1>2, <1>9, <2>2, RemoveSentEffect
    <3> QED
      BY <1>1, <2>1, <3>1 DEF AnswerOrder
  <2>3. CASE d # c
    <3>1. tx'[d] = tx[d] /\ mpc'[d] = mpc[d]
      BY <1>9, <2>3, RemoveSentEffect
    <3> QED
      BY <1>1, <2>1, <3>1 DEF AnswerOrder
  <2> QED
    BY <2>2, <2>3
<1>10. ASSUME HandleReq \/ HandleDbg
       PROVE  AnswerOrder(d)'
  <2>1. UNCHANGED <<s2c, mpc>>
    BY <1>10, HandleNext
  <2>2. CASE d = turn
    <3> DEFINE m == Len(tx[d])
               p == tx'[d][1]
    <3>1. /\ Len(tx'[d]) = m + 1 /\ \A k \in 1 .. m : tx'[d][k + 1] = tx[d][k]
          /\ p.n = hand.n
      BY <1>10, <2>2, AnswerEffect
    <3>2. handled'[d] = hand.n /\ handled[d] < hand.n /\ hand.n \in Nat
      BY <1>10, <2>2, HandleNext
    <3>3. m \in Nat /\ p = tx'[d][1]
      BY <1>2
    <3> HIDE DEF m, p
    <3>4. ASSUME NEW k \in 1 .. m + 1, k # 1
          PROVE  k - 1 \in 1 .. m /\ tx'[d][k] = tx[d][k - 1]
      <4>1. k - 1 \in 1 .. m /\ (k - 1) + 1 = k
        BY <3>3, <3>4
      <4> QED
        BY <3>1, <4>1
    <3>5. /\ \A k \in 1 .. m : tx[d][k].n < hand.n
          /\ \A k \in 1 .. Len(s2c[d]) : s2c[d][k].n < hand.n
      BY <1>1, <1>2, <1>3, <3>2 DEF AnswerOrder, m
    <3>6. \A k \in 1 .. m + 1 : tx'[d][k].n <= handled'[d]
      <4>1. ASSUME NEW k \in 1 .. m + 1
            PROVE  tx'[d][k].n <= handled'[d]
        <5>1. CASE k = 1
          BY <3>1, <3>2, <3>3, <5>1
        <5>2. CASE k # 1
          <6>1. k - 1 \in 1 .. m /\ tx'[d][k] = tx[d][k - 1]
            BY <3>4, <5>2
          <6>2. tx[d][k - 1].n \in Nat /\ tx[d][k - 1].n < hand.n
            BY <1>3, <3>5, <6>1 DEF m
          <6> QED
            BY <3>2, <6>1, <6>2
        <5> QED
          BY <5>1, <5>2
      <4> QED
        BY <4>1
    <3>7. \A k \in 1 .. Len(s2c[d]) : s2c[d][k].n <= handled'[d]
      BY <1>3, <3>2, <3>5
    <3>8. ASSUME NEW j \in 1 .. m + 1, NEW k \in 1 .. m + 1, j < k
          PROVE  tx'[d][k].n < tx'[d][j].n
      <4>1. k - 1 \in 1 .. m /\ tx'[d][k] = tx[d][k - 1]
        BY <3>3, <3>4, <3>8
      <4>2. CASE j = 1
        BY <3>1, <3>3, <3>5, <4>1, <4>2
      <4>3. CASE j # 1
        <5>1. j - 1 \in 1 .. m /\ tx'[d][j] = tx[d][j - 1] /\ j - 1 < k - 1
          BY <3>3, <3>4, <3>8, <4>3
        <5> QED
          BY <1>1, <4>1, <5>1 DEF AnswerOrder, m
      <4> QED
        BY <4>2, <4>3
    <3>9. ASSUME NEW j \in 1 .. Len(s2c[d]), NEW k \in 1 .. m + 1
          PROVE  s2c[d][j].n < tx'[d][k].n \/ (mpc[d] = "remove" /\ k = m + 1)
      <4>1. CASE k = 1
        BY <3>1, <3>3, <3>5, <4>1
      <4>2. CASE k # 1
        <5>1. k - 1 \in 1 .. m /\ tx'[d][k] = tx[d][k - 1] /\ (k - 1 = m => k = m + 1)
          BY <3>3, <3>4, <4>2
        <5> QED
          BY <1>1, <5>1 DEF AnswerOrder, m
      <4> QED
        BY <4>1, <4>2
    <3>10. Len(tx'[d]) = m + 1 /\ s2c'[d] = s2c[d] /\ mpc'[d] = mpc[d]
      BY <2>1, <3>1
    <3>11. \A j, k \in 1 .. m + 1 : j < k => tx'[d][k].n < tx'[d][j].n
      BY <3>8
    <3>12. \A j, k \in 1 .. Len(s2c[d]) : j < k => s2c[d][j].n < s2c[d][k].n
      BY <1>1 DEF AnswerOrder
    <3>13. \A j \in 1 .. Len(s2c[d]), k \in 1 .. m + 1 :
             s2c[d][j].n < tx'[d][k].n \/ (mpc[d] = "remove" /\ k = m + 1)
      BY <3>9
    <3> QED
      BY <3>6, <3>7, <3>10, <3>11, <3>12, <3>13 DEF AnswerOrder
  <2>3. CASE d # turn
    <3>1. tx'[d] = tx[d] /\ handled'[d] = handled[d]
      BY <1>10, <2>3, AnswerEffect
    <3> QED
      BY <1>1, <2>1, <3>1 DEF AnswerOrder
  <2> QED
    BY <2>2, <2>3
<1>11. ASSUME HandleMdfy
       PROVE  AnswerOrder(d)'
  <2>1. UNCHANGED <<tx, s2c, mpc>>
    BY <1>11, HandleNext DEF HandleMdfy
  <2>2. handled'[d] \in Nat /\ handled[d] <= handled'[d]
    BY <1>2, <1>11, HandleNext
  <2> QED
    BY <1>1, <1>2, <1>3, <2>1, <2>2 DEF AnswerOrder
<1>12. ASSUME Restart
       PROVE  AnswerOrder(d)'
  <2>1. tx'[d] = <<>> /\ s2c'[d] = s2c[d] /\ ~ open[d]
    BY <1>1, <1>12, RestartEffect
  <2>2. s2c'[d] = <<>>
    BY <2>1 DEF Sound, Links
  <2> QED
    BY <2>1, <2>2 DEF AnswerOrder
<1> QED
  BY <1>4, <1>5, <1>6, <1>7, <1>8, <1>9, <1>10, <1>11, <1>12
     DEF Next, Client, Manager, Main, Connect, Send, SendBroken, MainBack, MainSkip, MdfyOpen,
         MdfyWrite, RemoveHandled, vars, server, manager, client, wire

\* A step that leaves the commands of a channel alone.
LEMMA OrderKept ==
  ASSUME NEW d \in Channels, CommandOrder(d),
         rx'[d] = rx[d], in'[d] = in[d], c2s'[d] = c2s[d], sent'[d] = sent[d],
         handled'[d] = handled[d], Handled(d)' <=> Handled(d)
  PROVE  CommandOrder(d)'
  BY DEF CommandOrder, ListOrder, ReadOrder, WireOrder

LEMMA SendOrder ==
  ASSUME Sound, Order, NEW d \in Channels, Send(d)
  PROVE  CommandOrder(d)'
<1>1. TypeOK /\ CommandOrder(d) /\ Links(d)
  BY DEF Sound, Order
<1> DEFINE s == sent[d]
           g == ce[d]
           q == c2s[d][g]
<1>2. /\ g \in 1 .. MaxConn[d] /\ open[d]
      /\ \A e \in 1 .. MaxConn[d] : e # g => c2s'[d][e] = c2s[d][e]
      /\ sent'[d] = s + 1
      /\ UNCHANGED <<rx, in, handled, cpc, turn>>
  BY <1>1, SendEffect DEF server
<1>3. PICK p \in Packets : p.n = s + 1 /\ c2s'[d][g] = Append(q, p)
  BY SendEffect
<1>4. s \in Nat /\ handled[d] \in Nat /\ q \in Seq(Packets) /\ Len(q) \in Nat
  BY <1>1, <1>2, ChannelIs
<1>5. /\ \A k \in 1 .. Len(rx[d]) : rx[d][k].n \in Nat
      /\ in[d] # None => in[d].n \in Nat
      /\ \A e \in 1 .. MaxConn[d] : \A k \in 1 .. Len(c2s[d][e]) : c2s[d][e][k].n \in Nat
  BY <1>1, NumbersAre
<1>6. /\ Len(c2s'[d][g]) = Len(q) + 1 /\ c2s'[d][g][Len(q) + 1] = p
      /\ \A k \in 1 .. Len(q) : c2s'[d][g][k] = q[k]
  BY <1>3, <1>4, Behind
<1>7. Handled(d)' <=> Handled(d)
  BY <1>2 DEF Handled
<1> HIDE DEF s, g
<1>8. ListOrder(d)'
  <2>1. /\ handled[d] <= s /\ \A k \in 1 .. Len(rx[d]) : rx[d][k].n <= s
        /\ \A k \in 1 .. Len(rx[d]) : handled[d] < rx[d][k].n \/ (Handled(d) /\ k = Len(rx[d]))
        /\ \A j, k \in 1 .. Len(rx[d]) : j < k => rx[d][k].n < rx[d][j].n
    BY <1>1 DEF CommandOrder, ListOrder, s
  <2>2. handled[d] <= s + 1 /\ \A k \in 1 .. Len(rx[d]) : rx[d][k].n <= s + 1
    BY <1>4, <1>5, <2>1
  <2>3. rx'[d] = rx[d] /\ sent'[d] = s + 1 /\ handled'[d] = handled[d]
    BY <1>2
  <2> QED
    BY <1>7, <2>1, <2>2, <2>3 DEF ListOrder
<1>9. ReadOrder(d)'
  BY <1>1, <1>2, <1>4, <1>5 DEF CommandOrder, ReadOrder, s
\* A command under way is one that was under way, or the new one.
<1>10. ASSUME NEW e \in 1 .. MaxConn[d], NEW j \in 1 .. Len(c2s'[d][e])
       PROVE  \/ j \in 1 .. Len(c2s[d][e]) /\ c2s'[d][e][j] = c2s[d][e][j]
              \/ e = g /\ j = Len(q) + 1 /\ c2s'[d][e][j] = p
  <2>1. CASE e # g
    BY <1>2, <2>1
  <2>2. CASE e = g
    <3>1. j \in 1 .. Len(q) \/ j = Len(q) + 1
      BY <1>4, <1>6, <2>2
    <3> QED
      BY <1>6, <2>2, <3>1
  <2> QED
    BY <2>1, <2>2
<1> HIDE DEF q
<1>11. ASSUME NEW e \in 1 .. MaxConn[d], NEW j \in 1 .. Len(c2s'[d][e])
       PROVE  /\ handled[d] < c2s'[d][e][j].n /\ c2s'[d][e][j].n <= s + 1
              /\ in[d] # None => in[d].n < c2s'[d][e][j].n
              /\ \A k \in 1 .. Len(rx[d]) : rx[d][k].n < c2s'[d][e][j].n
  <2>1. CASE c2s'[d][e][j] = p
    <3>1. /\ handled[d] <= s /\ \A k \in 1 .. Len(rx[d]) : rx[d][k].n <= s
          /\ in[d] # None => in[d].n <= s
      BY <1>1 DEF CommandOrder, ListOrder, ReadOrder, s
    <3>2. /\ handled[d] < s + 1 /\ \A k \in 1 .. Len(rx[d]) : rx[d][k].n < s + 1
          /\ in[d] # None => in[d].n < s + 1
          /\ s + 1 <= s + 1
      BY <1>4, <1>5, <3>1, SMTT(30)
    <3> QED
      BY <1>3, <2>1, <3>2
  <2>2. CASE j \in 1 .. Len(c2s[d][e]) /\ c2s'[d][e][j] = c2s[d][e][j]
    <3> DEFINE x == c2s[d][e][j]
    <3>1. /\ handled[d] < x.n /\ x.n <= s /\ x.n \in Nat
          /\ in[d] # None => in[d].n < x.n
          /\ \A k \in 1 .. Len(rx[d]) : rx[d][k].n < x.n
      BY <1>1, <1>5, <2>2 DEF CommandOrder, WireOrder, s
    <3> HIDE DEF x
    <3>2. x.n <= s + 1
      BY <1>4, <3>1
    <3> QED
      BY <2>2, <3>1, <3>2 DEF x
  <2> QED
    BY <1>10, <2>1, <2>2
<1>12. \A f \in 1 .. MaxConn[d] : f > g => Len(c2s[d][f]) = 0
  BY <1>1 DEF Links, g
<1>13. ASSUME NEW e \in 1 .. MaxConn[d], NEW f \in 1 .. MaxConn[d],
              NEW j \in 1 .. Len(c2s'[d][e]), NEW k \in 1 .. Len(c2s'[d][f]),
              e < f \/ (e = f /\ j < k)
       PROVE  c2s'[d][e][j].n < c2s'[d][f][k].n
  <2>1. MaxConn[d] \in Nat
    BY <1>1, ChannelIs
  <2>2. CASE k \in 1 .. Len(c2s[d][f]) /\ c2s'[d][f][k] = c2s[d][f][k]
    <3>1. j \in 1 .. Len(c2s[d][e]) /\ c2s'[d][e][j] = c2s[d][e][j]
      <4>1. CASE e = g /\ j = Len(q) + 1
        <5>1. f > g \/ (f = g /\ k > Len(q) + 1)
          BY <1>2, <1>13, <2>1, <4>1
        <5>2. k <= Len(c2s[d][f]) /\ 1 <= k
          BY <2>2
        <5> QED
          BY <1>4, <1>12, <5>1, <5>2 DEF q
      <4> QED
        BY <1>10, <4>1
    <3> QED
      BY <1>1, <1>13, <2>2, <3>1 DEF CommandOrder, WireOrder
  <2>3. CASE f = g /\ k = Len(q) + 1 /\ c2s'[d][f][k] = p
    <3>1. j \in 1 .. Len(c2s[d][e]) /\ c2s'[d][e][j] = c2s[d][e][j]
      BY <1>2, <1>4, <1>10, <1>13, <2>1, <2>3
    <3>2. c2s[d][e][j].n <= s /\ c2s[d][e][j].n \in Nat
      BY <1>1, <1>5, <3>1 DEF CommandOrder, WireOrder, s
    <3> QED
      <4>1. c2s[d][e][j].n < s + 1
        BY <1>4, <3>2
      <4> QED
        BY <1>3, <2>3, <3>1, <4>1
  <2> QED
    BY <1>10, <2>2, <2>3
<1>14. WireOrder(d)'
  <2>1. /\ handled'[d] = handled[d] /\ rx'[d] = rx[d] /\ in'[d] = in[d] /\ sent'[d] = s + 1
    BY <1>2
  <2> QED
    BY <1>11, <1>13, <2>1 DEF WireOrder
<1> QED
  BY <1>8, <1>9, <1>14 DEF CommandOrder

LEMMA RecvOrder ==
  ASSUME Sound, Order, NEW d \in Channels, RecvData(d)
  PROVE  CommandOrder(d)'
<1>1. TypeOK /\ CommandOrder(d) /\ Links(d)
  BY DEF Sound, Order
<1> DEFINE g == se[d]
           q == c2s[d][g]
<1>2. /\ g \in 1 .. MaxConn[d] /\ Len(q) > 0 /\ in'[d] = q[1] /\ in'[d] \in Packets
      /\ in[d] = None /\ c2s'[d][g] = <<>>
      /\ \A e \in 1 .. MaxConn[d] : e # g => c2s'[d][e] = c2s[d][e]
      /\ mpc[d] = "recv"
  BY RecvEffect
<1>3. UNCHANGED <<rx, sent, handled, cpc, turn>>
  BY RecvEffect DEF main, client
<1>4. MaxConn[d] \in Nat /\ Len(q) \in Nat
  BY <1>1, <1>2, ChannelIs
<1>5. 1 \in 1 .. Len(q)
  BY <1>2, <1>4
<1>6. Handled(d)' <=> Handled(d)
  BY <1>3 DEF Handled
<1>7. ListOrder(d)'
  BY <1>1, <1>3, <1>6 DEF CommandOrder, ListOrder
<1>8. ReadOrder(d)'
  BY <1>1, <1>2, <1>3, <1>5 DEF CommandOrder, WireOrder, ReadOrder
<1>9. ASSUME NEW e \in 1 .. MaxConn[d], NEW j \in 1 .. Len(c2s'[d][e])
      PROVE  /\ j \in 1 .. Len(c2s[d][e]) /\ c2s'[d][e][j] = c2s[d][e][j] /\ e > g
  <2>1. e # g /\ c2s'[d][e] = c2s[d][e]
    BY <1>2
  <2>2. Len(c2s[d][e]) # 0
    BY <2>1
  <2>3. ~ e < g
    BY <1>1, <2>2 DEF Links
  <2> QED
    BY <1>2, <1>4, <2>1, <2>3
<1> HIDE DEF g
<1>10. ASSUME NEW e \in 1 .. MaxConn[d], NEW j \in 1 .. Len(c2s'[d][e])
       PROVE  q[1].n < c2s'[d][e][j].n
  <2>1. j \in 1 .. Len(c2s[d][e]) /\ c2s'[d][e][j] = c2s[d][e][j] /\ g < e
    BY <1>2, <1>4, <1>9
  <2> QED
    BY <1>1, <1>2, <1>5, <2>1 DEF CommandOrder, WireOrder
<1>11. WireOrder(d)'
  <2>1. /\ rx'[d] = rx[d] /\ sent'[d] = sent[d] /\ handled'[d] = handled[d] /\ in'[d] = q[1]
    BY <1>2, <1>3
  <2>2. \A e \in 1 .. MaxConn[d] : \A j \in 1 .. Len(c2s'[d][e]) :
          /\ handled[d] < c2s'[d][e][j].n /\ c2s'[d][e][j].n <= sent[d]
          /\ \A k \in 1 .. Len(rx[d]) : rx[d][k].n < c2s'[d][e][j].n
    BY <1>1, <1>9 DEF CommandOrder, WireOrder
  <2>3. \A e, f \in 1 .. MaxConn[d] : \A j \in 1 .. Len(c2s'[d][e]), k \in 1 .. Len(c2s'[d][f]) :
          e < f \/ (e = f /\ j < k) => c2s'[d][e][j].n < c2s'[d][f][k].n
    <3> SUFFICES ASSUME NEW e \in 1 .. MaxConn[d], NEW f \in 1 .. MaxConn[d],
                        NEW j \in 1 .. Len(c2s'[d][e]), NEW k \in 1 .. Len(c2s'[d][f]),
                        e < f \/ (e = f /\ j < k)
                 PROVE  c2s'[d][e][j].n < c2s'[d][f][k].n
      OBVIOUS
    <3>1. /\ j \in 1 .. Len(c2s[d][e]) /\ c2s'[d][e][j] = c2s[d][e][j]
          /\ k \in 1 .. Len(c2s[d][f]) /\ c2s'[d][f][k] = c2s[d][f][k]
      BY <1>9
    <3>2. c2s[d][e][j].n < c2s[d][f][k].n
      BY <1>1, <3>1 DEF CommandOrder, WireOrder
    <3> QED
      BY <3>1, <3>2
  <2> QED
    BY <1>10, <2>1, <2>2, <2>3 DEF WireOrder
<1> QED
  BY <1>7, <1>8, <1>11 DEF CommandOrder

LEMMA PushOrder ==
  ASSUME Sound, Order, NEW d \in Channels, Push(d)
  PROVE  CommandOrder(d)'
<1>1. TypeOK /\ CommandOrder(d)
  BY DEF Sound, Order
<1> DEFINE l == Len(rx[d])
<1>2. /\ in[d] \in Packets /\ in'[d] = None /\ Len(rx'[d]) = l + 1
      /\ rx'[d][1] = in[d] /\ \A k \in 1 .. l : rx'[d][k + 1] = rx[d][k]
  BY PushEffect
<1>3. UNCHANGED <<c2s, sent, handled, cpc, turn>>
  BY PushEffect DEF main, client, wire
<1>4. l \in Nat
  BY <1>1, ChannelIs
<1>5. in[d] # None
  BY <1>2, NullIsNoPacket
<1>6. Handled(d)' <=> Handled(d)
  BY <1>3 DEF Handled
<1> HIDE DEF l
<1>7. ASSUME NEW k \in 1 .. l + 1, k # 1
      PROVE  k - 1 \in 1 .. l /\ rx'[d][k] = rx[d][k - 1]
  <2>1. k - 1 \in 1 .. l /\ (k - 1) + 1 = k
    BY <1>4, <1>7
  <2> QED
    BY <1>2, <2>1
<1>8. ListOrder(d)'
  <2>1. ASSUME NEW k \in 1 .. l + 1
        PROVE  /\ rx'[d][k].n <= sent[d]
               /\ handled[d] < rx'[d][k].n \/ (Handled(d) /\ k = l + 1)
    <3>1. CASE k = 1
      BY <1>1, <1>2, <1>5, <3>1 DEF CommandOrder, ReadOrder
    <3>2. CASE k # 1
      <4>1. k - 1 \in 1 .. l /\ rx'[d][k] = rx[d][k - 1] /\ (k - 1 = l => k = l + 1)
        BY <1>4, <1>7, <3>2
      <4> QED
        BY <1>1, <4>1 DEF CommandOrder, ListOrder, l
    <3> QED
      BY <3>1, <3>2
  <2>2. ASSUME NEW j \in 1 .. l + 1, NEW k \in 1 .. l + 1, j < k
        PROVE  rx'[d][k].n < rx'[d][j].n
    <3>1. k - 1 \in 1 .. l /\ rx'[d][k] = rx[d][k - 1]
      BY <1>4, <1>7, <2>2
    <3>2. CASE j = 1
      BY <1>1, <1>2, <1>5, <3>1, <3>2 DEF CommandOrder, ReadOrder, l
    <3>3. CASE j # 1
      <4>1. j - 1 \in 1 .. l /\ rx'[d][j] = rx[d][j - 1] /\ j - 1 < k - 1
        BY <1>4, <1>7, <2>2, <3>3
      <4> QED
        BY <1>1, <3>1, <4>1 DEF CommandOrder, ListOrder, l
    <3> QED
      BY <3>2, <3>3
  <2>3. handled[d] <= sent[d]
    BY <1>1 DEF CommandOrder, ListOrder
  <2>4. \A k \in 1 .. l + 1 :
          /\ rx'[d][k].n <= sent[d]
          /\ handled[d] < rx'[d][k].n \/ (Handled(d) /\ k = l + 1)
    BY <2>1
  <2>5. \A j, k \in 1 .. l + 1 : j < k => rx'[d][k].n < rx'[d][j].n
    BY <2>2
  <2>6. Len(rx'[d]) = l + 1 /\ sent'[d] = sent[d] /\ handled'[d] = handled[d]
    BY <1>2, <1>3
  <2> QED
    BY <1>6, <2>3, <2>4, <2>5, <2>6 DEF ListOrder
<1>9. ReadOrder(d)'
  BY <1>2 DEF ReadOrder
<1>10. WireOrder(d)'
  <2>1. ASSUME NEW e \in 1 .. MaxConn[d], NEW j \in 1 .. Len(c2s[d][e]), NEW k \in 1 .. l + 1
        PROVE  rx'[d][k].n < c2s[d][e][j].n
    <3>1. CASE k = 1
      BY <1>1, <1>2, <1>5, <3>1 DEF CommandOrder, WireOrder
    <3>2. CASE k # 1
      <4>1. k - 1 \in 1 .. l /\ rx'[d][k] = rx[d][k - 1]
        BY <1>7, <3>2
      <4> QED
        BY <1>1, <4>1 DEF CommandOrder, WireOrder, l
    <3> QED
      BY <3>1, <3>2
  <2>2. /\ Len(rx'[d]) = l + 1 /\ sent'[d] = sent[d] /\ handled'[d] = handled[d]
        /\ c2s'[d] = c2s[d] /\ in'[d] = None
    BY <1>2, <1>3
  <2>3. \A e \in 1 .. MaxConn[d] : \A j \in 1 .. Len(c2s[d][e]) :
          /\ handled[d] < c2s[d][e][j].n /\ c2s[d][e][j].n <= sent[d]
          /\ \A k \in 1 .. l + 1 : rx'[d][k].n < c2s[d][e][j].n
    BY <1>1, <2>1 DEF CommandOrder, WireOrder
  <2>4. \A e, f \in 1 .. MaxConn[d] : \A j \in 1 .. Len(c2s[d][e]), k \in 1 .. Len(c2s[d][f]) :
          e < f \/ (e = f /\ j < k) => c2s[d][e][j].n < c2s[d][f][k].n
    BY <1>1 DEF CommandOrder, WireOrder
  <2> QED
    BY <2>2, <2>3, <2>4 DEF WireOrder
<1> QED
  BY <1>8, <1>9, <1>10 DEF CommandOrder

\* The command at the back becomes the one handled last.
LEMMA HandleOrder ==
  ASSUME Sound, Order, NEW d \in Channels, d = turn, HandleReq \/ HandleDbg \/ HandleMdfy
  PROVE  CommandOrder(d)'
<1> DEFINE l == Len(rx[d])
<1>1. /\ d \in Channels /\ hand.n \in Nat /\ hand.n <= sent[d] /\ handled'[d] = hand.n
      /\ Handled(d)' /\ l \in Nat \ {0} /\ rx[d][l] = hand
      /\ UNCHANGED <<rx, in, c2s, sent>>
  <2>1. /\ hand.n \in Nat /\ hand.n <= sent[d] /\ handled'[d] = hand.n
        /\ l \in Nat \ {0} /\ rx[d][l] = hand
        /\ UNCHANGED <<rx, in, c2s, sent>>
    BY HandleNext
  <2>2. Handled(d)'
    BY DEF HandleReq, HandleDbg, HandleMdfy, Done, Handled
  <2> QED
    BY <2>1, <2>2
<1>2. TypeOK /\ CommandOrder(d)
  BY DEF Sound, Order
<1>3. l \in 1 .. l /\ \A k \in 1 .. l : k # l => k < l
  BY <1>1
<1> HIDE DEF l
<1>4. \A k \in 1 .. l : k # l => hand.n < rx[d][k].n
  BY <1>1, <1>2, <1>3 DEF CommandOrder, ListOrder, l
<1>5. in[d] # None => hand.n < in[d].n
  BY <1>1, <1>2, <1>3 DEF CommandOrder, ReadOrder, l
<1>6. \A e \in 1 .. MaxConn[d] : \A j \in 1 .. Len(c2s[d][e]) : hand.n < c2s[d][e][j].n
  BY <1>1, <1>2, <1>3 DEF CommandOrder, WireOrder, l
<1>7. /\ rx'[d] = rx[d] /\ in'[d] = in[d] /\ c2s'[d] = c2s[d] /\ sent'[d] = sent[d]
      /\ handled'[d] = hand.n
  BY <1>1
<1>8. Handled(d)' /\ \A k \in 1 .. l : hand.n < rx[d][k].n \/ (Handled(d)' /\ k = l)
  BY <1>1, <1>4
<1>9. ListOrder(d)'
  BY <1>1, <1>2, <1>7, <1>8 DEF CommandOrder, ListOrder, l
<1>10. ReadOrder(d)' /\ WireOrder(d)'
  BY <1>2, <1>5, <1>6, <1>7 DEF CommandOrder, ReadOrder, WireOrder
<1> QED
  BY <1>9, <1>10 DEF CommandOrder

LEMMA CommandOrderStep ==
  ASSUME Sound, Order, [Next]_vars, NEW d \in Channels
  PROVE  CommandOrder(d)'
<1>1. TypeOK /\ CommandOrder(d) /\ turn \in Channels
  BY DEF Sound, Order, TypeOK
<1>2. ASSUME ~ HandleReq, ~ HandleDbg, ~ HandleMdfy, ~ RemoveHandled, ~ Restart,
             rx'[d] = rx[d], in'[d] = in[d], c2s'[d] = c2s[d], sent'[d] = sent[d],
             handled'[d] = handled[d]
      PROVE  CommandOrder(d)'
  BY <1>1, <1>2, OrderKept, HandledStep
<1>3. ASSUME NEW c \in Channels, Send(c)
      PROVE  CommandOrder(d)'
  <2>1. CASE c = d
    BY <1>3, <2>1, SendOrder
  <2>2. CASE c # d
    <3>1. c2s'[d] = c2s[d] /\ sent'[d] = sent[d]
      BY <1>3, <2>2, SendEffect
    <3>2. UNCHANGED <<rx, in, handled, cpc, turn>>
      BY <1>3, SendEffect DEF server
    <3>3. Handled(d)' <=> Handled(d)
      BY <3>2 DEF Handled
    <3> QED
      BY <1>1, <3>1, <3>2, <3>3, OrderKept
  <2> QED
    BY <2>1, <2>2
<1>4. ASSUME NEW c \in Channels, RecvData(c)
      PROVE  CommandOrder(d)'
  <2>1. CASE c = d
    BY <1>4, <2>1, RecvOrder
  <2>2. CASE c # d
    <3>1. c2s'[d] = c2s[d] /\ in'[d] = in[d]
      BY <1>4, <2>2, RecvEffect
    <3>2. UNCHANGED <<rx, sent, handled, cpc, turn>>
      BY <1>4, RecvEffect DEF main, client
    <3>3. Handled(d)' <=> Handled(d)
      BY <3>2 DEF Handled
    <3> QED
      BY <1>1, <3>1, <3>2, <3>3, OrderKept
  <2> QED
    BY <2>1, <2>2
<1>5. ASSUME NEW c \in Channels, Push(c)
      PROVE  CommandOrder(d)'
  <2>1. CASE c = d
    BY <1>5, <2>1, PushOrder
  <2>2. CASE c # d
    <3>1. rx'[d] = rx[d] /\ in'[d] = in[d]
      BY <1>5, <2>2, PushEffect
    <3>2. UNCHANGED <<c2s, sent, handled, cpc, turn>>
      BY <1>5, PushEffect DEF main, client, wire
    <3>3. Handled(d)' <=> Handled(d)
      BY <3>2 DEF Handled
    <3> QED
      BY <1>1, <3>1, <3>2, <3>3, OrderKept
  <2> QED
    BY <2>1, <2>2
<1>6. ASSUME HandleReq \/ HandleDbg \/ HandleMdfy
      PROVE  CommandOrder(d)'
  <2>1. CASE d = turn
    BY <1>6, <2>1, HandleOrder
  <2>2. CASE d # turn
    <3>1. /\ handled'[d] = handled[d] /\ ~ Handled(d) /\ ~ Handled(d)'
          /\ UNCHANGED <<rx, in, c2s, sent>>
      BY <1>6, <2>2, HandleNext
    <3> QED
      BY <1>1, <3>1, OrderKept
  <2> QED
    BY <2>1, <2>2
<1>7. ASSUME RemoveHandled
      PROVE  CommandOrder(d)'
  <2>1. UNCHANGED <<in, c2s, sent, handled>> /\ cpc = "remove" /\ cpc' = "back"
    BY <1>7, HandledEffect DEF manager, client, wire
  <2>2. ~ Handled(d)' /\ (Handled(d) <=> d = turn)
    BY <2>1 DEF Handled
  <2>3. CASE d = turn
    <3>1. \A k \in 1 .. Len(rx'[d]) : k \in 1 .. Len(rx[d]) /\ k # Len(rx[d]) /\ rx'[d][k] = rx[d][k]
      BY <1>7, <2>3, HandledEffect
    <3>2. ListOrder(d)' /\ ReadOrder(d)'
      BY <1>1, <2>1, <3>1 DEF CommandOrder, ListOrder, ReadOrder
    <3>3. WireOrder(d)'
      BY <1>1, <2>1, <3>1 DEF CommandOrder, WireOrder
    <3> QED
      BY <3>2, <3>3 DEF CommandOrder
  <2>4. CASE d # turn
    <3>1. rx'[d] = rx[d]
      BY <1>7, <2>4, HandledEffect
    <3> QED
      BY <1>1, <2>1, <2>2, <2>4, <3>1, OrderKept
  <2> QED
    BY <2>3, <2>4
<1>8. ASSUME Restart
      PROVE  CommandOrder(d)'
  <2>1. /\ rx'[d] = <<>> /\ in'[d] = None /\ \A e \in 1 .. MaxConn[d] : c2s'[d][e] = <<>>
        /\ UNCHANGED <<sent, handled>>
    BY <1>1, <1>8, RestartEffect
  <2> QED
    BY <1>1, <2>1 DEF CommandOrder, ListOrder, ReadOrder, WireOrder
<1>9. ASSUME UNCHANGED <<rx, in, c2s, sent, handled>>,
             ~ HandleReq, ~ HandleDbg, ~ HandleMdfy, ~ RemoveHandled, ~ Restart
      PROVE  CommandOrder(d)'
  BY <1>2, <1>9
<1> QED
  BY <1>3, <1>4, <1>5, <1>6, <1>7, <1>8, <1>9
     DEF Next, Client, Manager, Main, Connect, Receive, Close, Accept, RecvNothing, RecvClosed,
         Peek, Check, SendOut, SendFull, RemoveSent, SendBroken, MainBack, MainSkip, MdfyOpen,
         MdfyWrite, vars, server, main, manager, client, wire

\* The commands the server has received, element by element.
LEMMA ReceivedAt ==
  ASSUME Sound, NEW c \in Channels
  PROVE  \E u \in Nat :
           /\ u = IF Handled(c) THEN Len(rx[c]) - 1 ELSE Len(rx[c])
           /\ Received(c) \in Seq(Packets)
           /\ Len(Received(c)) = IF in[c] = None THEN u ELSE u + 1
           /\ \A k \in 1 .. u : Received(c)[k] = rx[c][(u - k) + 1]
           /\ in[c] # None => Received(c)[u + 1] = in[c]
<1> DEFINE t == IF Handled(c) THEN Front(rx[c]) ELSE rx[c]
           i == IF in[c] = None THEN <<>> ELSE <<in[c]>>
           r == Reverse(t)
           u == Len(t)
<1>1. rx[c] \in Seq(Packets) /\ Len(rx[c]) \in Nat
  BY ChannelIs DEF Sound
<1>2. Handled(c) => Len(rx[c]) > 0
  BY DEF Sound, MainHolds, Handled
<1>3. /\ t \in Seq(Packets)
      /\ Len(t) = IF Handled(c) THEN Len(rx[c]) - 1 ELSE Len(rx[c])
      /\ \A k \in 1 .. Len(t) : t[k] = rx[c][k]
  BY <1>1, <1>2, Fronts
<1>4. in[c] # None => in[c] \in Packets
  BY DEF Sound, TypeOK
<1>5. /\ i \in Seq(Packets) /\ Len(i) = IF in[c] = None THEN 0 ELSE 1
      /\ in[c] # None => i[1] = in[c]
  BY <1>4
<1>6. Received(c) = r \o i
  BY DEF Received
<1> HIDE DEF t, i
<1>7. /\ Reverse(t) \in Seq(Packets) /\ Len(Reverse(t)) = Len(t)
      /\ \A k \in 1 .. Len(t) : Reverse(t)[k] = t[(Len(t) - k) + 1]
  BY <1>3, Reversed
<1>8. u \in Nat
  BY <1>3
<1>9. r \in Seq(Packets) /\ Len(r) = u
  BY <1>7
<1> HIDE DEF r
<1>10. /\ r \o i \in Seq(Packets) /\ Len(r \o i) = Len(r) + Len(i)
       /\ \A k \in 1 .. Len(r) : (r \o i)[k] = r[k]
       /\ \A k \in 1 .. Len(i) : (r \o i)[k + Len(r)] = i[k]
  BY <1>5, <1>9, After
<1> HIDE DEF u
<1>11. \A k \in 1 .. u : (u - k) + 1 \in 1 .. u
  BY <1>8
<1>12. \A k \in 1 .. u : (r \o i)[k] = rx[c][(u - k) + 1]
  BY <1>3, <1>7, <1>9, <1>10, <1>11 DEF r, u
<1>13. in[c] # None => (r \o i)[u + 1] = in[c]
  <2> SUFFICES ASSUME in[c] # None
               PROVE  (r \o i)[u + 1] = in[c]
    OBVIOUS
  <2>1. 1 \in 1 .. Len(i) /\ 1 + Len(r) = u + 1
    BY <1>5, <1>8, <1>9
  <2> QED
    BY <1>5, <1>10, <2>1
<1>14. Len(r \o i) = IF in[c] = None THEN u ELSE u + 1
  BY <1>5, <1>8, <1>9, <1>10
<1>15. u = IF Handled(c) THEN Len(rx[c]) - 1 ELSE Len(rx[c])
  BY <1>3 DEF u
<1> QED
  BY <1>6, <1>8, <1>10, <1>12, <1>13, <1>14, <1>15, ZenonT(60)

\* The answers on their way are in order, and are those to handled commands.
LEMMA AnswersOrdered ==
  ASSUME Sound, Order, NEW c \in Channels
  PROVE  /\ Answers(c) \in Seq(Packets)
         /\ \A k \in 1 .. Len(Answers(c)) : Answers(c)[k].n <= handled[c]
         /\ \A j, k \in 1 .. Len(Answers(c)) : j < k => Answers(c)[j].n < Answers(c)[k].n
<1> DEFINE a == Answers(c)
           l == Len(s2c[c])
<1>1. PICK m \in Nat :
        /\ m = IF mpc[c] = "remove" THEN Len(tx[c]) - 1 ELSE Len(tx[c])
        /\ a \in Seq(Packets) /\ Len(a) = l + m
        /\ \A k \in 1 .. l : a[k] = s2c[c][k]
        /\ \A k \in 1 .. m : a[k + l] = tx[c][(m - k) + 1]
  BY AnswerAt
<1>2. l \in Nat /\ Len(tx[c]) \in Nat
  BY ChannelIs DEF Sound
<1>3. AnswerOrder(c)
  BY DEF Order
<1> HIDE DEF a, l
<1>4. \A k \in 1 .. m : /\ (m - k) + 1 \in 1 .. Len(tx[c])
                        /\ mpc[c] = "remove" => (m - k) + 1 # Len(tx[c])
  BY <1>1, <1>2
<1>5. \A k \in 1 .. l + m :
        \/ k \in 1 .. l /\ a[k] = s2c[c][k]
        \/ k - l \in 1 .. m /\ a[k] = tx[c][(m - (k - l)) + 1]
  <2>1. \A k \in 1 .. l + m : k \in 1 .. l \/ (k - l \in 1 .. m /\ (k - l) + l = k)
    BY <1>1, <1>2
  <2> QED
    BY <1>1, <2>1
<1>6. \A k \in 1 .. l + m : a[k].n <= handled[c]
  BY <1>3, <1>4, <1>5 DEF AnswerOrder, l
<1>7. ASSUME NEW j \in 1 .. l + m, NEW k \in 1 .. l + m, j < k
      PROVE  a[j].n < a[k].n
  <2>1. CASE k \in 1 .. l
    <3>1. j \in 1 .. l /\ a[j] = s2c[c][j] /\ a[k] = s2c[c][k]
      BY <1>1, <1>2, <1>7, <2>1
    <3> QED
      BY <1>3, <1>7, <2>1, <3>1 DEF AnswerOrder, l
  <2>2. CASE k \notin 1 .. l /\ j \in 1 .. l
    <3>1. k - l \in 1 .. m /\ a[k] = tx[c][(m - (k - l)) + 1] /\ a[j] = s2c[c][j]
      BY <1>1, <1>5, <2>2
    <3> QED
      BY <1>3, <1>4, <2>2, <3>1 DEF AnswerOrder, l
  <2>3. CASE k \notin 1 .. l /\ j \notin 1 .. l
    <3> DEFINE x == (m - (k - l)) + 1
               y == (m - (j - l)) + 1
    <3>1. k - l \in 1 .. m /\ j - l \in 1 .. m /\ a[k] = tx[c][x] /\ a[j] = tx[c][y]
      BY <1>5, <2>3
    <3>2. x \in 1 .. Len(tx[c]) /\ y \in 1 .. Len(tx[c])
      BY <1>4, <3>1
    <3>3. x < y
      BY <1>1, <1>2, <1>7
    <3> HIDE DEF x, y
    <3> QED
      BY <1>3, <3>1, <3>2, <3>3 DEF AnswerOrder
  <2> QED
    BY <2>1, <2>2, <2>3
<1> QED
  BY <1>1, <1>6, <1>7 DEF a

\* The commands received are in order, come after those handled and before
\* those under way.
LEMMA ReceivedOrdered ==
  ASSUME Sound, Order, NEW c \in Channels
  PROVE  /\ Received(c) \in Seq(Packets)
         /\ \A k \in 1 .. Len(Received(c)) : handled[c] < Received(c)[k].n
         /\ \A j, k \in 1 .. Len(Received(c)) : j < k => Received(c)[j].n < Received(c)[k].n
         /\ \A k \in 1 .. Len(Received(c)) : \A e \in 1 .. MaxConn[c] : \A j \in 1 .. Len(c2s[c][e]) :
              Received(c)[k].n < c2s[c][e][j].n
<1> DEFINE r == Received(c)
           l == Len(rx[c])
<1>1. PICK u \in Nat :
        /\ u = IF Handled(c) THEN l - 1 ELSE l
        /\ r \in Seq(Packets)
        /\ Len(r) = IF in[c] = None THEN u ELSE u + 1
        /\ \A k \in 1 .. u : r[k] = rx[c][(u - k) + 1]
        /\ in[c] # None => r[u + 1] = in[c]
  BY ReceivedAt
<1>2. l \in Nat
  BY ChannelIs DEF Sound
<1>3. ListOrder(c) /\ ReadOrder(c) /\ WireOrder(c)
  BY DEF Order, CommandOrder
<1> HIDE DEF r, l
<1>4. \A k \in 1 .. u : /\ (u - k) + 1 \in 1 .. l
                        /\ Handled(c) => (u - k) + 1 # l
  BY <1>1, <1>2
<1>5. \A k \in 1 .. Len(r) :
        \/ k \in 1 .. u /\ r[k] = rx[c][(u - k) + 1]
        \/ k = u + 1 /\ in[c] # None /\ r[k] = in[c]
  BY <1>1
<1>6. \A k \in 1 .. Len(r) : handled[c] < r[k].n
  BY <1>3, <1>4, <1>5 DEF ListOrder, ReadOrder, l
<1>7. ASSUME NEW j \in 1 .. Len(r), NEW k \in 1 .. Len(r), j < k
      PROVE  r[j].n < r[k].n
  <2>1. j \in 1 .. u /\ r[j] = rx[c][(u - j) + 1]
    BY <1>1, <1>5, <1>7
  <2>2. CASE k \in 1 .. u /\ r[k] = rx[c][(u - k) + 1]
    <3> DEFINE x == (u - k) + 1
               y == (u - j) + 1
    <3>1. r[k] = rx[c][x] /\ r[j] = rx[c][y] /\ x \in 1 .. l /\ y \in 1 .. l
      BY <1>4, <2>1, <2>2
    <3>2. x < y
      BY <1>1, <1>7
    <3> HIDE DEF x, y
    <3> QED
      BY <1>3, <3>1, <3>2 DEF ListOrder, l
  <2>3. CASE k = u + 1 /\ in[c] # None /\ r[k] = in[c]
    BY <1>3, <1>4, <2>1, <2>3 DEF ReadOrder, l
  <2> QED
    BY <1>5, <2>2, <2>3
<1>8. ASSUME NEW k \in 1 .. Len(r), NEW e \in 1 .. MaxConn[c], NEW j \in 1 .. Len(c2s[c][e])
      PROVE  r[k].n < c2s[c][e][j].n
  BY <1>3, <1>4, <1>5 DEF WireOrder, l
<1> QED
  BY <1>1, <1>6, <1>7, <1>8 DEF r

LEMMA HeldInOrder ==
  ASSUME Sound, Order
  PROVE  InOrder
<1> SUFFICES ASSUME NEW c \in Channels, NEW e \in 0 .. MaxConn[c], NEW f \in 0 .. MaxConn[c],
                    NEW j \in 1 .. Len(Held(c, e)), NEW k \in 1 .. Len(Held(c, f)),
                    e < f \/ (e = f /\ j < k)
             PROVE  Held(c, e)[j].n < Held(c, f)[k].n
  BY DEF InOrder
<1> DEFINE a == Answers(c)
           r == Received(c)
           h == Held(c, 0)
<1>1. TypeOK /\ MaxConn[c] \in Nat
  BY Bounds DEF Sound
<1>2. /\ a \in Seq(Packets)
      /\ \A i \in 1 .. Len(a) : a[i].n <= handled[c]
      /\ \A i, x \in 1 .. Len(a) : i < x => a[i].n < a[x].n
  BY AnswersOrdered
<1>3. /\ r \in Seq(Packets)
      /\ \A i \in 1 .. Len(r) : handled[c] < r[i].n
      /\ \A i, x \in 1 .. Len(r) : i < x => r[i].n < r[x].n
      /\ \A i \in 1 .. Len(r) : \A g \in 1 .. MaxConn[c] : \A x \in 1 .. Len(c2s[c][g]) :
           r[i].n < c2s[c][g][x].n
  BY ReceivedOrdered
<1>4. h = a \o r /\ \A g \in 1 .. MaxConn[c] : Held(c, g) = c2s[c][g]
  BY <1>1 DEF Held
<1>5. WireOrder(c) /\ handled[c] \in Nat
  BY <1>1, ChannelIs DEF Order, CommandOrder
<1> HIDE DEF a, r
<1>6. /\ Len(a) \in Nat /\ Len(r) \in Nat
      /\ \A i \in 1 .. Len(a) : a[i].n \in Nat
      /\ \A i \in 1 .. Len(r) : r[i].n \in Nat
      /\ \A g \in 1 .. MaxConn[c] : \A x \in 1 .. Len(c2s[c][g]) : c2s[c][g][x].n \in Nat
  BY <1>1, <1>2, <1>3, Elements, NumbersAre
<1>7. /\ Len(a \o r) = Len(a) + Len(r)
      /\ \A i \in 1 .. Len(a) : (a \o r)[i] = a[i]
      /\ \A i \in 1 .. Len(r) : (a \o r)[i + Len(a)] = r[i]
  BY <1>2, <1>3, After
<1>8. ASSUME NEW i \in 1 .. Len(h)
      PROVE  \/ i \in 1 .. Len(a) /\ h[i] = a[i]
             \/ i - Len(a) \in 1 .. Len(r) /\ h[i] = r[i - Len(a)]
  <2>1. i \in 1 .. Len(a) \/ (i - Len(a) \in 1 .. Len(r) /\ (i - Len(a)) + Len(a) = i)
    BY <1>4, <1>6, <1>7
  <2> QED
    BY <1>4, <1>7, <2>1
<1> HIDE DEF h
<1>9. CASE e = 0 /\ f = 0
  <2>1. j \in 1 .. Len(h) /\ k \in 1 .. Len(h) /\ j < k
    BY <1>9 DEF h
  <2>2. CASE j \in 1 .. Len(a) /\ h[j] = a[j]
    <3>1. CASE k \in 1 .. Len(a) /\ h[k] = a[k]
      <4>1. a[j].n < a[k].n
        BY <1>2, <2>1, <2>2, <3>1
      <4> QED
        BY <1>9, <2>2, <3>1, <4>1 DEF h
    <3>2. CASE k - Len(a) \in 1 .. Len(r) /\ h[k] = r[k - Len(a)]
      <4> DEFINE x == k - Len(a)
      <4>1. x \in 1 .. Len(r) /\ h[k] = r[x]
        BY <3>2
      <4> HIDE DEF x
      <4>2. a[j].n <= handled[c] /\ handled[c] < r[x].n /\ a[j].n \in Nat /\ r[x].n \in Nat
        BY <1>2, <1>3, <1>6, <2>2, <4>1
      <4>3. a[j].n < r[x].n
        BY <1>5, <4>2
      <4> QED
        BY <1>9, <2>2, <4>1, <4>3 DEF h
    <3> QED
      BY <1>8, <2>1, <3>1, <3>2
  <2>3. CASE j - Len(a) \in 1 .. Len(r) /\ h[j] = r[j - Len(a)]
    <3> DEFINE l == Len(a)
               w == Len(r)
               x == j - l
               y == k - l
    <3>1. l \in Nat /\ w \in Nat /\ x \in 1 .. w /\ j \in Int /\ k \in Int /\ j < k
      BY <1>6, <2>1, <2>3
    <3>2. k \in 1 .. l \/ (y \in 1 .. w /\ h[k] = r[y])
      BY <1>8, <2>1
    <3> HIDE DEF l, w
    <3>3. ~ (k \in 1 .. l) /\ x < y
      BY <3>1
    <3>4. y \in 1 .. w /\ h[k] = r[y]
      BY <3>2, <3>3
    <3>5. h[j] = r[x] /\ x \in 1 .. Len(r) /\ y \in 1 .. Len(r)
      BY <2>3, <3>1, <3>4 DEF l, w
    <3> HIDE DEF x, y
    <3>6. h[j].n < h[k].n
      BY <1>3, <3>3, <3>4, <3>5
    <3> QED
      BY <1>9, <3>6 DEF h
  <2> QED
    BY <1>8, <2>1, <2>2, <2>3
<1>10. CASE e = 0 /\ f # 0
  <2>1. f \in 1 .. MaxConn[c] /\ j \in 1 .. Len(h)
    BY <1>1, <1>10 DEF h
  <2>2. k \in 1 .. Len(c2s[c][f]) /\ Held(c, f)[k] = c2s[c][f][k]
    BY <1>4, <2>1
  <2>3. handled[c] < c2s[c][f][k].n
    BY <1>5, <2>1, <2>2 DEF WireOrder
  <2>4. h[j].n < c2s[c][f][k].n
    <3>1. CASE j \in 1 .. Len(a) /\ h[j] = a[j]
      <4>1. a[j].n <= handled[c] /\ a[j].n \in Nat /\ c2s[c][f][k].n \in Nat
        BY <1>2, <1>6, <2>1, <2>2, <3>1
      <4>2. a[j].n < c2s[c][f][k].n
        BY <1>5, <2>3, <4>1
      <4> QED
        BY <3>1, <4>2
    <3>2. CASE j - Len(a) \in 1 .. Len(r) /\ h[j] = r[j - Len(a)]
      BY <1>3, <2>1, <2>2, <3>2
    <3> QED
      BY <1>8, <2>1, <3>1, <3>2
  <2> QED
    BY <1>10, <2>2, <2>4 DEF h
<1>11. CASE e # 0
  <2>1. e \in 1 .. MaxConn[c] /\ f \in 1 .. MaxConn[c]
    BY <1>1, <1>11
  <2>2. Held(c, e) = c2s[c][e] /\ Held(c, f) = c2s[c][f]
    BY <1>4, <2>1
  <2> QED
    BY <1>5, <2>1, <2>2 DEF WireOrder
<1> QED
  BY <1>9, <1>10, <1>11

LEMMA OrderInit == Init => Order
<1> SUFFICES ASSUME Init, NEW c \in Channels
             PROVE  AnswerOrder(c) /\ CommandOrder(c)
  BY DEF Order
<1>1. /\ rx[c] = <<>> /\ tx[c] = <<>> /\ in[c] = None /\ s2c[c] = <<>>
      /\ sent[c] = 0 /\ handled[c] = 0
      /\ \A e \in 1 .. MaxConn[c] : c2s[c][e] = <<>>
  BY DEF Init, Each, NoBytes
<1> QED
  BY <1>1 DEF AnswerOrder, CommandOrder, ListOrder, ReadOrder, WireOrder

LEMMA OrderNext == Sound /\ Order /\ [Next]_vars => Order'
<1> SUFFICES ASSUME Sound, Order, [Next]_vars
             PROVE  Order'
  OBVIOUS
<1>1. ASSUME NEW c \in Channels
      PROVE  AnswerOrder(c)' /\ CommandOrder(c)'
  <2>1. AnswerOrder(c)'
    BY AnswerOrderStep
  <2>2. CommandOrder(c)'
    BY CommandOrderStep
  <2> QED
    BY <2>1, <2>2
<1> QED
  BY <1>1 DEF Order

LEMMA OrderReached == Spec => []Order
  BY OrderInit, OrderNext, SoundReached, PTL DEF Spec

\* On every channel commands are handled and answers sent in the order in which
\* the commands were sent, and none twice, whatever connections were closed and
\* made again and however often the server ended and was started.
THEOREM HandledInOrder == Spec => []InOrder
<1>1. Sound /\ Order => InOrder
  BY HeldInOrder
<1> QED
  BY <1>1, SoundReached, OrderReached, PTL

-----------------------------------------------------------------------------
(* A client that waits until its command is read.                           *)

\* The commands of a channel in the list that main has not handled.
Unhandled(c) == Len(rx[c]) - (IF Handled(c) THEN 1 ELSE 0)
InHand(c)    == IF in[c] = None THEN 0 ELSE 1

\* On its first connection the commands are numbered without a gap, from the
\* one handled last to the one sent last, and at most one is under way.
NoGap(c) ==
  /\ Len(c2s[c][1]) <= 1
  /\ Len(c2s[c][1]) = 1 => c2s[c][1][1].n = sent[c]
  /\ \A k \in 1 .. Unhandled(c) : rx[c][k].n = (handled[c] + Unhandled(c) + 1) - k
  /\ in[c] # None => in[c].n = handled[c] + Unhandled(c) + 1
  /\ sent[c] = handled[c] + Unhandled(c) + InHand(c) + Len(c2s[c][1])

Unused(c) == sent[c] = 0 /\ handled[c] = 0 /\ rx[c] = <<>> /\ tx[c] = <<>>

Exact == \A c \in Channels : /\ ce[c] = 0 => Unused(c)
                             /\ Undisturbed(c) => NoGap(c)

\* What an undisturbed channel looks like.
LEMMA UndisturbedIs ==
  ASSUME Sound, NEW c \in Channels, Undisturbed(c)
  PROVE  /\ 1 \in 1 .. MaxConn[c] /\ ce[c] = 1 /\ open[c] /\ alive
         /\ c2s[c][1] \in Seq(Packets) /\ Len(c2s[c][1]) \in Nat
         /\ mpc[c] # "accept" => se[c] = 1
<1>1. ce[c] = 1 /\ open[c] /\ alive
  BY DEF Undisturbed
<1>2. 1 \in 1 .. MaxConn[c]
  BY <1>1, Connections
<1>3. c2s[c][1] \in Seq(Packets) /\ Len(c2s[c][1]) \in Nat
  BY <1>2, ChannelIs DEF Sound
<1>4. mpc[c] # "accept" => se[c] = 1
  BY <1>1, Connections
<1> QED
  BY <1>1, <1>2, <1>3, <1>4

LEMMA UnhandledIs ==
  ASSUME Sound, NEW c \in Channels
  PROVE  /\ Unhandled(c) \in Nat /\ InHand(c) \in {0, 1}
         /\ Handled(c) => Unhandled(c) = Len(rx[c]) - 1
         /\ ~ Handled(c) => Unhandled(c) = Len(rx[c])
         /\ Len(rx[c]) \in Nat /\ handled[c] \in Nat /\ sent[c] \in Nat
         /\ in[c] # None <=> InHand(c) = 1
<1>1. Len(rx[c]) \in Nat /\ handled[c] \in Nat /\ sent[c] \in Nat
  BY ChannelIs DEF Sound
<1>2. Handled(c) => Len(rx[c]) > 0
  BY DEF Sound, MainHolds, Handled
<1>3. InHand(c) \in {0, 1} /\ (in[c] # None <=> InHand(c) = 1)
  BY DEF InHand
<1>4. CASE Handled(c)
  <2>1. Unhandled(c) = Len(rx[c]) - 1
    BY <1>4 DEF Unhandled
  <2> QED
    BY <1>1, <1>2, <1>3, <1>4, <2>1
<1>5. CASE ~ Handled(c)
  <2>1. Unhandled(c) = Len(rx[c])
    BY <1>1, <1>5 DEF Unhandled
  <2> QED
    BY <1>1, <1>3, <1>5, <2>1
<1> QED
  BY <1>4, <1>5

\* A channel becomes undisturbed only when its client connects.
LEMMA Disturbed ==
  ASSUME Sound, [Next]_vars, NEW d \in Channels
  PROVE  /\ Undisturbed(d)' => Undisturbed(d) \/ (Connect(d) /\ ce[d] = 0)
         /\ ce[d] <= ce'[d]
<1>1. TypeOK /\ ce[d] \in Nat
  BY ChannelIs DEF Sound
<1>2. CASE UNCHANGED <<ce, open, alive>>
  BY <1>1, <1>2 DEF Undisturbed
<1>3. ASSUME NEW c \in Channels, Connect(c)
      PROVE  /\ Undisturbed(d)' => Undisturbed(d) \/ (Connect(d) /\ ce[d] = 0)
             /\ ce[d] <= ce'[d]
  <2>1. /\ ce' = [ce EXCEPT ![c] = @ + 1] /\ open' = [open EXCEPT ![c] = TRUE] /\ alive' = alive
    BY <1>3 DEF Connect
  <2>2. CASE c = d
    <3>1. ce'[d] = ce[d] + 1
      BY <1>1, <2>1, <2>2 DEF TypeOK
    <3>2. Undisturbed(d)' => ce[d] = 0
      BY <1>1, <3>1 DEF Undisturbed
    <3>3. Connect(d)
      BY <1>3, <2>2
    <3>4. ce[d] <= ce'[d]
      BY <1>1, <3>1
    <3> QED
      BY <3>2, <3>3, <3>4, Zenon
  <2>3. CASE c # d
    <3>1. ce'[d] = ce[d] /\ open'[d] = open[d]
      BY <1>1, <2>1, <2>3 DEF TypeOK
    <3>2. Undisturbed(d)' => Undisturbed(d)
      BY <2>1, <3>1, Zenon DEF Undisturbed
    <3>3. ce[d] <= ce'[d]
      BY <1>1, <3>1
    <3> QED
      BY <3>2, <3>3, Zenon
  <2> QED
    BY <2>2, <2>3
<1>4. ASSUME NEW c \in Channels, Close(c)
      PROVE  /\ Undisturbed(d)' => Undisturbed(d)
             /\ ce[d] <= ce'[d]
  <2>1. ce' = ce /\ alive' = alive
    BY <1>1, <1>4, CloseEffect
  <2>2. open'[c] = FALSE /\ (c # d => open'[d] = open[d])
    BY <1>1, <1>4, CloseEffect
  <2> QED
    BY <1>1, <2>1, <2>2 DEF Undisturbed
<1>5. ASSUME NEW c \in Channels, SendBroken(c)
      PROVE  /\ Undisturbed(d)' => Undisturbed(d)
             /\ ce[d] <= ce'[d]
  BY <1>1, <1>5 DEF SendBroken, client, Undisturbed
<1>6. ASSUME Restart
      PROVE  /\ Undisturbed(d)' => Undisturbed(d)
             /\ ce[d] <= ce'[d]
  BY <1>1, <1>6, RestartEffect DEF Undisturbed
<1> QED
  BY <1>2, <1>3, <1>4, <1>5, <1>6
     DEF Next, Client, Manager, Main, Send, Receive, Accept, RecvData, RecvNothing, RecvClosed,
         Push, Peek, Check, SendOut, SendFull, RemoveSent, MainBack, MainSkip, HandleReq, HandleDbg,
         HandleMdfy, MdfyOpen, MdfyWrite, RemoveHandled, vars, client

LEMMA UnusedStep ==
  ASSUME Sound, Exact, [Next]_vars, NEW d \in Channels, ce'[d] = 0
  PROVE  Unused(d)'
<1>1. TypeOK /\ ce[d] \in Nat /\ se[d] \in Nat /\ Links(d)
  BY ChannelIs DEF Sound
<1>2. ce[d] = 0
  <2>1. ce[d] <= ce'[d]
    BY Disturbed
  <2> QED
    BY <1>1, <2>1
<1>3. Unused(d) /\ mpc[d] = "accept" /\ ~ open[d] /\ Len(rx[d]) = 0
  BY <1>1, <1>2 DEF Exact, Links, Unused
<1>4. CASE rx'[d] = rx[d] /\ tx'[d] = tx[d] /\ sent'[d] = sent[d] /\ handled'[d] = handled[d]
  BY <1>3, <1>4 DEF Unused
<1>5. ASSUME NEW c \in Channels, Send(c)
      PROVE  Unused(d)'
  <2>1. open[c]
    BY <1>5, SendEffect
  <2>2. c # d
    BY <1>3, <2>1
  <2>3. sent'[d] = sent[d]
    BY <1>5, <2>2, SendEffect
  <2>4. UNCHANGED <<rx, tx, handled>>
    BY <1>5, SendEffect DEF server
  <2> QED
    BY <1>4, <2>3, <2>4
<1>6. ASSUME NEW c \in Channels, Push(c)
      PROVE  Unused(d)'
  <2>1. mpc[c] = "push"
    BY <1>6, PushEffect
  <2>2. c # d
    BY <1>3, <2>1
  <2>3. rx'[d] = rx[d]
    BY <1>6, <2>2, PushEffect
  <2>4. UNCHANGED <<tx, sent, handled>>
    BY <1>6, PushEffect DEF main, client
  <2> QED
    BY <1>4, <2>3, <2>4
<1>7. ASSUME NEW c \in Channels, RemoveSent(c)
      PROVE  Unused(d)'
  <2>1. mpc[c] = "remove"
    BY <1>7, RemoveSentEffect
  <2>2. c # d
    BY <1>3, <2>1
  <2>3. tx'[d] = tx[d]
    BY <1>7, <2>2, RemoveSentEffect
  <2>4. UNCHANGED <<rx, sent, handled>>
    BY <1>7, RemoveSentEffect DEF main, client
  <2> QED
    BY <1>4, <2>3, <2>4
<1>8. ASSUME HandleReq \/ HandleDbg
      PROVE  Unused(d)'
  <2>1. Len(rx[turn]) \in Nat \ {0}
    BY <1>8, AnswerEffect
  <2>2. d # turn
    BY <1>3, <2>1
  <2>3. tx'[d] = tx[d] /\ handled'[d] = handled[d]
    BY <1>8, <2>2, AnswerEffect
  <2>4. UNCHANGED <<rx, sent>>
    BY <1>8, AnswerEffect DEF client
  <2> QED
    BY <1>4, <2>3, <2>4
<1>9. ASSUME HandleMdfy
      PROVE  Unused(d)'
  <2>1. Len(rx[turn]) \in Nat \ {0}
    BY <1>9, MdfyEffect
  <2>2. d # turn
    BY <1>3, <2>1
  <2>3. handled'[d] = handled[d]
    BY <1>9, <2>2, MdfyEffect
  <2>4. UNCHANGED <<rx, tx, sent>>
    BY <1>9, MdfyEffect DEF client
  <2> QED
    BY <1>4, <2>3, <2>4
<1>10. ASSUME RemoveHandled
       PROVE  Unused(d)'
  <2>1. Len(rx[turn]) \in Nat \ {0}
    BY <1>10, HandledEffect
  <2>2. d # turn
    BY <1>3, <2>1
  <2>3. rx'[d] = rx[d]
    BY <1>10, <2>2, HandledEffect
  <2>4. UNCHANGED <<tx, sent, handled>>
    BY <1>10, HandledEffect DEF client
  <2> QED
    BY <1>4, <2>3, <2>4
<1>11. ASSUME Restart
       PROVE  Unused(d)'
  BY <1>1, <1>3, <1>11, RestartEffect DEF Unused
<1> QED
  BY <1>4, <1>5, <1>6, <1>7, <1>8, <1>9, <1>10, <1>11
     DEF Next, Client, Manager, Main, Connect, Receive, Close, Accept, RecvData, RecvNothing,
         RecvClosed, Peek, Check, SendOut, SendFull, SendBroken, MainBack, MainSkip, MdfyOpen,
         MdfyWrite, vars, server, main, client

LEMMA GapSend ==
  ASSUME Sound, NEW d \in Channels, Send(d), ~ Pipelined, Undisturbed(d), NoGap(d)
  PROVE  NoGap(d)'
<1>1. ce[d] = 1 /\ c2s[d][1] \in Seq(Packets)
  BY UndisturbedIs
<1>2. c2s[d][1] = <<>>
  BY <1>1 DEF Send
<1>3. PICK p \in Packets : p.n = sent[d] + 1 /\ c2s'[d][1] = Append(c2s[d][1], p)
  BY <1>1, SendEffect
<1>4. Len(c2s'[d][1]) = 1 /\ c2s'[d][1][1] = p /\ Len(c2s[d][1]) = 0
  BY <1>2, <1>3
<1>5. sent'[d] = sent[d] + 1
  BY SendEffect
<1>6. UNCHANGED <<rx, in, handled, cpc, turn>>
  BY SendEffect DEF server
<1>7. /\ Unhandled(d)' = Unhandled(d) /\ InHand(d)' = InHand(d)
      /\ rx'[d] = rx[d] /\ in'[d] = in[d] /\ handled'[d] = handled[d]
  BY <1>6 DEF Unhandled, InHand, Handled
<1>8. /\ Unhandled(d) \in Nat /\ InHand(d) \in Nat /\ handled[d] \in Nat /\ sent[d] \in Nat
  BY UnhandledIs
<1> QED
  BY <1>3, <1>4, <1>5, <1>7, <1>8, SMTT(30) DEF NoGap

LEMMA GapRecv ==
  ASSUME Sound, NEW d \in Channels, RecvData(d), Undisturbed(d), NoGap(d)
  PROVE  NoGap(d)'
<1>1. mpc[d] = "recv"
  BY RecvEffect
<1>2. se[d] = 1 /\ Len(c2s[d][1]) \in Nat
  BY <1>1, UndisturbedIs
<1>3. /\ Len(c2s[d][1]) > 0 /\ in'[d] = c2s[d][1][1] /\ in'[d] \in Packets /\ in[d] = None
      /\ c2s'[d][1] = <<>>
  BY <1>2, RecvEffect
<1>4. UNCHANGED <<rx, sent, handled, cpc, turn>>
  BY RecvEffect DEF main, client
<1>5. /\ Unhandled(d)' = Unhandled(d) /\ InHand(d) = 0 /\ InHand(d)' = 1
      /\ rx'[d] = rx[d] /\ sent'[d] = sent[d] /\ handled'[d] = handled[d]
  BY <1>3, <1>4, NullIsNoPacket DEF Unhandled, InHand, Handled
<1>6. Len(c2s[d][1]) = 1 /\ Len(c2s'[d][1]) = 0
  <2>1. Len(c2s[d][1]) <= 1
    BY DEF NoGap
  <2> DEFINE n == Len(c2s[d][1])
  <2>2. n \in Nat /\ n > 0 /\ n <= 1
    BY <1>2, <1>3, <2>1
  <2> HIDE DEF n
  <2>3. n = 1
    BY <2>2
  <2> QED
    BY <1>3, <2>3 DEF n
<1>7. /\ Unhandled(d) \in Nat /\ handled[d] \in Nat /\ sent[d] \in Nat
  BY UnhandledIs
<1> QED
  BY <1>3, <1>5, <1>6, <1>7 DEF NoGap

LEMMA GapPush ==
  ASSUME Sound, NEW d \in Channels, Push(d), Undisturbed(d), NoGap(d)
  PROVE  NoGap(d)'
<1> DEFINE u == Unhandled(d)
           h == handled[d]
<1>1. /\ in[d] \in Packets /\ in'[d] = None /\ Len(rx'[d]) = Len(rx[d]) + 1
      /\ rx'[d][1] = in[d] /\ \A k \in 1 .. Len(rx[d]) : rx'[d][k + 1] = rx[d][k]
  BY PushEffect
<1>2. UNCHANGED <<c2s, sent, handled, cpc, turn>>
  BY PushEffect DEF main, client, wire
<1>3. u \in Nat /\ u <= Len(rx[d]) /\ h \in Nat /\ Len(rx[d]) \in Nat
  BY UnhandledIs
<1>4. /\ Unhandled(d)' = u + 1 /\ InHand(d) = 1 /\ InHand(d)' = 0
      /\ c2s'[d] = c2s[d] /\ sent'[d] = sent[d] /\ handled'[d] = h
  BY <1>1, <1>2, <1>3, NullIsNoPacket DEF Unhandled, InHand, Handled
<1> HIDE DEF u, h
<1>5. /\ in[d].n = h + u + 1 /\ \A k \in 1 .. u : rx[d][k].n = (h + u + 1) - k
  BY <1>1, NullIsNoPacket DEF NoGap, u, h
<1>6. ASSUME NEW k \in 1 .. u + 1
      PROVE  rx'[d][k].n = (h + (u + 1) + 1) - k
  <2>1. CASE k = 1
    BY <1>1, <1>3, <1>5, <2>1
  <2>2. CASE k # 1
    <3>1. k - 1 \in 1 .. u /\ k - 1 \in 1 .. Len(rx[d]) /\ (k - 1) + 1 = k
      BY <1>3, <2>2
    <3>2. rx'[d][k] = rx[d][k - 1]
      BY <1>1, <3>1
    <3> QED
      BY <1>3, <1>5, <3>1, <3>2
  <2> QED
    BY <2>1, <2>2
<1>7. /\ Len(c2s[d][1]) <= 1
      /\ Len(c2s[d][1]) = 1 => c2s[d][1][1].n = sent[d]
      /\ sent[d] = h + (u + 1) + 0 + Len(c2s[d][1])
  <2>1. /\ Len(c2s[d][1]) <= 1
        /\ Len(c2s[d][1]) = 1 => c2s[d][1][1].n = sent[d]
        /\ sent[d] = h + u + 1 + Len(c2s[d][1])
    BY <1>4 DEF NoGap, u, h
  <2>2. Len(c2s[d][1]) \in Nat
    BY UndisturbedIs
  <2> DEFINE w == Len(c2s[d][1])
  <2>3. w \in Nat /\ sent[d] = h + u + 1 + w
    BY <2>1, <2>2
  <2> HIDE DEF w
  <2>4. sent[d] = h + (u + 1) + 0 + w
    BY <1>3, <2>3
  <2> QED
    BY <2>1, <2>4 DEF w
<1> QED
  BY <1>1, <1>4, <1>6, <1>7 DEF NoGap

\* Main handles the oldest command; there is no gap after it.
LEMMA GapHandle ==
  ASSUME Sound, Order, NEW d \in Channels, d = turn, HandleReq \/ HandleDbg \/ HandleMdfy, NoGap(d)
  PROVE  /\ NoGap(d)'
         /\ Unhandled(d) \in Nat \ {0} /\ Unhandled(d)' = Unhandled(d) - 1
         /\ rx[d][Unhandled(d)] = hand
<1> DEFINE u == Unhandled(d)
           h == handled[d]
<1>1. /\ handled'[d] = hand.n /\ hand.n \in Nat /\ ~ Handled(d)
      /\ Len(rx[d]) \in Nat \ {0} /\ rx[d][Len(rx[d])] = hand
      /\ UNCHANGED <<rx, in, c2s, sent>>
  BY HandleNext
<1>2. Handled(d)'
  BY DEF HandleReq, HandleDbg, HandleMdfy, Done, Handled
<1>3. u = Len(rx[d]) /\ u \in Nat \ {0} /\ h \in Nat
  BY <1>1, UnhandledIs
<1>4. /\ Unhandled(d)' = u - 1 /\ InHand(d)' = InHand(d)
      /\ rx'[d] = rx[d] /\ in'[d] = in[d] /\ c2s'[d] = c2s[d] /\ sent'[d] = sent[d]
  BY <1>1, <1>2, <1>3 DEF Unhandled, InHand
<1> HIDE DEF u, h
<1>5. /\ Len(c2s[d][1]) <= 1
      /\ Len(c2s[d][1]) = 1 => c2s[d][1][1].n = sent[d]
      /\ \A k \in 1 .. u : rx[d][k].n = (h + u + 1) - k
      /\ in[d] # None => in[d].n = h + u + 1
      /\ sent[d] = h + u + InHand(d) + Len(c2s[d][1])
  BY DEF NoGap, u, h
<1>6. hand.n = h + 1
  <2>1. u \in 1 .. u /\ rx[d][u] = hand
    BY <1>1, <1>3
  <2> QED
    BY <1>3, <1>5, <2>1
<1>7. h + u + 1 = hand.n + (u - 1) + 1 /\ h + u = hand.n + (u - 1)
  <2>1. u \in Nat /\ h \in Nat
    BY <1>3
  <2> QED
    BY <1>6, <2>1
<1>8. NoGap(d)'
  <2>1. ASSUME NEW k \in 1 .. u - 1
        PROVE  rx[d][k].n = (hand.n + (u - 1) + 1) - k
    <3>1. k \in 1 .. u
      BY <1>3
    <3> QED
      BY <1>5, <1>7, <3>1
  <2>2. in[d] # None => in[d].n = hand.n + (u - 1) + 1
    BY <1>5, <1>7
  <2>3. sent[d] = hand.n + (u - 1) + InHand(d) + Len(c2s[d][1])
    BY <1>5, <1>7
  <2> QED
    BY <1>1, <1>4, <1>5, <2>1, <2>2, <2>3 DEF NoGap
<1> QED
  BY <1>1, <1>3, <1>4, <1>8 DEF u

LEMMA GapRemove ==
  ASSUME Sound, NEW d \in Channels, d = turn, RemoveHandled, NoGap(d)
  PROVE  /\ NoGap(d)'
         /\ Unhandled(d)' = Unhandled(d) /\ Unhandled(d) = Len(rx[d]) - 1
<1>1. /\ Len(rx[d]) \in Nat \ {0} /\ Len(rx'[d]) = Len(rx[d]) - 1
      /\ \A k \in 1 .. Len(rx[d]) - 1 : rx'[d][k] = rx[d][k]
      /\ cpc = "remove" /\ cpc' = "back"
      /\ UNCHANGED <<in, c2s, sent, handled>>
  BY HandledEffect DEF manager, client, wire
<1>2. Handled(d) /\ ~ Handled(d)'
  BY <1>1 DEF Handled
<1>3. Unhandled(d) = Len(rx[d]) - 1
  BY <1>2, UnhandledIs
<1>4. Unhandled(d)' = Len(rx[d]) - 1
  BY <1>1, <1>2 DEF Unhandled
<1>5. /\ InHand(d)' = InHand(d) /\ in'[d] = in[d] /\ c2s'[d] = c2s[d] /\ sent'[d] = sent[d]
      /\ handled'[d] = handled[d]
  BY <1>1 DEF InHand
<1>6. Unhandled(d)' = Unhandled(d) /\ \A k \in 1 .. Unhandled(d) : rx'[d][k] = rx[d][k]
  BY <1>1, <1>3, <1>4
<1> QED
  BY <1>3, <1>5, <1>6 DEF NoGap

LEMMA GapConnect ==
  ASSUME Sound, Exact, NEW d \in Channels, Connect(d), ce[d] = 0
  PROVE  Undisturbed(d)' => NoGap(d)'
<1>1. Unused(d) /\ Links(d) /\ ce[d] \in Nat /\ se[d] \in Nat /\ MaxConn[d] \in Nat
  BY ChannelIs DEF Exact, Sound
<1>2. mpc[d] = "accept" /\ in[d] = None
  BY <1>1 DEF Links
<1>3. ce[d] < MaxConn[d] /\ UNCHANGED <<rx, in, c2s, sent, handled, cpc, turn>>
  BY DEF Connect, server, wire
<1>4. 1 \in 1 .. MaxConn[d]
  BY <1>1, <1>3
<1>5. c2s[d][1] = <<>>
  BY <1>1, <1>4 DEF Links
<1>6. Unhandled(d) \in Nat /\ Unhandled(d) <= Len(rx[d])
  BY UnhandledIs
<1>7. Len(rx[d]) = 0 /\ sent[d] = 0 /\ handled[d] = 0
  BY <1>1 DEF Unused
<1>8. Unhandled(d) = 0
  BY <1>6, <1>7
<1>9. /\ Unhandled(d)' = 0 /\ InHand(d)' = 0 /\ c2s'[d][1] = <<>> /\ in'[d] = None
      /\ sent'[d] = 0 /\ handled'[d] = 0
  BY <1>2, <1>3, <1>5, <1>7, <1>8 DEF Unhandled, InHand, Handled
<1> QED
  BY <1>9 DEF NoGap

LEMMA GapStep ==
  ASSUME Sound, Order, Exact, [Next]_vars, ~ Pipelined, NEW d \in Channels
  PROVE  Undisturbed(d)' => NoGap(d)'
<1>1. TypeOK /\ turn \in Channels /\ (Undisturbed(d) => NoGap(d))
  BY DEF Sound, TypeOK, Exact
<1>2. CASE ~ Undisturbed(d)
  BY <1>2, Disturbed, GapConnect
<1> SUFFICES ASSUME Undisturbed(d)
             PROVE  NoGap(d)'
  BY <1>2
<1>3. NoGap(d)
  BY <1>1
<1>4. ASSUME rx'[d] = rx[d], in'[d] = in[d], c2s'[d] = c2s[d], sent'[d] = sent[d],
             handled'[d] = handled[d], Handled(d)' <=> Handled(d)
      PROVE  NoGap(d)'
  BY <1>3, <1>4 DEF NoGap, Unhandled, InHand
<1>5. ASSUME NEW c \in Channels, Send(c)
      PROVE  NoGap(d)'
  <2>1. CASE c = d
    BY <1>3, <1>5, <2>1, GapSend
  <2>2. CASE c # d
    <3>1. c2s'[d] = c2s[d] /\ sent'[d] = sent[d]
      BY <1>5, <2>2, SendEffect
    <3>2. UNCHANGED <<rx, in, handled, cpc, turn>>
      BY <1>5, SendEffect DEF server
    <3>3. Handled(d)' <=> Handled(d)
      BY <3>2 DEF Handled
    <3> QED
      BY <1>4, <3>1, <3>2, <3>3
  <2> QED
    BY <2>1, <2>2
<1>6. ASSUME NEW c \in Channels, RecvData(c)
      PROVE  NoGap(d)'
  <2>1. CASE c = d
    BY <1>3, <1>6, <2>1, GapRecv
  <2>2. CASE c # d
    <3>1. c2s'[d] = c2s[d] /\ in'[d] = in[d]
      BY <1>6, <2>2, RecvEffect
    <3>2. UNCHANGED <<rx, sent, handled, cpc, turn>>
      BY <1>6, RecvEffect DEF main, client
    <3>3. Handled(d)' <=> Handled(d)
      BY <3>2 DEF Handled
    <3> QED
      BY <1>4, <3>1, <3>2, <3>3
  <2> QED
    BY <2>1, <2>2
<1>7. ASSUME NEW c \in Channels, Push(c)
      PROVE  NoGap(d)'
  <2>1. CASE c = d
    BY <1>3, <1>7, <2>1, GapPush
  <2>2. CASE c # d
    <3>1. rx'[d] = rx[d] /\ in'[d] = in[d]
      BY <1>7, <2>2, PushEffect
    <3>2. UNCHANGED <<c2s, sent, handled, cpc, turn>>
      BY <1>7, PushEffect DEF main, client, wire
    <3>3. Handled(d)' <=> Handled(d)
      BY <3>2 DEF Handled
    <3> QED
      BY <1>4, <3>1, <3>2, <3>3
  <2> QED
    BY <2>1, <2>2
<1>8. ASSUME HandleReq \/ HandleDbg \/ HandleMdfy
      PROVE  NoGap(d)'
  <2>1. CASE d = turn
    BY <1>3, <1>8, <2>1, GapHandle
  <2>2. CASE d # turn
    <3>1. /\ handled'[d] = handled[d] /\ ~ Handled(d) /\ ~ Handled(d)'
          /\ UNCHANGED <<rx, in, c2s, sent>>
      BY <1>8, <2>2, HandleNext
    <3> QED
      BY <1>4, <3>1
  <2> QED
    BY <2>1, <2>2
<1>9. ASSUME RemoveHandled
      PROVE  NoGap(d)'
  <2>1. CASE d = turn
    BY <1>3, <1>9, <2>1, GapRemove
  <2>2. CASE d # turn
    <3>1. UNCHANGED <<in, c2s, sent, handled>> /\ rx'[d] = rx[d] /\ cpc' = "back"
      BY <1>9, <2>2, HandledEffect DEF manager, client, wire
    <3>2. ~ Handled(d) /\ ~ Handled(d)'
      BY <2>2, <3>1 DEF Handled
    <3> QED
      BY <1>4, <3>1, <3>2
  <2> QED
    BY <2>1, <2>2
<1>10. ASSUME Restart
       PROVE  NoGap(d)'
  BY <1>10 DEF Restart, Undisturbed
<1>11. ASSUME UNCHANGED <<rx, in, c2s, sent, handled>>,
             ~ HandleReq, ~ HandleDbg, ~ HandleMdfy, ~ RemoveHandled, ~ Restart
       PROVE  NoGap(d)'
  BY <1>4, <1>11, HandledStep
<1> QED
  BY <1>5, <1>6, <1>7, <1>8, <1>9, <1>10, <1>11
     DEF Next, Client, Manager, Main, Connect, Receive, Close, Accept, RecvNothing, RecvClosed,
         Peek, Check, SendOut, SendFull, RemoveSent, SendBroken, MainBack, MainSkip, MdfyOpen,
         MdfyWrite, vars, server, main, manager, client, wire

LEMMA ExactInit == Init => Exact
  BY DEF Init, Each, Exact, Unused, Undisturbed

LEMMA ExactNext == ~ Pipelined /\ Sound /\ Order /\ Exact /\ [Next]_vars => Exact'
<1> SUFFICES ASSUME ~ Pipelined, Sound, Order, Exact, [Next]_vars
             PROVE  Exact'
  OBVIOUS
<1>1. ASSUME NEW c \in Channels
      PROVE  /\ ce'[c] = 0 => Unused(c)'
             /\ Undisturbed(c)' => NoGap(c)'
  <2>1. ce'[c] = 0 => Unused(c)'
    BY UnusedStep
  <2>2. Undisturbed(c)' => NoGap(c)'
    BY GapStep
  <2> QED
    BY <2>1, <2>2
<1> QED
  BY <1>1 DEF Exact

\* The commands on an undisturbed channel, element by element.
LEMMA CommandAt ==
  ASSUME Sound, NEW c \in Channels, Undisturbed(c)
  PROVE  /\ Commands(c) \in Seq(Packets)
         /\ Len(Commands(c)) = Unhandled(c) + InHand(c) + Len(c2s[c][1])
         /\ \A k \in 1 .. Unhandled(c) : Commands(c)[k] = rx[c][(Unhandled(c) - k) + 1]
         /\ in[c] # None => Commands(c)[Unhandled(c) + 1] = in[c]
         /\ \A k \in 1 .. Len(c2s[c][1]) : Commands(c)[k + (Unhandled(c) + InHand(c))] = c2s[c][1][k]
<1> DEFINE r == Received(c)
           q == c2s[c][1]
           v == Unhandled(c)
           w == InHand(c)
<1>1. PICK u \in Nat :
        /\ u = IF Handled(c) THEN Len(rx[c]) - 1 ELSE Len(rx[c])
        /\ r \in Seq(Packets)
        /\ Len(r) = IF in[c] = None THEN u ELSE u + 1
        /\ \A k \in 1 .. u : r[k] = rx[c][(u - k) + 1]
        /\ in[c] # None => r[u + 1] = in[c]
  BY ReceivedAt
<1>2. v \in Nat /\ w \in {0, 1} /\ (in[c] # None <=> w = 1)
  BY UnhandledIs
<1>3. u = v
  <2>1. CASE Handled(c)
    BY <1>1, <2>1, UnhandledIs
  <2>2. CASE ~ Handled(c)
    BY <1>1, <2>2, UnhandledIs
  <2> QED
    BY <2>1, <2>2
<1>4. q \in Seq(Packets) /\ Commands(c) = r \o q
  BY UndisturbedIs DEF Commands
<1>5. Len(r) = v + w
  BY <1>1, <1>2, <1>3
<1> HIDE DEF r, q, v, w
<1>6. /\ r \o q \in Seq(Packets) /\ Len(r \o q) = Len(r) + Len(q)
      /\ \A k \in 1 .. Len(r) : (r \o q)[k] = r[k]
      /\ \A k \in 1 .. Len(q) : (r \o q)[k + Len(r)] = q[k]
  <2>1. r \in Seq(Packets) /\ q \in Seq(Packets)
    BY <1>1, <1>4
  <2> QED
    BY <2>1, After
<1>7. \A k \in 1 .. v : (r \o q)[k] = rx[c][(v - k) + 1]
  <2>1. \A k \in 1 .. v : k \in 1 .. Len(r)
    BY <1>2, <1>5
  <2> QED
    BY <1>1, <1>3, <1>6, <2>1
<1>8. in[c] # None => (r \o q)[v + 1] = in[c]
  <2>1. in[c] # None => v + 1 \in 1 .. Len(r)
    BY <1>2, <1>5
  <2> QED
    BY <1>1, <1>3, <1>6, <2>1
<1> QED
  BY <1>4, <1>5, <1>6, <1>7, <1>8 DEF q, v, w

\* The numbers of the commands on an undisturbed channel.
LEMMA NumbersInTurn ==
  ASSUME Sound, Exact, NEW c \in Channels, Undisturbed(c)
  PROVE  /\ Len(Commands(c)) = sent[c] - handled[c]
         /\ \A k \in 1 .. Len(Commands(c)) : Commands(c)[k].n = handled[c] + k
<1> DEFINE u == Unhandled(c)
           w == InHand(c)
           l == Len(c2s[c][1])
           h == handled[c]
           a == Commands(c)
<1>1. /\ Len(a) = u + w + l
      /\ \A k \in 1 .. u : a[k] = rx[c][(u - k) + 1]
      /\ in[c] # None => a[u + 1] = in[c]
      /\ \A k \in 1 .. l : a[k + (u + w)] = c2s[c][1][k]
  BY CommandAt
<1>2. /\ l <= 1
      /\ l = 1 => c2s[c][1][1].n = sent[c]
      /\ \A k \in 1 .. u : rx[c][k].n = (h + u + 1) - k
      /\ in[c] # None => in[c].n = h + u + 1
      /\ sent[c] = h + u + w + l
  BY DEF Exact, NoGap
<1>3. u \in Nat /\ w \in {0, 1} /\ (in[c] # None <=> w = 1) /\ h \in Nat
  BY UnhandledIs
<1>4. l \in Nat
  BY UndisturbedIs
<1> HIDE DEF u, w, l, h, a
<1>5. Len(a) = sent[c] - h
  BY <1>1, <1>2, <1>3, <1>4
<1>6. ASSUME NEW k \in 1 .. u + w + l
      PROVE  a[k].n = h + k
  <2>1. CASE k \in 1 .. u
    <3> DEFINE x == (u - k) + 1
    <3>1. x \in 1 .. u /\ (h + u + 1) - x = h + k
      BY <1>3, <2>1
    <3>2. a[k] = rx[c][x]
      BY <1>1, <2>1
    <3> HIDE DEF x
    <3> QED
      BY <1>2, <3>1, <3>2
  <2>2. CASE k = u + 1 /\ w = 1
    <3>1. in[c] # None /\ h + u + 1 = h + k
      BY <1>3, <2>2
    <3> QED
      BY <1>1, <1>2, <2>2, <3>1
  <2>3. CASE k \notin 1 .. u /\ ~ (k = u + 1 /\ w = 1)
    <3>1. l = 1 /\ k = 1 + (u + w)
      BY <1>2, <1>3, <1>4, <2>3
    <3>2. 1 \in 1 .. l /\ sent[c] = h + k
      BY <1>2, <1>3, <3>1
    <3> QED
      BY <1>1, <1>2, <3>1, <3>2
  <2> QED
    BY <2>1, <2>2, <2>3
<1> QED
  BY <1>1, <1>5, <1>6 DEF a, h

LEMMA NothingLost ==
  ASSUME Sound, Exact
  PROVE  NoCommandLost
<1> SUFFICES ASSUME NEW c \in Channels, Undisturbed(c)
             PROVE  Ids(Commands(c)) = [k \in 1 .. sent[c] - handled[c] |-> handled[c] + k]
  BY DEF NoCommandLost
<1>1. /\ Len(Commands(c)) = sent[c] - handled[c]
      /\ \A k \in 1 .. Len(Commands(c)) : Commands(c)[k].n = handled[c] + k
  BY NumbersInTurn
<1> QED
  BY <1>1 DEF Ids

LEMMA ExactReached == ~ Pipelined => (Spec => []Exact)
<1> SUFFICES ASSUME ~ Pipelined
             PROVE  Spec => []Exact
  OBVIOUS
<1>1. Sound /\ Order /\ Exact /\ [Next]_vars => Exact'
  BY ExactNext
<1> QED
  BY <1>1, ExactInit, SoundReached, OrderReached, PTL DEF Spec

\* When a client sends no command before the server has read the one before,
\* the server handles all of its commands, one after the other, up to the first
\* time that the connection or the server ends.
THEOREM CommandsKept == ~ Pipelined => (Spec => []NoCommandLost)
<1> SUFFICES ASSUME ~ Pipelined
             PROVE  Spec => []NoCommandLost
  OBVIOUS
<1>1. Spec => []Exact
  BY ExactReached
<1>2. Sound /\ Exact => NoCommandLost
  BY NothingLost
<1> QED
  BY <1>1, <1>2, SoundReached, PTL

-----------------------------------------------------------------------------
(* What a client that waits is waiting for.                                 *)

\* Command n asks for an answer and is on its way to be handled.
Unanswered(c, n) ==
  \/ \E k \in 1 .. Unhandled(c) : rx[c][k].n = n /\ rx[c][k].dac \in Answerable
  \/ in[c] # None /\ in[c].n = n /\ in[c].dac \in Answerable
  \/ \E k \in 1 .. Len(c2s[c][1]) : c2s[c][1][k].n = n /\ c2s[c][1][k].dac \in Answerable

\* The answer to command n is on its way to the client.
Underway(c, n) ==
  \/ \E k \in 1 .. Len(s2c[c]) : s2c[c][k].n = n
  \/ \E k \in 1 .. Len(tx[c]) : tx[c][k].n = n /\ ~ (mpc[c] = "remove" /\ k = Len(tx[c]))

IsDue(c, n) == \E k \in 1 .. Len(due[c]) : due[c][k] = n

Awaited(c) ==
  /\ \A k \in 1 .. Len(due[c]) : due[c][k] <= sent[c]
  /\ \A j, k \in 1 .. Len(due[c]) : j < k => due[c][j] < due[c][k]
  /\ \A n \in Nat : IsDue(c, n) <=> Unanswered(c, n) \/ Underway(c, n)

Awaits == \A c \in Channels : Undisturbed(c) => Awaited(c)

\* Every command that waits to be handled comes after the ones handled, every
\* answer is to one of those.
LEMMA Sides ==
  ASSUME Sound, Order, Exact, NEW c \in Channels, Undisturbed(c), NEW n \in Nat
  PROVE  /\ Unanswered(c, n) => handled[c] < n /\ n <= sent[c]
         /\ Underway(c, n) => n <= handled[c]
         /\ handled[c] \in Nat /\ sent[c] \in Nat /\ handled[c] <= sent[c]
<1>1. handled[c] \in Nat /\ sent[c] \in Nat /\ Unhandled(c) \in Nat /\ Unhandled(c) <= Len(rx[c])
  BY UnhandledIs
<1>2. 1 \in 1 .. MaxConn[c]
  BY UndisturbedIs
<1>3. ListOrder(c) /\ ReadOrder(c) /\ WireOrder(c) /\ AnswerOrder(c)
  BY DEF Order, CommandOrder
<1>4. \A k \in 1 .. Unhandled(c) : k \in 1 .. Len(rx[c]) /\ ~ (Handled(c) /\ k = Len(rx[c]))
  BY <1>1, UnhandledIs
<1>5. \A k \in 1 .. Unhandled(c) : handled[c] < rx[c][k].n /\ rx[c][k].n <= sent[c]
  BY <1>3, <1>4 DEF ListOrder
<1>6. Unanswered(c, n) => handled[c] < n /\ n <= sent[c]
  BY <1>2, <1>3, <1>5 DEF Unanswered, ReadOrder, WireOrder
<1>7. Underway(c, n) => n <= handled[c]
  BY <1>3 DEF Underway, AnswerOrder
<1> QED
  BY <1>1, <1>3, <1>6, <1>7 DEF ListOrder

\* A step that leaves alone what a client waits for.
LEMMA AwaitedKept ==
  ASSUME NEW d \in Channels, Awaited(d),
         due'[d] = due[d], sent'[d] = sent[d],
         \A n \in Nat : Unanswered(d, n)' \/ Underway(d, n)' <=> Unanswered(d, n) \/ Underway(d, n)
  PROVE  Awaited(d)'
<1>1. \A n \in Nat : IsDue(d, n)' <=> IsDue(d, n)
  BY DEF IsDue
<1>2. \A n \in Nat : IsDue(d, n)' <=> Unanswered(d, n)' \/ Underway(d, n)'
  BY <1>1 DEF Awaited
<1> QED
  BY <1>2 DEF Awaited

LEMMA UnansweredKept ==
  ASSUME NEW d \in Channels, NEW n \in Nat,
         rx'[d] = rx[d], in'[d] = in[d], c2s'[d] = c2s[d], Handled(d)' <=> Handled(d)
  PROVE  Unanswered(d, n)' <=> Unanswered(d, n)
<1>1. Unhandled(d)' = Unhandled(d)
  BY DEF Unhandled
<1> QED
  BY <1>1 DEF Unanswered

LEMMA UnderwayKept ==
  ASSUME NEW d \in Channels, NEW n \in Nat,
         tx'[d] = tx[d], s2c'[d] = s2c[d], mpc'[d] = "remove" <=> mpc[d] = "remove"
  PROVE  Underway(d, n)' <=> Underway(d, n)
  BY DEF Underway

\* The client sends one more command.
LEMMA AwaitedSend ==
  ASSUME Sound, Order, Exact, ~ Pipelined, NEW d \in Channels, Send(d), Undisturbed(d), Awaited(d)
  PROVE  Awaited(d)'
<1> DEFINE s == sent[d]
           l == Len(due[d])
<1>1. ce[d] = 1 /\ c2s[d][1] = <<>>
  BY UndisturbedIs DEF Send
<1>2. PICK p \in Packets :
        /\ p.n = s + 1
        /\ c2s'[d][1] = Append(c2s[d][1], p)
        /\ due'[d] = IF p.dac \in Answerable THEN Append(due[d], s + 1) ELSE due[d]
  BY <1>1, SendEffect
<1>3. Len(c2s'[d][1]) = 1 /\ c2s'[d][1][1] = p /\ Len(c2s[d][1]) = 0
  BY <1>1, <1>2
<1>4. sent'[d] = s + 1 /\ UNCHANGED <<rx, tx, in, mpc, s2c, cpc, turn>>
  BY SendEffect DEF server
<1>5. s \in Nat /\ due[d] \in Seq(Nat) /\ l \in Nat
  BY ChannelIs DEF Sound
<1>6. \A k \in 1 .. l : due[d][k] \in Nat /\ due[d][k] <= s
  BY <1>5 DEF Awaited
<1>7. /\ \A j, k \in 1 .. l : j < k => due[d][j] < due[d][k]
      /\ \A n \in Nat : IsDue(d, n) <=> Unanswered(d, n) \/ Underway(d, n)
  BY DEF Awaited
<1>8. ASSUME NEW n \in Nat
      PROVE  /\ Underway(d, n)' <=> Underway(d, n)
             /\ Unanswered(d, n)' <=> Unanswered(d, n) \/ (n = s + 1 /\ p.dac \in Answerable)
  <2>1. Underway(d, n)' <=> Underway(d, n)
    BY <1>4, UnderwayKept
  <2>2. Unhandled(d)' = Unhandled(d) /\ rx' = rx /\ in' = in
    BY <1>4 DEF Unhandled, Handled
  <2>3. (\E k \in 1 .. Len(c2s'[d][1]) : c2s'[d][1][k].n = n /\ c2s'[d][1][k].dac \in Answerable)
        <=> (n = s + 1 /\ p.dac \in Answerable)
    BY <1>2, <1>3
  <2>4. ~ \E k \in 1 .. Len(c2s[d][1]) : c2s[d][1][k].n = n /\ c2s[d][1][k].dac \in Answerable
    BY <1>3
  <2>5. Unanswered(d, n)' <=> Unanswered(d, n) \/ (n = s + 1 /\ p.dac \in Answerable)
    BY <2>2, <2>3, <2>4 DEF Unanswered
  <2> QED
    BY <2>1, <2>5
<1> HIDE DEF s, l
<1>9. CASE p.dac \in Answerable
  <2>1. /\ Len(due'[d]) = l + 1 /\ due'[d][l + 1] = s + 1
        /\ \A k \in 1 .. l : due'[d][k] = due[d][k]
    BY <1>2, <1>5, <1>9, Behind DEF l
  <2>2. \A k \in 1 .. l + 1 : k \in 1 .. l \/ k = l + 1
    BY <1>5
  <2>3. \A k \in 1 .. l + 1 : due'[d][k] <= s + 1
    BY <1>5, <1>6, <2>1, <2>2
  <2>4. ASSUME NEW j \in 1 .. l + 1, NEW k \in 1 .. l + 1, j < k
        PROVE  due'[d][j] < due'[d][k]
    <3>1. j \in 1 .. l
      BY <1>5, <2>4
    <3>2. due[d][j] \in Nat /\ due[d][j] <= s /\ due'[d][j] = due[d][j]
      BY <1>6, <2>1, <3>1
    <3>3. \A x \in Nat : x <= s => x < s + 1
      BY <1>5
    <3>4. CASE k \in 1 .. l
      BY <1>7, <2>1, <2>4, <3>1, <3>2, <3>4
    <3>5. CASE k = l + 1
      BY <2>1, <3>2, <3>3, <3>5
    <3> QED
      BY <2>2, <3>4, <3>5
  <2>5. ASSUME NEW n \in Nat
        PROVE  IsDue(d, n)' <=> IsDue(d, n) \/ n = s + 1
    <3>1. l + 1 \in 1 .. l + 1 /\ \A k \in 1 .. l : k \in 1 .. l + 1
      BY <1>5
    <3> QED
      BY <2>1, <2>2, <3>1 DEF IsDue, l
  <2>6. \A n \in Nat : IsDue(d, n)' <=> Unanswered(d, n)' \/ Underway(d, n)'
    BY <1>7, <1>8, <1>9, <2>5
  <2>7. \A j, k \in 1 .. l + 1 : j < k => due'[d][j] < due'[d][k]
    BY <2>4
  <2> QED
    BY <1>4, <2>1, <2>3, <2>6, <2>7 DEF Awaited
<1>10. CASE p.dac \notin Answerable
  <2>1. due'[d] = due[d]
    BY <1>2, <1>10
  <2>2. \A n \in Nat : IsDue(d, n)' <=> IsDue(d, n)
    BY <2>1 DEF IsDue
  <2>3. \A n \in Nat : IsDue(d, n)' <=> Unanswered(d, n)' \/ Underway(d, n)'
    BY <1>7, <1>8, <1>10, <2>2
  <2>4. \A k \in 1 .. l : due[d][k] <= s + 1
    BY <1>5, <1>6
  <2> QED
    BY <1>4, <1>7, <2>1, <2>3, <2>4 DEF Awaited, l
<1> QED
  BY <1>9, <1>10

\* The answer at the front is the one to the oldest command the client waits for.
LEMMA OldestFirst ==
  ASSUME Sound, Order, Exact, NEW d \in Channels, Undisturbed(d), Awaited(d), s2c[d] # <<>>
  PROVE  /\ Len(due[d]) \in Nat \ {0} /\ Len(s2c[d]) \in Nat \ {0}
         /\ due[d][1] \in Nat /\ s2c[d][1].n = due[d][1]
         /\ ~ Unanswered(d, due[d][1])
<1>1. /\ Len(s2c[d]) \in Nat \ {0} /\ Len(due[d]) \in Nat /\ due[d] \in Seq(Nat)
      /\ Len(tx[d]) \in Nat
  BY ChannelIs DEF Sound
<1>2. 1 \in 1 .. Len(s2c[d])
  BY <1>1
<1>3. /\ \A k \in 1 .. Len(s2c[d]) : s2c[d][k].n \in Nat
      /\ \A k \in 1 .. Len(tx[d]) : tx[d][k].n \in Nat
  BY NumbersAre DEF Sound
<1> DEFINE f == s2c[d][1].n
           h == handled[d]
<1>4. f \in Nat /\ h \in Nat
  BY <1>2, <1>3, Sides
<1>5. Underway(d, f)
  BY <1>2 DEF Underway
<1>6. IsDue(d, f)
  BY <1>4, <1>5 DEF Awaited
<1>7. PICK i \in 1 .. Len(due[d]) : due[d][i] = f
  BY <1>6 DEF IsDue
<1>8. Len(due[d]) \in Nat \ {0} /\ 1 \in 1 .. Len(due[d]) /\ due[d][1] \in Nat
  <2> DEFINE l == Len(due[d])
  <2>0. l \in Nat
    BY <1>1
  <2>3. i \in 1 .. l
    OBVIOUS
  <2>4. \A k \in 1 .. l : due[d][k] \in Nat
    <3>1. \A s \in Seq(Nat) : \A k \in 1 .. Len(s) : s[k] \in Nat
      OBVIOUS
    <3> QED
      BY <1>1, <3>1
  <2> HIDE DEF l
  <2>1. l \in Nat /\ i \in 1 .. l /\ \A k \in 1 .. l : due[d][k] \in Nat
    BY <2>0, <2>3, <2>4
  <2>2. l \in Nat \ {0} /\ 1 \in 1 .. l
    BY <2>1
  <2> QED
    BY <2>1, <2>2 DEF l
<1> DEFINE g == due[d][1]
<1>9. g \in Nat /\ IsDue(d, g)
  BY <1>8 DEF IsDue
<1>10. i = 1 \/ g < f
  BY <1>1, <1>7, <1>8 DEF Awaited
<1>11. f <= h
  BY <1>4, <1>5, Sides
<1> HIDE DEF f, g, h
<1>12. g <= f
  BY <1>4, <1>7, <1>9, <1>10 DEF g
<1>13. ~ Unanswered(d, g)
  <2>1. Unanswered(d, g) => h < g
    BY <1>9, Sides DEF h
  <2> QED
    BY <1>4, <1>9, <1>11, <1>12, <2>1
<1>14. Underway(d, g)
  BY <1>9, <1>13 DEF Awaited
<1>15. AnswerOrder(d)
  BY DEF Order
<1>16. \A k \in 1 .. Len(s2c[d]) : k = 1 \/ f < s2c[d][k].n
  BY <1>1, <1>2, <1>15 DEF AnswerOrder, f
<1>17. \A k \in 1 .. Len(tx[d]) : f < tx[d][k].n \/ (mpc[d] = "remove" /\ k = Len(tx[d]))
  BY <1>2, <1>15 DEF AnswerOrder, f
<1>18. g = f \/ f < g
  BY <1>14, <1>16, <1>17 DEF Underway, f
<1>19. g = f
  BY <1>4, <1>9, <1>12, <1>18
<1> QED
  BY <1>1, <1>8, <1>13, <1>19 DEF f, g

\* The client takes the answer at the front.
LEMMA AwaitedReceive ==
  ASSUME Sound, Order, Exact, NEW d \in Channels, Receive(d), Undisturbed(d), Awaited(d)
  PROVE  Awaited(d)'
<1> DEFINE l == Len(due[d])
           m == Len(s2c[d])
           g == due[d][1]
<1>1. s2c[d] # <<>> /\ due[d] # <<>> /\ due'[d] = Tail(due[d]) /\ s2c'[d] = Tail(s2c[d])
  BY ReceiveEffect DEF Sound
<1>2. UNCHANGED <<rx, tx, mpc, in, cpc, turn, c2s, sent>>
  BY ReceiveEffect DEF Sound, server
<1>3. l \in Nat \ {0} /\ m \in Nat \ {0} /\ g \in Nat /\ s2c[d][1].n = g /\ ~ Unanswered(d, g)
  BY <1>1, OldestFirst
<1>4. due[d] \in Seq(Nat) /\ s2c[d] \in Seq(Packets) /\ Len(tx[d]) \in Nat
  BY ChannelIs DEF Sound
<1>5. Len(due'[d]) = l - 1 /\ \A k \in 1 .. l - 1 : due'[d][k] = due[d][k + 1]
  BY <1>1, <1>4, Rest
<1>6. Len(s2c'[d]) = m - 1 /\ \A k \in 1 .. m - 1 : s2c'[d][k] = s2c[d][k + 1]
  BY <1>1, <1>4, Rest
<1>7. /\ \A j, k \in 1 .. l : j < k => due[d][j] < due[d][k]
      /\ \A k \in 1 .. l : due[d][k] <= sent[d]
      /\ \A n \in Nat : IsDue(d, n) <=> Unanswered(d, n) \/ Underway(d, n)
  BY DEF Awaited
<1>8. AnswerOrder(d)
  BY DEF Order
<1>9. /\ \A k \in 1 .. m : k # 1 => g < s2c[d][k].n
      /\ \A k \in 1 .. Len(tx[d]) : g < tx[d][k].n \/ (mpc[d] = "remove" /\ k = Len(tx[d]))
  BY <1>3, <1>8 DEF AnswerOrder
<1> HIDE DEF l, m, g
<1>10. \A k \in 1 .. l - 1 : k + 1 \in 1 .. l /\ k + 1 # 1
  BY <1>3
<1>11. \A k \in 1 .. m - 1 : k + 1 \in 1 .. m /\ k + 1 # 1
  BY <1>3
<1>12. \A k \in 1 .. l : k = 1 \/ (k - 1 \in 1 .. l - 1 /\ (k - 1) + 1 = k)
  BY <1>3
<1>13. \A k \in 1 .. m : k = 1 \/ (k - 1 \in 1 .. m - 1 /\ (k - 1) + 1 = k)
  BY <1>3
<1>14. ASSUME NEW n \in Nat
       PROVE  IsDue(d, n)' <=> IsDue(d, n) /\ n # g
  <2>1. ASSUME NEW k \in 1 .. l - 1, due'[d][k] = n
        PROVE  IsDue(d, n) /\ n # g
    <3>1. k + 1 \in 1 .. l /\ due[d][k + 1] = n /\ 1 \in 1 .. l /\ 1 < k + 1
      BY <1>3, <1>5, <1>10, <2>1
    <3>2. g < n
      BY <1>7, <3>1 DEF g
    <3> QED
      BY <1>3, <3>1, <3>2 DEF IsDue, l
  <2>2. ASSUME NEW k \in 1 .. l, due[d][k] = n, n # g
        PROVE  IsDue(d, n)'
    <3>1. k # 1
      BY <2>2 DEF g
    <3>2. k - 1 \in 1 .. l - 1 /\ due'[d][k - 1] = n
      BY <1>5, <1>12, <2>2, <3>1
    <3> QED
      BY <1>5, <3>2 DEF IsDue
  <2>3. IsDue(d, n)' => \E k \in 1 .. l - 1 : due'[d][k] = n
    BY <1>5 DEF IsDue
  <2> QED
    BY <2>1, <2>2, <2>3 DEF IsDue, l
<1>15. ASSUME NEW n \in Nat
       PROVE  Underway(d, n)' <=> Underway(d, n) /\ n # g
  <2>1. ASSUME NEW k \in 1 .. m - 1, s2c'[d][k].n = n
        PROVE  Underway(d, n) /\ n # g
    <3>1. k + 1 \in 1 .. m /\ s2c[d][k + 1].n = n
      BY <1>6, <1>11, <2>1
    <3>2. g < n
      BY <1>9, <1>11, <3>1
    <3> QED
      BY <1>3, <3>1, <3>2 DEF Underway, m
  <2>2. ASSUME NEW k \in 1 .. m, s2c[d][k].n = n, n # g
        PROVE  Underway(d, n)'
    <3>1. k # 1
      BY <1>3, <2>2
    <3>2. k - 1 \in 1 .. m - 1 /\ s2c'[d][k - 1].n = n
      BY <1>6, <1>13, <2>2, <3>1
    <3> QED
      BY <1>6, <3>2 DEF Underway
  <2>3. ASSUME NEW k \in 1 .. Len(tx[d]), tx[d][k].n = n, ~ (mpc[d] = "remove" /\ k = Len(tx[d]))
        PROVE  Underway(d, n) /\ n # g /\ Underway(d, n)'
    <3>1. g < n
      BY <1>9, <2>3
    <3>2. Underway(d, n) /\ Underway(d, n)'
      BY <1>2, <2>3 DEF Underway
    <3> QED
      BY <1>3, <3>1, <3>2
  <2>4. Underway(d, n)' => \/ \E k \in 1 .. m - 1 : s2c'[d][k].n = n
                           \/ \E k \in 1 .. Len(tx[d]) : tx[d][k].n = n /\ ~ (mpc[d] = "remove" /\ k = Len(tx[d]))
    BY <1>2, <1>6 DEF Underway
  <2>5. Underway(d, n) => \/ \E k \in 1 .. m : s2c[d][k].n = n
                          \/ \E k \in 1 .. Len(tx[d]) : tx[d][k].n = n /\ ~ (mpc[d] = "remove" /\ k = Len(tx[d]))
    BY DEF Underway, m
  <2> QED
    BY <2>1, <2>2, <2>3, <2>4, <2>5
<1>16. \A n \in Nat : Unanswered(d, n)' <=> Unanswered(d, n)
  <2>1. Handled(d)' <=> Handled(d)
    BY <1>2 DEF Handled
  <2> QED
    BY <1>2, <2>1, UnansweredKept
<1>17. \A n \in Nat : IsDue(d, n)' <=> Unanswered(d, n)' \/ Underway(d, n)'
  BY <1>3, <1>7, <1>14, <1>15, <1>16
<1>18. \A k \in 1 .. l - 1 : due'[d][k] <= sent[d]
  BY <1>5, <1>7, <1>10
<1>19. ASSUME NEW j \in 1 .. l - 1, NEW k \in 1 .. l - 1, j < k
       PROVE  due'[d][j] < due'[d][k]
  <2>1. j + 1 < k + 1
    BY <1>3, <1>19
  <2> QED
    BY <1>5, <1>7, <1>10, <2>1
<1>20. \A j, k \in 1 .. l - 1 : j < k => due'[d][j] < due'[d][k]
  BY <1>19
<1> QED
  BY <1>2, <1>5, <1>17, <1>18, <1>20 DEF Awaited

\* The server reads a command, and adds it to the list.
LEMMA AwaitedRecv ==
  ASSUME Sound, Order, Exact, NEW d \in Channels, RecvData(d), Undisturbed(d), Awaited(d)
  PROVE  Awaited(d)'
<1>1. se[d] = 1 /\ c2s[d][1] \in Seq(Packets) /\ Len(c2s[d][1]) \in Nat
  BY RecvEffect, UndisturbedIs
<1>2. /\ in'[d] = c2s[d][1][1] /\ in'[d] \in Packets /\ in[d] = None
      /\ Len(c2s[d][1]) > 0 /\ c2s'[d][1] = <<>>
      /\ mpc[d] = "recv" /\ mpc'[d] = "push"
      /\ UNCHANGED <<rx, tx, cpc, turn, s2c, sent, due>>
  BY <1>1, RecvEffect DEF main, client
<1>3. NoGap(d)
  BY DEF Exact
<1>4. Len(c2s[d][1]) = 1 /\ Len(c2s'[d][1]) = 0
  <2> DEFINE q == Len(c2s[d][1])
  <2>1. Len(c2s'[d][1]) = 0
    BY <1>2
  <2>2. q \in Nat /\ q > 0 /\ q <= 1
    BY <1>1, <1>2, <1>3 DEF NoGap
  <2> HIDE DEF q
  <2>3. q = 1
    BY <2>2
  <2> QED
    BY <2>1, <2>3 DEF q
<1>5. in'[d] # None
  BY <1>2, PacketIs
<1>6. ASSUME NEW n \in Nat
      PROVE  Unanswered(d, n)' \/ Underway(d, n)' <=> Unanswered(d, n) \/ Underway(d, n)
  <2>1. Underway(d, n)' <=> Underway(d, n)
    BY <1>2, UnderwayKept
  <2>2. Unhandled(d)' = Unhandled(d)
    BY <1>2 DEF Unhandled, Handled
  <2>3. (\E k \in 1 .. Len(c2s[d][1]) : c2s[d][1][k].n = n /\ c2s[d][1][k].dac \in Answerable)
        <=> in'[d].n = n /\ in'[d].dac \in Answerable
    BY <1>2, <1>4
  <2>4. ~ \E k \in 1 .. Len(c2s'[d][1]) : c2s'[d][1][k].n = n /\ c2s'[d][1][k].dac \in Answerable
    BY <1>4
  <2>5. Unanswered(d, n)' <=> Unanswered(d, n)
    BY <1>2, <1>5, <2>2, <2>3, <2>4 DEF Unanswered
  <2> QED
    BY <2>1, <2>5
<1> QED
  BY <1>2, <1>6, AwaitedKept

LEMMA AwaitedPush ==
  ASSUME Sound, Order, Exact, NEW d \in Channels, Push(d), Undisturbed(d), Awaited(d)
  PROVE  Awaited(d)'
<1> DEFINE u == Unhandled(d)
           l == Len(rx[d])
<1>1. /\ in[d] \in Packets /\ in'[d] = None /\ Len(rx'[d]) = l + 1
      /\ rx'[d][1] = in[d] /\ \A k \in 1 .. l : rx'[d][k + 1] = rx[d][k]
      /\ mpc[d] = "push" /\ mpc'[d] = "peek"
      /\ UNCHANGED <<tx, cpc, turn, c2s, s2c, sent, due>>
  BY PushEffect DEF main, client, wire
<1>2. u \in Nat /\ l \in Nat /\ u <= l
  BY UnhandledIs
<1>3. in[d] # None
  BY <1>1, PacketIs
<1>4. Unhandled(d)' = u + 1
  BY <1>1, <1>2 DEF Unhandled, Handled
<1> HIDE DEF u, l
<1>5. /\ \A k \in 1 .. u : k + 1 \in 1 .. u + 1 /\ k \in 1 .. l
      /\ \A k \in 1 .. u + 1 : k = 1 \/ (k - 1 \in 1 .. u /\ (k - 1) + 1 = k)
      /\ 1 \in 1 .. u + 1
  BY <1>2
<1>6. ASSUME NEW n \in Nat
      PROVE  (\E k \in 1 .. u + 1 : rx'[d][k].n = n /\ rx'[d][k].dac \in Answerable)
             <=> \/ \E k \in 1 .. u : rx[d][k].n = n /\ rx[d][k].dac \in Answerable
                 \/ in[d].n = n /\ in[d].dac \in Answerable
  <2>1. ASSUME NEW k \in 1 .. u + 1, rx'[d][k].n = n, rx'[d][k].dac \in Answerable
        PROVE  \/ \E i \in 1 .. u : rx[d][i].n = n /\ rx[d][i].dac \in Answerable
               \/ in[d].n = n /\ in[d].dac \in Answerable
    <3>1. CASE k = 1
      BY <1>1, <2>1, <3>1
    <3>2. CASE k # 1
      <4>1. k - 1 \in 1 .. u /\ (k - 1) + 1 = k /\ k - 1 \in 1 .. l
        BY <1>5, <3>2
      <4>2. rx[d][k - 1] = rx'[d][k]
        BY <1>1, <4>1
      <4> QED
        BY <2>1, <4>1, <4>2
    <3> QED
      BY <3>1, <3>2
  <2>2. ASSUME NEW k \in 1 .. u, rx[d][k].n = n, rx[d][k].dac \in Answerable
        PROVE  \E i \in 1 .. u + 1 : rx'[d][i].n = n /\ rx'[d][i].dac \in Answerable
    <3>1. k + 1 \in 1 .. u + 1 /\ rx'[d][k + 1] = rx[d][k]
      BY <1>1, <1>5
    <3> QED
      BY <2>2, <3>1
  <2>3. in[d].n = n /\ in[d].dac \in Answerable
        => \E i \in 1 .. u + 1 : rx'[d][i].n = n /\ rx'[d][i].dac \in Answerable
    BY <1>1, <1>5
  <2> QED
    BY <2>1, <2>2, <2>3
<1>7. ASSUME NEW n \in Nat
      PROVE  Unanswered(d, n)' \/ Underway(d, n)' <=> Unanswered(d, n) \/ Underway(d, n)
  <2>1. Underway(d, n)' <=> Underway(d, n)
    BY <1>1, UnderwayKept
  <2>2. Unanswered(d, n)' <=> Unanswered(d, n)
    BY <1>1, <1>3, <1>4, <1>6 DEF Unanswered, u
  <2> QED
    BY <2>1, <2>2
<1> QED
  BY <1>1, <1>7, AwaitedKept

\* The manager sends an answer, and removes it.
LEMMA AwaitedSendOut ==
  ASSUME Sound, NEW d \in Channels, SendOut(d), Awaited(d)
  PROVE  Awaited(d)'
<1> DEFINE m == Len(s2c[d])
           t == Len(tx[d])
           o == out[d]
<1>1. /\ t > 0 /\ tx[d][t] = o
      /\ Len(s2c'[d]) = m + 1 /\ s2c'[d][m + 1] = o /\ \A k \in 1 .. m : s2c'[d][k] = s2c[d][k]
      /\ mpc[d] = "send" /\ mpc'[d] = "remove"
      /\ UNCHANGED <<rx, tx, in, cpc, turn, c2s, sent, due>>
  BY SendOutEffect DEF main, client
<1>2. m \in Nat /\ t \in Nat
  BY ChannelIs DEF Sound
<1> HIDE DEF m, t, o
<1>3. t \in 1 .. t /\ m + 1 \in 1 .. m + 1 /\ (\A k \in 1 .. m : k \in 1 .. m + 1)
      /\ \A k \in 1 .. m + 1 : k \in 1 .. m \/ k = m + 1
  BY <1>1, <1>2
<1>4. ASSUME NEW n \in Nat
      PROVE  Unanswered(d, n)' \/ Underway(d, n)' <=> Unanswered(d, n) \/ Underway(d, n)
  <2>1. Unanswered(d, n)' <=> Unanswered(d, n)
    BY <1>1, UnansweredKept DEF Handled
  <2>2. (\E k \in 1 .. m + 1 : s2c'[d][k].n = n) <=> (\E k \in 1 .. m : s2c[d][k].n = n) \/ o.n = n
    BY <1>1, <1>3
  <2>3. (\E k \in 1 .. t : tx[d][k].n = n) <=> (\E k \in 1 .. t : tx[d][k].n = n /\ k # t) \/ o.n = n
    BY <1>1, <1>3
  <2>4. Underway(d, n) <=> (\E k \in 1 .. m : s2c[d][k].n = n) \/ (\E k \in 1 .. t : tx[d][k].n = n)
    BY <1>1 DEF Underway, m, t
  <2>5. Underway(d, n)' <=> \/ \E k \in 1 .. m + 1 : s2c'[d][k].n = n
                            \/ \E k \in 1 .. t : tx[d][k].n = n /\ k # t
    BY <1>1 DEF Underway, t
  <2> QED
    BY <2>1, <2>2, <2>3, <2>4, <2>5
<1> QED
  BY <1>1, <1>4, AwaitedKept

LEMMA AwaitedRemoveSent ==
  ASSUME Sound, NEW d \in Channels, RemoveSent(d), Awaited(d)
  PROVE  Awaited(d)'
<1> DEFINE t == Len(tx[d])
<1>1. /\ t \in Nat \ {0} /\ Len(tx'[d]) = t - 1 /\ \A k \in 1 .. t - 1 : tx'[d][k] = tx[d][k]
      /\ mpc[d] = "remove" /\ mpc'[d] = "recv"
      /\ UNCHANGED <<rx, in, cpc, turn, c2s, s2c, sent, due>>
  BY RemoveSentEffect DEF main, client, wire
<1> HIDE DEF t
<1>2. /\ \A k \in 1 .. t - 1 : k \in 1 .. t /\ k # t
      /\ \A k \in 1 .. t : k = t \/ k \in 1 .. t - 1
  BY <1>1
<1>3. ASSUME NEW n \in Nat
      PROVE  Unanswered(d, n)' \/ Underway(d, n)' <=> Unanswered(d, n) \/ Underway(d, n)
  <2>1. Unanswered(d, n)' <=> Unanswered(d, n)
    BY <1>1, UnansweredKept DEF Handled
  <2>2. (\E k \in 1 .. t - 1 : tx'[d][k].n = n) <=> (\E k \in 1 .. t : tx[d][k].n = n /\ k # t)
    BY <1>1, <1>2
  <2>3. Underway(d, n) <=> \/ \E k \in 1 .. Len(s2c[d]) : s2c[d][k].n = n
                           \/ \E k \in 1 .. t : tx[d][k].n = n /\ k # t
    BY <1>1 DEF Underway, t
  <2>4. Underway(d, n)' <=> \/ \E k \in 1 .. Len(s2c[d]) : s2c[d][k].n = n
                            \/ \E k \in 1 .. t - 1 : tx'[d][k].n = n
    BY <1>1 DEF Underway
  <2> QED
    BY <2>1, <2>2, <2>3, <2>4
<1> QED
  BY <1>1, <1>3, AwaitedKept

\* Main answers the oldest command, or changes the configuration as it says.
LEMMA AwaitedAnswer ==
  ASSUME Sound, Order, Exact, NEW d \in Channels, d = turn, HandleReq \/ HandleDbg,
         Undisturbed(d), Awaited(d)
  PROVE  Awaited(d)'
<1> DEFINE u == Unhandled(d)
           t == Len(tx[d])
           m == hand.n
<1>1. /\ Len(tx'[d]) = t + 1 /\ tx'[d][1].n = m /\ \A k \in 1 .. t : tx'[d][k + 1] = tx[d][k]
      /\ hand.dac \in Answerable
      /\ UNCHANGED <<rx, in, c2s, sent, mpc, s2c, due>>
  BY AnswerEffect DEF manager, client, wire
<1>2. t \in Nat
  BY ChannelIs DEF Sound
<1>3. u \in Nat \ {0} /\ Unhandled(d)' = u - 1 /\ rx[d][u] = hand
  BY GapHandle DEF Exact
<1>4. mpc[d] = "remove" => t > 0
  BY DEF Sound, Holds
<1> HIDE DEF u, t
<1>5. /\ \A k \in 1 .. u : k \in 1 .. u - 1 \/ k = u
      /\ \A k \in 1 .. u - 1 : k \in 1 .. u
      /\ u \in 1 .. u
  BY <1>3
<1>6. /\ \A k \in 1 .. t + 1 : k = 1 \/ (k - 1 \in 1 .. t /\ (k - 1) + 1 = k)
      /\ \A k \in 1 .. t : k + 1 \in 1 .. t + 1 /\ (k = t <=> k + 1 = t + 1)
      /\ 1 \in 1 .. t + 1
      /\ t > 0 => 1 # t + 1
  BY <1>2
<1>7. ASSUME NEW n \in Nat
      PROVE  Unanswered(d, n) <=> Unanswered(d, n)' \/ n = m
  <2>1. (\E k \in 1 .. u : rx[d][k].n = n /\ rx[d][k].dac \in Answerable)
        <=> (\E k \in 1 .. u - 1 : rx[d][k].n = n /\ rx[d][k].dac \in Answerable) \/ n = m
    BY <1>1, <1>3, <1>5
  <2> QED
    BY <1>1, <1>3, <2>1 DEF Unanswered, u
<1>8. ASSUME NEW n \in Nat
      PROVE  Underway(d, n)' <=> Underway(d, n) \/ n = m
  <2>1. ASSUME NEW k \in 1 .. t, tx[d][k].n = n, ~ (mpc[d] = "remove" /\ k = t)
        PROVE  Underway(d, n)'
    <3>1. k + 1 \in 1 .. t + 1 /\ tx'[d][k + 1].n = n /\ ~ (mpc'[d] = "remove" /\ k + 1 = t + 1)
      BY <1>1, <1>6, <2>1
    <3> QED
      BY <1>1, <3>1 DEF Underway
  <2>2. n = m => Underway(d, n)'
    BY <1>1, <1>4, <1>6 DEF Underway
  <2>3. ASSUME NEW k \in 1 .. t + 1, tx'[d][k].n = n, ~ (mpc'[d] = "remove" /\ k = t + 1), n # m
        PROVE  \E i \in 1 .. t : tx[d][i].n = n /\ ~ (mpc[d] = "remove" /\ i = t)
    <3>1. k - 1 \in 1 .. t /\ (k - 1) + 1 = k
      BY <1>1, <1>6, <2>3
    <3>2. tx[d][k - 1].n = n /\ ~ (mpc[d] = "remove" /\ k - 1 = t)
      BY <1>1, <2>3, <3>1
    <3> QED
      BY <3>1, <3>2
  <2>4. (\E k \in 1 .. Len(s2c'[d]) : s2c'[d][k].n = n) <=> (\E k \in 1 .. Len(s2c[d]) : s2c[d][k].n = n)
    BY <1>1
  <2>5. Underway(d, n) <=> \/ \E k \in 1 .. Len(s2c[d]) : s2c[d][k].n = n
                           \/ \E k \in 1 .. t : tx[d][k].n = n /\ ~ (mpc[d] = "remove" /\ k = t)
    BY DEF Underway, t
  <2>6. Underway(d, n)' <=> \/ \E k \in 1 .. Len(s2c'[d]) : s2c'[d][k].n = n
                            \/ \E k \in 1 .. t + 1 : tx'[d][k].n = n /\ ~ (mpc'[d] = "remove" /\ k = t + 1)
    BY <1>1 DEF Underway
  <2> QED
    BY <2>1, <2>2, <2>3, <2>4, <2>5, <2>6
<1>9. \A n \in Nat : Unanswered(d, n)' \/ Underway(d, n)' <=> Unanswered(d, n) \/ Underway(d, n)
  BY <1>7, <1>8
<1> QED
  BY <1>1, <1>9, AwaitedKept

LEMMA AwaitedMdfy ==
  ASSUME Sound, Order, Exact, NEW d \in Channels, d = turn, HandleMdfy, Undisturbed(d), Awaited(d)
  PROVE  Awaited(d)'
<1> DEFINE u == Unhandled(d)
<1>1. /\ hand.dac = "MDFY"
      /\ UNCHANGED <<rx, in, c2s, sent, tx, mpc, s2c, due>>
  BY MdfyEffect DEF manager, client, wire
<1>2. u \in Nat \ {0} /\ Unhandled(d)' = u - 1 /\ rx[d][u] = hand
  BY GapHandle DEF Exact
<1> HIDE DEF u
<1>3. /\ \A k \in 1 .. u : k \in 1 .. u - 1 \/ k = u
      /\ \A k \in 1 .. u - 1 : k \in 1 .. u
  BY <1>2
<1>4. rx[d][u].dac \notin Answerable
  BY <1>1, <1>2 DEF Answerable
<1>5. ASSUME NEW n \in Nat
      PROVE  Unanswered(d, n)' \/ Underway(d, n)' <=> Unanswered(d, n) \/ Underway(d, n)
  <2>1. Underway(d, n)' <=> Underway(d, n)
    BY <1>1, UnderwayKept
  <2>2. (\E k \in 1 .. u : rx[d][k].n = n /\ rx[d][k].dac \in Answerable)
        <=> (\E k \in 1 .. u - 1 : rx[d][k].n = n /\ rx[d][k].dac \in Answerable)
    BY <1>3, <1>4
  <2>3. Unanswered(d, n)' <=> Unanswered(d, n)
    BY <1>1, <1>2, <2>2 DEF Unanswered, u
  <2> QED
    BY <2>1, <2>3
<1> QED
  BY <1>1, <1>5, AwaitedKept

\* Main removes the command it has handled.
LEMMA AwaitedRemove ==
  ASSUME Sound, Order, Exact, NEW d \in Channels, d = turn, RemoveHandled, Undisturbed(d), Awaited(d)
  PROVE  Awaited(d)'
<1> DEFINE u == Unhandled(d)
<1>1. /\ \A k \in 1 .. Len(rx[d]) - 1 : rx'[d][k] = rx[d][k]
      /\ UNCHANGED <<in, c2s, sent, tx, mpc, s2c, due>>
  BY HandledEffect DEF manager, client, wire
<1>2. Unhandled(d)' = u /\ u = Len(rx[d]) - 1
  BY GapRemove DEF Exact
<1> HIDE DEF u
<1>3. \A k \in 1 .. u : rx'[d][k] = rx[d][k]
  BY <1>1, <1>2
<1>4. ASSUME NEW n \in Nat
      PROVE  Unanswered(d, n)' \/ Underway(d, n)' <=> Unanswered(d, n) \/ Underway(d, n)
  <2>1. Underway(d, n)' <=> Underway(d, n)
    BY <1>1, UnderwayKept
  <2>2. (\E k \in 1 .. u : rx'[d][k].n = n /\ rx'[d][k].dac \in Answerable)
        <=> (\E k \in 1 .. u : rx[d][k].n = n /\ rx[d][k].dac \in Answerable)
    BY <1>3
  <2>3. Unanswered(d, n)' <=> Unanswered(d, n)
    BY <1>1, <1>2, <2>2 DEF Unanswered, u
  <2> QED
    BY <2>1, <2>3
<1> QED
  BY <1>1, <1>4, AwaitedKept

\* A client that connects for the first time waits for nothing.
LEMMA AwaitedConnect ==
  ASSUME Sound, Exact, NEW d \in Channels, Connect(d), ce[d] = 0
  PROVE  Awaited(d)'
<1>1. /\ Unused(d) /\ Links(d) /\ ce[d] \in Nat /\ se[d] \in Nat /\ MaxConn[d] \in Nat
  BY ChannelIs DEF Exact, Sound
<1>2. in[d] = None
  BY <1>1 DEF Links
<1>3. /\ ce[d] < MaxConn[d] /\ ~ open[d]
      /\ UNCHANGED <<rx, tx, in, mpc, c2s, s2c, due, cpc, turn>>
  BY DEF Connect, server, wire
<1>4. 1 \in 1 .. MaxConn[d]
  BY <1>1, <1>3
<1>5. c2s[d][1] = <<>> /\ s2c[d] = <<>> /\ due[d] = <<>>
  BY <1>1, <1>3, <1>4 DEF Links
<1>6. Unhandled(d) \in Nat /\ Unhandled(d) <= Len(rx[d])
  BY UnhandledIs
<1>7. Len(rx[d]) = 0 /\ Len(tx[d]) = 0
  BY <1>1 DEF Unused
<1>8. Unhandled(d)' = 0
  <2>1. Unhandled(d) = 0
    BY <1>6, <1>7
  <2>2. Unhandled(d)' = Unhandled(d)
    BY <1>3 DEF Unhandled, Handled
  <2> QED
    BY <2>1, <2>2
<1>9. /\ Len(due'[d]) = 0 /\ Len(s2c'[d]) = 0 /\ Len(tx'[d]) = 0 /\ Len(c2s'[d][1]) = 0
      /\ in'[d] = None
  BY <1>2, <1>3, <1>5, <1>7
<1>10. \A n \in Nat : ~ IsDue(d, n)' /\ ~ Unanswered(d, n)' /\ ~ Underway(d, n)'
  BY <1>8, <1>9 DEF IsDue, Unanswered, Underway
<1> QED
  BY <1>9, <1>10 DEF Awaited

LEMMA AwaitedStep ==
  ASSUME Sound, Order, Exact, Awaits, [Next]_vars, ~ Pipelined, NEW d \in Channels
  PROVE  Undisturbed(d)' => Awaited(d)'
<1>1. TypeOK /\ turn \in Channels
  BY DEF Sound, TypeOK
<1>2. CASE ~ Undisturbed(d)
  BY <1>2, Disturbed, AwaitedConnect
<1> SUFFICES ASSUME Undisturbed(d), Undisturbed(d)'
             PROVE  Awaited(d)'
  BY <1>2
<1>3. Awaited(d)
  BY DEF Awaits
<1>4. ASSUME UNCHANGED <<due[d], sent[d], rx[d], in[d], c2s[d], tx[d], s2c[d]>>,
             Handled(d)' <=> Handled(d), mpc'[d] = "remove" <=> mpc[d] = "remove"
      PROVE  Awaited(d)'
  BY <1>3, <1>4, AwaitedKept, UnansweredKept, UnderwayKept
<1>5. ASSUME NEW c \in Channels, Send(c)
      PROVE  Awaited(d)'
  <2>1. CASE c = d
    BY <1>3, <1>5, <2>1, AwaitedSend
  <2>2. CASE c # d
    <3>1. c2s'[d] = c2s[d] /\ sent'[d] = sent[d] /\ due'[d] = due[d]
      BY <1>5, <2>2, SendEffect
    <3>2. UNCHANGED <<rx, in, tx, s2c, mpc, cpc, turn>>
      BY <1>5, SendEffect DEF server
    <3> QED
      BY <1>4, <3>1, <3>2 DEF Handled
  <2> QED
    BY <2>1, <2>2
<1>6. ASSUME NEW c \in Channels, RecvData(c)
      PROVE  Awaited(d)'
  <2>1. CASE c = d
    BY <1>3, <1>6, <2>1, AwaitedRecv
  <2>2. CASE c # d
    <3>1. c2s'[d] = c2s[d] /\ in'[d] = in[d] /\ mpc'[d] = mpc[d]
      BY <1>6, <2>2, RecvEffect
    <3>2. UNCHANGED <<rx, tx, s2c, sent, due, cpc, turn>>
      BY <1>6, RecvEffect DEF main, client
    <3> QED
      BY <1>4, <3>1, <3>2 DEF Handled
  <2> QED
    BY <2>1, <2>2
<1>7. ASSUME NEW c \in Channels, Push(c)
      PROVE  Awaited(d)'
  <2>1. CASE c = d
    BY <1>3, <1>7, <2>1, AwaitedPush
  <2>2. CASE c # d
    <3>1. rx'[d] = rx[d] /\ in'[d] = in[d] /\ mpc'[d] = mpc[d]
      BY <1>7, <2>2, PushEffect
    <3>2. UNCHANGED <<c2s, tx, s2c, sent, due, cpc, turn>>
      BY <1>7, PushEffect DEF main, client, wire
    <3> QED
      BY <1>4, <3>1, <3>2 DEF Handled
  <2> QED
    BY <2>1, <2>2
<1>8. ASSUME NEW c \in Channels, SendOut(c)
      PROVE  Awaited(d)'
  <2>1. CASE c = d
    BY <1>3, <1>8, <2>1, AwaitedSendOut
  <2>2. CASE c # d
    <3>1. s2c'[d] = s2c[d] /\ mpc'[d] = mpc[d]
      BY <1>8, <2>2, SendOutEffect
    <3>2. UNCHANGED <<c2s, rx, tx, in, sent, due, cpc, turn>>
      BY <1>8, SendOutEffect DEF main, client
    <3> QED
      BY <1>4, <3>1, <3>2 DEF Handled
  <2> QED
    BY <2>1, <2>2
<1>9. ASSUME NEW c \in Channels, RemoveSent(c)
      PROVE  Awaited(d)'
  <2>1. CASE c = d
    BY <1>3, <1>9, <2>1, AwaitedRemoveSent
  <2>2. CASE c # d
    <3>1. tx'[d] = tx[d] /\ mpc'[d] = mpc[d]
      BY <1>9, <2>2, RemoveSentEffect
    <3>2. UNCHANGED <<c2s, rx, s2c, in, sent, due, cpc, turn>>
      BY <1>9, RemoveSentEffect DEF main, client, wire
    <3> QED
      BY <1>4, <3>1, <3>2 DEF Handled
  <2> QED
    BY <2>1, <2>2
<1>10. ASSUME NEW c \in Channels, Receive(c)
       PROVE  Awaited(d)'
  <2>1. CASE c = d
    BY <1>3, <1>10, <2>1, AwaitedReceive
  <2>2. CASE c # d
    <3>1. due'[d] = due[d] /\ s2c'[d] = s2c[d]
      BY <1>1, <1>10, <2>2, ReceiveEffect
    <3>2. UNCHANGED <<c2s, rx, tx, mpc, in, sent, cpc, turn>>
      BY <1>1, <1>10, ReceiveEffect DEF server
    <3> QED
      BY <1>4, <3>1, <3>2 DEF Handled
  <2> QED
    BY <2>1, <2>2
<1>11. ASSUME NEW c \in Channels, Close(c)
       PROVE  Awaited(d)'
  <2>1. CASE c = d
    <3>1. ~ open'[d]
      BY <1>1, <1>11, <2>1, CloseEffect
    <3> QED
      BY <3>1 DEF Undisturbed
  <2>2. CASE c # d
    <3>1. due'[d] = due[d] /\ s2c'[d] = s2c[d]
      BY <1>1, <1>11, <2>2, CloseEffect
    <3>2. UNCHANGED <<c2s, rx, tx, mpc, in, sent, cpc, turn>>
      BY <1>1, <1>11, CloseEffect DEF server
    <3> QED
      BY <1>4, <3>1, <3>2 DEF Handled
  <2> QED
    BY <2>1, <2>2
<1>12. ASSUME HandleReq \/ HandleDbg
       PROVE  Awaited(d)'
  <2>1. CASE d = turn
    BY <1>3, <1>12, <2>1, AwaitedAnswer
  <2>2. CASE d # turn
    <3>1. /\ ~ Handled(d) /\ ~ Handled(d)'
          /\ UNCHANGED <<rx, in, c2s, sent, mpc, s2c>>
      BY <1>12, <2>2, HandleNext
    <3>2. tx'[d] = tx[d] /\ due' = due
      BY <1>12, <2>2, AnswerEffect DEF client
    <3> QED
      BY <1>4, <3>1, <3>2
  <2> QED
    BY <2>1, <2>2
<1>13. ASSUME HandleMdfy
       PROVE  Awaited(d)'
  <2>1. CASE d = turn
    BY <1>3, <1>13, <2>1, AwaitedMdfy
  <2>2. CASE d # turn
    <3>1. /\ ~ Handled(d) /\ ~ Handled(d)'
          /\ UNCHANGED <<rx, in, c2s, sent, mpc, s2c>>
      BY <1>13, <2>2, HandleNext
    <3>2. tx' = tx /\ due' = due
      BY <1>13, MdfyEffect DEF client
    <3> QED
      BY <1>4, <3>1, <3>2
  <2> QED
    BY <2>1, <2>2
<1>14. ASSUME RemoveHandled
       PROVE  Awaited(d)'
  <2>1. CASE d = turn
    BY <1>3, <1>14, <2>1, AwaitedRemove
  <2>2. CASE d # turn
    <3>1. rx'[d] = rx[d] /\ cpc' = "back" /\ UNCHANGED <<in, c2s, sent, due, tx, mpc, s2c>>
      BY <1>14, <2>2, HandledEffect DEF manager, client, wire
    <3>2. ~ Handled(d) /\ ~ Handled(d)'
      BY <2>2, <3>1 DEF Handled
    <3> QED
      BY <1>4, <3>1, <3>2
  <2> QED
    BY <2>1, <2>2
<1>15. ASSUME Restart
       PROVE  Awaited(d)'
  BY <1>15 DEF Restart, Undisturbed
<1>16. ASSUME UNCHANGED <<rx, tx, in, c2s, s2c, sent, due>>, mpc'[d] = "remove" <=> mpc[d] = "remove",
              ~ HandleReq, ~ HandleDbg, ~ HandleMdfy, ~ RemoveHandled, ~ Restart
       PROVE  Awaited(d)'
  BY <1>4, <1>16, HandledStep
<1>17. ASSUME NEW c \in Channels,
              Accept(c) \/ RecvNothing(c) \/ RecvClosed(c) \/ Peek(c) \/ Check(c) \/ SendFull(c) \/ SendBroken(c)
       PROVE  mpc'[d] = "remove" <=> mpc[d] = "remove"
  <2>1. mpc \in [Channels -> {"accept", "recv", "push", "peek", "check", "send", "remove"}]
    BY <1>1 DEF TypeOK
  <2> QED
    BY <1>17, <2>1 DEF Accept, RecvNothing, RecvClosed, Peek, Check, SendFull, SendBroken, At, Goto, server
<1>18. ASSUME NEW c \in Channels, Accept(c) \/ RecvNothing(c) \/ RecvClosed(c) \/ Peek(c) \/ Check(c)
       PROVE  UNCHANGED <<rx, tx, in, c2s, s2c, sent, due, cpc, turn>>
  BY <1>18 DEF Accept, RecvNothing, RecvClosed, Peek, Check, main, client, wire
<1>19. ASSUME NEW c \in Channels, Connect(c) \/ SendFull(c) \/ SendBroken(c)
       PROVE  UNCHANGED <<rx, tx, in, c2s, s2c, sent, due, cpc, turn>>
  BY <1>19 DEF Connect, SendFull, SendBroken, server, main, client, wire
<1>20. ASSUME MainBack \/ MainSkip \/ MdfyOpen \/ MdfyWrite
       PROVE  UNCHANGED <<rx, tx, in, c2s, s2c, sent, due, mpc>>
  BY <1>20 DEF MainBack, MainSkip, MdfyOpen, MdfyWrite, manager, client, wire
<1>21. ASSUME NEW c \in Channels, Connect(c)
       PROVE  mpc' = mpc
  BY <1>21 DEF Connect, server
<1>22. ASSUME NEW c \in Channels,
              Connect(c) \/ Accept(c) \/ RecvNothing(c) \/ RecvClosed(c) \/ Peek(c) \/ Check(c)
              \/ SendFull(c) \/ SendBroken(c)
       PROVE  Awaited(d)'
  <2>1. UNCHANGED <<rx, tx, in, c2s, s2c, sent, due, cpc, turn>>
    BY <1>18, <1>19, <1>22
  <2>2. mpc'[d] = "remove" <=> mpc[d] = "remove"
    BY <1>17, <1>21, <1>22
  <2> QED
    BY <1>4, <2>1, <2>2 DEF Handled
<1>23. ASSUME MainBack \/ MainSkip \/ MdfyOpen \/ MdfyWrite
       PROVE  Awaited(d)'
  <2>1. CASE HandleReq \/ HandleDbg \/ HandleMdfy \/ RemoveHandled \/ Restart
    BY <1>12, <1>13, <1>14, <1>15, <2>1
  <2>2. CASE ~ (HandleReq \/ HandleDbg \/ HandleMdfy \/ RemoveHandled \/ Restart)
    BY <1>16, <1>20, <1>23, <2>2
  <2> QED
    BY <2>1, <2>2
<1>24. ASSUME UNCHANGED vars
       PROVE  Awaited(d)'
  BY <1>4, <1>24 DEF vars, server, client, wire, Handled
<1>25. ASSUME NEW c \in Channels, Client(c) \/ Manager(c)
       PROVE  Awaited(d)'
  BY <1>5, <1>6, <1>7, <1>8, <1>9, <1>10, <1>11, <1>22, <1>25 DEF Client, Manager
<1> QED
  BY <1>12, <1>13, <1>14, <1>15, <1>23, <1>24, <1>25 DEF Next, Main

LEMMA AwaitsInit == Init => Awaits
  BY DEF Init, Each, Awaits, Undisturbed

LEMMA AwaitsNext ==
  ~ Pipelined /\ Sound /\ Order /\ Exact /\ Awaits /\ [Next]_vars => Awaits'
<1> SUFFICES ASSUME ~ Pipelined, Sound, Order, Exact, Awaits, [Next]_vars
             PROVE  Awaits'
  OBVIOUS
<1>1. \A c \in Channels : Undisturbed(c)' => Awaited(c)'
  BY AwaitedStep
<1> QED
  BY <1>1 DEF Awaits

\* The answers on their way, and the commands that ask for one, by number.
LEMMA NumbersUnderway ==
  ASSUME Sound, NEW c \in Channels, NEW x
  PROVE  x \in Numbers(Answers(c)) <=> x \in Nat /\ Underway(c, x)
<1> DEFINE a == Answers(c)
           l == Len(s2c[c])
<1>1. PICK m \in Nat :
        /\ m = IF mpc[c] = "remove" THEN Len(tx[c]) - 1 ELSE Len(tx[c])
        /\ a \in Seq(Packets) /\ Len(a) = l + m
        /\ \A k \in 1 .. l : a[k] = s2c[c][k]
        /\ \A k \in 1 .. m : a[k + l] = tx[c][(m - k) + 1]
  BY AnswerAt
<1>2. l \in Nat /\ Len(tx[c]) \in Nat
  BY ChannelIs DEF Sound
<1>3. DOMAIN a = 1 .. l + m /\ \A k \in 1 .. l + m : a[k].n \in Nat
  <2>1. \A s \in Seq(Packets) : DOMAIN s = 1 .. Len(s)
    OBVIOUS
  <2>2. a \in Seq(Packets) /\ Len(a) = l + m
    BY <1>1
  <2> HIDE DEF a, l
  <2> QED
    BY <2>1, <2>2, Elements
<1> DEFINE t == Len(tx[c])
<1>4. /\ \A k \in 1 .. m : k \in 1 .. t /\ ~ (mpc[c] = "remove" /\ k = t)
      /\ \A k \in 1 .. t : ~ (mpc[c] = "remove" /\ k = t) => k \in 1 .. m
  <2> HIDE DEF t
  <2>1. t \in Nat /\ m \in Nat /\ (m = t \/ m = t - 1)
        /\ (mpc[c] = "remove" => m = t - 1) /\ (mpc[c] # "remove" => m = t)
    BY <1>1, <1>2 DEF t
  <2> QED
    BY <2>1
<1> HIDE DEF a, l, t
<1>5. Underway(c, x) <=> \/ \E k \in 1 .. l : s2c[c][k].n = x
                         \/ \E k \in 1 .. m : tx[c][k].n = x
  BY <1>4 DEF Underway, l, t
<1>6. /\ \A k \in 1 .. l : k \in 1 .. l + m
      /\ \A k \in 1 .. m : k + l \in 1 .. l + m /\ (m - k) + 1 \in 1 .. m /\ (m - ((m - k) + 1)) + 1 = k
      /\ \A k \in 1 .. l + m : k \in 1 .. l \/ (k - l \in 1 .. m /\ (k - l) + l = k)
  BY <1>1, <1>2
<1>7. ASSUME NEW k \in 1 .. l + m, a[k].n = x
      PROVE  x \in Nat /\ Underway(c, x)
  <2>1. CASE k \in 1 .. l
    BY <1>1, <1>3, <1>5, <1>7, <2>1
  <2>2. CASE k \notin 1 .. l
    <3>1. k - l \in 1 .. m /\ (k - l) + l = k /\ (m - (k - l)) + 1 \in 1 .. m
      BY <1>6, <2>2
    <3>2. a[k] = tx[c][(m - (k - l)) + 1]
      BY <1>1, <3>1
    <3> QED
      BY <1>3, <1>5, <1>7, <3>1, <3>2
  <2> QED
    BY <2>1, <2>2
<1>8. ASSUME Underway(c, x)
      PROVE  \E k \in 1 .. l + m : a[k].n = x
  <2>1. CASE \E k \in 1 .. l : s2c[c][k].n = x
    BY <1>1, <1>6, <2>1
  <2>2. CASE \E k \in 1 .. m : tx[c][k].n = x
    <3>1. PICK k \in 1 .. m : tx[c][k].n = x
      BY <2>2
    <3>2. (m - k) + 1 \in 1 .. m /\ ((m - k) + 1) + l \in 1 .. l + m /\ (m - ((m - k) + 1)) + 1 = k
      BY <1>6, <3>1
    <3>3. a[((m - k) + 1) + l] = tx[c][k]
      BY <1>1, <3>2
    <3> QED
      BY <3>1, <3>2, <3>3
  <2> QED
    BY <1>5, <1>8, <2>1, <2>2
<1> QED
  BY <1>3, <1>7, <1>8 DEF Numbers, a

LEMMA NumbersUnanswered ==
  ASSUME Sound, NEW c \in Channels, Undisturbed(c), NEW x
  PROVE  x \in Asking(Commands(c)) <=> x \in Nat /\ Unanswered(c, x)
<1> DEFINE a == Commands(c)
           u == Unhandled(c)
           i == InHand(c)
           w == Len(c2s[c][1])
<1>1. /\ a \in Seq(Packets) /\ Len(a) = u + i + w
      /\ \A k \in 1 .. u : a[k] = rx[c][(u - k) + 1]
      /\ in[c] # None => a[u + 1] = in[c]
      /\ \A k \in 1 .. w : a[k + (u + i)] = c2s[c][1][k]
  BY CommandAt
<1>2. u \in Nat /\ i \in {0, 1} /\ (in[c] # None <=> i = 1)
  BY UnhandledIs
<1>3. w \in Nat
  BY UndisturbedIs
<1>4. DOMAIN a = 1 .. u + i + w /\ \A k \in 1 .. u + i + w : a[k].n \in Nat
  BY <1>1, Elements
<1> DEFINE P(p) == p.n = x /\ p.dac \in Answerable
<1>5. Unanswered(c, x) <=> \/ \E k \in 1 .. u : P(rx[c][k])
                           \/ i = 1 /\ P(in[c])
                           \/ \E k \in 1 .. w : P(c2s[c][1][k])
  BY <1>2 DEF Unanswered
<1>6. x \in Asking(a) <=> \E k \in 1 .. u + i + w : P(a[k])
  BY <1>4 DEF Asking
<1> HIDE DEF a, u, i, w, P
<1>7. /\ \A k \in 1 .. u : k \in 1 .. u + i + w /\ (u - k) + 1 \in 1 .. u /\ (u - ((u - k) + 1)) + 1 = k
      /\ \A k \in 1 .. w : k + (u + i) \in 1 .. u + i + w
      /\ i = 1 => u + 1 \in 1 .. u + i + w
      /\ \A k \in 1 .. u + i + w : \/ k \in 1 .. u
                                   \/ i = 1 /\ k = u + 1
                                   \/ k - (u + i) \in 1 .. w /\ (k - (u + i)) + (u + i) = k
  BY <1>2, <1>3
<1>8. ASSUME NEW k \in 1 .. u + i + w, P(a[k])
      PROVE  \/ \E j \in 1 .. u : P(rx[c][j])
             \/ i = 1 /\ P(in[c])
             \/ \E j \in 1 .. w : P(c2s[c][1][j])
  <2>1. CASE k \in 1 .. u
    BY <1>1, <1>7, <1>8, <2>1
  <2>2. CASE i = 1 /\ k = u + 1
    BY <1>1, <1>2, <1>8, <2>2
  <2>3. CASE k - (u + i) \in 1 .. w /\ (k - (u + i)) + (u + i) = k
    <3>1. a[k] = c2s[c][1][k - (u + i)]
      BY <1>1, <2>3
    <3> QED
      BY <1>8, <2>3, <3>1
  <2> QED
    BY <1>7, <2>1, <2>2, <2>3
<1>9. ASSUME NEW k \in 1 .. u, P(rx[c][k])
      PROVE  \E j \in 1 .. u + i + w : P(a[j])
  <2>1. (u - k) + 1 \in 1 .. u /\ (u - ((u - k) + 1)) + 1 = k /\ (u - k) + 1 \in 1 .. u + i + w
    BY <1>7
  <2>2. a[(u - k) + 1] = rx[c][k]
    BY <1>1, <2>1
  <2> QED
    BY <1>9, <2>1, <2>2
<1>10. i = 1 /\ P(in[c]) => \E j \in 1 .. u + i + w : P(a[j])
  BY <1>1, <1>2, <1>7
<1>11. ASSUME NEW k \in 1 .. w, P(c2s[c][1][k])
       PROVE  \E j \in 1 .. u + i + w : P(a[j])
  BY <1>1, <1>7, <1>11
<1>12. x \in Asking(a) <=> Unanswered(c, x)
  BY <1>5, <1>6, <1>8, <1>9, <1>10, <1>11
<1>13. x \in Asking(a) => x \in Nat
  BY <1>4, <1>6 DEF P
<1> QED
  BY <1>12, <1>13 DEF a

LEMMA AwaitedAnswers ==
  ASSUME Sound, Order, Exact, Awaits
  PROVE  OneAnswerEach
<1> SUFFICES ASSUME NEW c \in Channels, Undisturbed(c)
             PROVE  /\ Numbers(Answers(c)) \union Asking(Commands(c))
                         = { due[c][k] : k \in 1 .. Len(due[c]) }
                    /\ s2c[c] # <<>> => s2c[c][1].n = due[c][1]
  BY DEF OneAnswerEach
<1>1. Awaited(c)
  BY DEF Awaits
<1>2. \A x : x \in Numbers(Answers(c)) \union Asking(Commands(c))
             <=> x \in Nat /\ (Underway(c, x) \/ Unanswered(c, x))
  BY NumbersUnderway, NumbersUnanswered
<1>3. \A k \in 1 .. Len(due[c]) : due[c][k] \in Nat
  <2>1. \A s \in Seq(Nat) : \A k \in 1 .. Len(s) : s[k] \in Nat
    OBVIOUS
  <2>2. due[c] \in Seq(Nat)
    BY ChannelIs DEF Sound
  <2> QED
    BY <2>1, <2>2
<1>4. \A x : x \in { due[c][k] : k \in 1 .. Len(due[c]) }
             <=> x \in Nat /\ (Underway(c, x) \/ Unanswered(c, x))
  BY <1>1, <1>3 DEF Awaited, IsDue
<1>5. Numbers(Answers(c)) \union Asking(Commands(c)) = { due[c][k] : k \in 1 .. Len(due[c]) }
  BY <1>2, <1>4
<1> QED
  BY <1>1, <1>5, OldestFirst

\* When a client sends no command before the server has read the one before,
\* exactly the commands whose answers it waits for are still to be handled or
\* have their answer under way, and the answer that comes next is the one to the
\* command it has waited for longest: it never takes one answer for another.
THEOREM AnsweredInTurn == ~ Pipelined => (Spec => []OneAnswerEach)
<1> SUFFICES ASSUME ~ Pipelined
             PROVE  Spec => []OneAnswerEach
  OBVIOUS
<1>1. Sound /\ Order /\ Exact /\ Awaits /\ [Next]_vars => Awaits'
  BY AwaitsNext
<1>2. Spec => []Exact
  BY ExactReached
<1>3. Sound /\ Order /\ Exact /\ Awaits => OneAnswerEach
  BY AwaitedAnswers
<1> QED
  BY <1>1, <1>2, <1>3, AwaitsInit, SoundReached, OrderReached, PTL DEF Spec
=============================================================================
