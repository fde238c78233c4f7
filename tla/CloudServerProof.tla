-------------------------- MODULE CloudServerProof --------------------------
(* Proofs about CloudServer, for every size of data sets, buffer and socket  *)
(* and any number of connections and data sets.                              *)
EXTENDS CloudServer, SequenceTheorems, TLAPS

\* Division with remainder.
LEMMA Quotient ==
  ASSUME NEW a \in Nat, NEW s \in Nat \ {0}
  PROVE  /\ a \div s \in Nat
         /\ (a % s) \in 0 .. s - 1
         /\ a = (s * (a \div s)) + (a % s)
  BY Z3

\* Products are monotonic.
LEMMA Monotonic ==
  ASSUME NEW m \in Int, NEW n \in Int, NEW s \in Nat, m <= n
  PROVE  s * m <= s * n
  BY Z3

\* Where u bytes into n data sets end.
LEMMA Within ==
  ASSUME NEW n \in Nat, NEW u \in Nat, u <= SetSize * n
  PROVE  /\ u \div SetSize \in 0 .. n
         /\ (u % SetSize) \in 0 .. SetSize - 1
         /\ (u % SetSize) > 0 => u \div SetSize < n
         /\ u >= SetSize => u \div SetSize >= 1
         /\ u = SetSize * n => u \div SetSize = n /\ (u % SetSize) = 0
<1> DEFINE S == SetSize
           q == u \div S
           r == u % S
<1>1. S \in Nat \ {0} BY SetFits
<1> HIDE DEF S
<1>2. q \in Nat /\ r \in 0 .. S - 1 /\ u = (S * q) + r
  BY <1>1, Quotient
<1>3. u <= S * n /\ S * n \in Nat BY <1>1 DEF S
<1> HIDE DEF q, r
<1>4. q <= n
  <2>1. SUFFICES ASSUME n + 1 <= q PROVE FALSE BY <1>2
  <2>2. S * (n + 1) <= S * q BY <2>1, <1>1, <1>2, Monotonic
  <2>3. S * (n + 1) = S * n + S BY <1>1, Z3
  <2> QED BY <2>2, <2>3, <1>1, <1>2, <1>3, Z3
<1>5. r > 0 => q # n
  BY <1>1, <1>2, <1>3, Z3
<1>6. u >= S => q >= 1
  <2>1. SUFFICES ASSUME q = 0, u >= S PROVE FALSE BY <1>2
  <2>2. S * q = 0 BY <2>1, <1>1, Z3
  <2> QED BY <2>1, <2>2, <1>1, <1>2, Z3
<1>7. u = S * n => q = n /\ r = 0
  <2>1. SUFFICES ASSUME u = S * n, q <= n - 1 PROVE FALSE
    BY <1>2, <1>4, <1>5
  <2>2. S * q <= S * (n - 1) BY <2>1, <1>1, <1>2, Monotonic
  <2>3. S * (n - 1) = S * n - S BY <1>1, Z3
  <2> QED BY <2>1, <2>2, <2>3, <1>1, <1>2, Z3
<1>8. q \in 0 .. n /\ (r > 0 => q < n)
  BY <1>2, <1>4, <1>5
<1> QED
  BY <1>2, <1>6, <1>7, <1>8 DEF q, r, S

-----------------------------------------------------------------------------
(* The invariant behind the refinement.                                     *)

Conn == [head : Nat \ {0}, tail : Nat, end : Ends]

\* A connection holds sets that have been written, and the connections hold them
\* in the order in which they were made.
InRange == \A k \in 1 .. Len(conn) :
             conn[k].head <= conn[k].tail + 1 /\ conn[k].tail <= written

Apart == \A j, k \in 1 .. Len(conn) : j < k => conn[j].tail < conn[k].head

\* What is stored or in hand was written, and comes before what is still to be
\* read on this connection and on later ones.
Behind(n) == /\ n <= written
             /\ \A k \in 1 .. Len(conn) : accepted <= k => n < conn[k].head

\* The set that has been read in part has not gone.
Partial == off > 0 => spc # "accept" /\ Unread(Cur) >= 1

\* The set in hand is a new one, and the file is of it.
InHandIsNew == wsn > 0 => J!Newest < wsn

FileIsOfIt == spc = "insert" => file = Rows(wsn)

IInv == /\ TypeOK /\ InRange /\ Apart /\ Behind(J!Newest) /\ Behind(wsn)
        /\ Partial /\ InHandIsNew /\ FileIsOfIt

LEMMA NewestIsNat ==
  ASSUME db \in Seq(Nat \ {0})
  PROVE  J!Newest \in Nat
BY DEF J!Newest

LEMMA ConnElement ==
  ASSUME NEW c \in Seq(Conn)
  PROVE  /\ Len(c) \in Nat
         /\ \A k \in 1 .. Len(c) :
              c[k] \in Conn /\ c[k].head \in Nat \ {0} /\ c[k].tail \in Nat
<1>1. \A k \in 1 .. Len(c) : c[k] \in Conn BY ElementOfSeq
<1> QED BY <1>1, LenProperties DEF Conn

LEMMA ConnFacts ==
  /\ TypeOK  => conn \in Seq(Conn)
  /\ TypeOK' => conn' \in Seq(Conn)
BY DEF TypeOK, Conn

\* What a step that makes no connection has to show of them.
LEMMA OrderKept ==
  ASSUME TypeOK, TypeOK', InRange, Apart,
         written <= written', Len(conn') = Len(conn),
         \A k \in 1 .. Len(conn) :
           /\ conn[k].head <= conn'[k].head
           /\ conn'[k].head <= conn'[k].tail + 1 /\ conn'[k].tail <= written'
           /\ k < Len(conn) => conn'[k].tail = conn[k].tail
  PROVE  InRange' /\ Apart'
<1>1. InRange'
  BY DEF InRange
<1>2. ASSUME NEW j \in 1 .. Len(conn), NEW k \in 1 .. Len(conn), j < k
      PROVE  conn'[j].tail < conn'[k].head
  <2>1. j < Len(conn) BY <1>2, ConnFacts, ConnElement
  <2>2. conn'[j].tail = conn[j].tail BY <2>1
  <2>3. conn[j].tail < conn[k].head BY <1>2 DEF Apart
  <2>4. /\ conn[k].head \in Nat /\ conn[j].tail \in Nat
        /\ conn'[k].head \in Nat
    BY ConnFacts, ConnElement
  <2> QED BY <2>2, <2>3, <2>4
<1>3. Apart'
  BY <1>2 DEF Apart
<1> QED BY <1>1, <1>3

LEMMA BehindKept ==
  ASSUME TypeOK, TypeOK', NEW n \in Nat, Behind(n),
         written <= written', Len(conn') = Len(conn), accepted <= accepted',
         \A k \in 1 .. Len(conn) : conn[k].head <= conn'[k].head
  PROVE  Behind(n)'
<1>1. \A k \in 1 .. Len(conn) : conn[k].head \in Nat /\ conn'[k].head \in Nat
  BY ConnFacts, ConnElement
<1>2. written \in Nat /\ written' \in Nat /\ accepted \in Nat /\ accepted' \in Nat
  BY ConnFacts, ConnElement DEF TypeOK
<1> QED BY <1>1, <1>2 DEF Behind

-----------------------------------------------------------------------------
(* What each action does to the connections.                                *)

\* The connections but the k-th stay as they are.
Exchanged(k, c) ==
  /\ conn' \in Seq(Conn) /\ Len(conn') = Len(conn)
  /\ k \in 1 .. Len(conn) /\ c \in Conn
  /\ \A j \in 1 .. Len(conn) : conn'[j] = IF j = k THEN c ELSE conn[j]

LEMMA ExchangeOne ==
  ASSUME TypeOK, NEW k \in 1 .. Len(conn), NEW c \in Conn,
         conn' = [conn EXCEPT ![k] = c]
  PROVE  Exchanged(k, c)
<1>1. conn \in Seq(Conn) BY ConnFacts
<1>2. /\ [conn EXCEPT ![k] = c] \in Seq(Conn)
      /\ Len([conn EXCEPT ![k] = c]) = Len(conn)
      /\ \A j \in 1 .. Len(conn) : [conn EXCEPT ![k] = c][j] = IF j = k THEN c ELSE conn[j]
  BY <1>1, ExceptSeq
<1> QED BY <1>2 DEF Exchanged

LEMMA LinkExists ==
  ASSUME TypeOK, up
  PROVE  Len(conn) \in 1 .. Len(conn) /\ Link \in Conn /\ Link = conn[Len(conn)]
<1>1. conn \in Seq(Conn) /\ conn # <<>> BY ConnFacts DEF TypeOK
<1>2. Len(conn) \in Nat \ {0} BY <1>1, EmptySeq
<1> QED BY <1>1, <1>2, ConnElement DEF Link

LEMMA LinkSet ==
  ASSUME TypeOK, up, NEW c \in Conn, SetLink(c)
  PROVE  Exchanged(Len(conn), c)
BY LinkExists, ExchangeOne DEF SetLink

LEMMA ConnectAdds ==
  ASSUME TypeOK, Connect
  PROVE  /\ conn' \in Seq(Conn) /\ Len(conn') = Len(conn) + 1
         /\ \A j \in 1 .. Len(conn) : conn'[j] = conn[j]
         /\ conn'[Len(conn) + 1] = Connection(written + 1, written, "open")
<1> DEFINE c == Connection(written + 1, written, "open")
<1>1. conn \in Seq(Conn) /\ Len(conn) \in Nat BY ConnFacts, ConnElement
<1>2. c \in Conn BY DEF TypeOK, Conn, Connection, Ends
<1> HIDE DEF c
<1>3. conn' = Append(conn, c) BY DEF Connect, c
<1>4. /\ Append(conn, c) \in Seq(Conn) /\ Len(Append(conn, c)) = Len(conn) + 1
      /\ \A j \in 1 .. Len(conn) : Append(conn, c)[j] = conn[j]
      /\ Append(conn, c)[Len(conn) + 1] = c
  BY <1>1, <1>2, AppendProperties
<1> QED BY <1>3, <1>4 DEF c

\* The server reads an accepted connection.
LEMMA CurExists ==
  ASSUME TypeOK, spc # "accept"
  PROVE  accepted \in 1 .. Len(conn) /\ Cur \in Conn
<1>1. accepted \in 1 .. Len(conn) BY ConnFacts, ConnElement DEF TypeOK
<1> QED BY <1>1, ConnFacts, ConnElement DEF Cur

\* A read goes to a place in the sets that are there.
LEMMA ReadFacts ==
  ASSUME TypeOK, At("read"), Waiting > 0
  PROVE  /\ Unread(Cur) \in Nat \ {0}
         /\ Upto \div SetSize \in 0 .. Unread(Cur)
         /\ (Upto % SetSize) \in 0 .. SetSize - 1
         /\ (Upto % SetSize) > 0 => Upto \div SetSize < Unread(Cur)
         /\ off = 0 => Upto \div SetSize >= 1
         /\ off = 0 /\ PayloadMax >= Unread(Cur) * SetSize =>
              Upto \div SetSize = Unread(Cur) /\ (Upto % SetSize) = 0
<1> DEFINE n == Unread(Cur)
<1>1. accepted \in 1 .. Len(conn) /\ Cur \in Conn BY CurExists DEF At
<1>2. n \in Int BY <1>1 DEF Conn, Unread
<1>3. off \in 0 .. SetSize - 1 /\ SetSize \in Nat \ {0} BY SetFits DEF TypeOK
<1> HIDE DEF n
<1>4. n * SetSize - off > 0 BY DEF Waiting, n
<1>5. n > 0
  <2>1. SUFFICES ASSUME n <= 0 PROVE FALSE BY <1>2
  <2>2. SetSize * n <= SetSize * 0 BY <2>1, <1>2, <1>3, Monotonic
  <2>3. SetSize * 0 = 0 /\ SetSize * n = n * SetSize BY <1>2, <1>3, Z3
  <2>4. n * SetSize \in Int BY <1>2, <1>3
  <2> QED BY <1>3, <1>4, <2>2, <2>3, <2>4
<1>6. n \in Nat /\ PayloadMax \in Nat /\ PayloadMax >= SetSize
  BY <1>2, <1>5, SetFits
<1>7. n * SetSize = SetSize * n /\ SetSize * n \in Nat /\ SetSize <= SetSize * n
  BY <1>3, <1>5, <1>6, Z3
<1>8. /\ Upto \in Nat /\ Upto <= SetSize * n
      /\ off = 0 => Upto >= SetSize
      /\ off = 0 /\ PayloadMax >= n * SetSize => Upto = SetSize * n
  BY <1>3, <1>4, <1>6, <1>7 DEF Upto, ReadLimit, Waiting, Least, n
<1>9. /\ Upto \div SetSize \in 0 .. n /\ (Upto % SetSize) \in 0 .. SetSize - 1
      /\ (Upto % SetSize) > 0 => Upto \div SetSize < n
      /\ Upto >= SetSize => Upto \div SetSize >= 1
      /\ Upto = SetSize * n => Upto \div SetSize = n /\ (Upto % SetSize) = 0
  BY <1>6, <1>8, Within
<1> QED BY <1>5, <1>6, <1>8, <1>9 DEF n

-----------------------------------------------------------------------------
(* Consuming part of the connection in hand.                                *)

LEMMA ConsumedIs ==
  ASSUME TypeOK, spc # "accept", NEW n \in Nat
  PROVE  /\ Consumed(n) \in Seq(Conn) /\ Len(Consumed(n)) = Len(conn)
         /\ Cur = conn[accepted]
         /\ \A j \in 1 .. Len(conn) :
              Consumed(n)[j] = IF j = accepted THEN [Cur EXCEPT !.head = @ + n] ELSE conn[j]
<1> DEFINE c == [Cur EXCEPT !.head = @ + n]
<1>1. accepted \in 1 .. Len(conn) /\ Cur \in Conn BY CurExists
<1>2. c \in Conn BY <1>1 DEF Conn
<1>3. conn \in Seq(Conn) BY ConnFacts
<1>4. Consumed(n) = [conn EXCEPT ![accepted] = c] BY DEF Consumed, Cur
<1> HIDE DEF c
<1>5. /\ [conn EXCEPT ![accepted] = c] \in Seq(Conn)
      /\ Len([conn EXCEPT ![accepted] = c]) = Len(conn)
      /\ \A j \in 1 .. Len(conn) : [conn EXCEPT ![accepted] = c][j] = IF j = accepted THEN c ELSE conn[j]
  BY <1>1, <1>2, <1>3, ExceptSeq
<1> QED BY <1>4, <1>5 DEF c, Cur

\* A read moves the head of the connection in hand; when the server ends with
\* it, the ends of connections change too.
LEMMA ReadMoves ==
  ASSUME TypeOK, Read
  PROVE  /\ conn' \in Seq(Conn) /\ Len(conn') = Len(conn)
         /\ \A j \in 1 .. Len(conn) :
              /\ conn'[j].head = conn[j].head + IF j = accepted THEN Upto \div SetSize ELSE 0
              /\ conn'[j].tail = conn[j].tail
<1> DEFINE n == Upto \div SetSize
<1>1. n \in Nat /\ spc # "accept" BY ReadFacts DEF Read, At
<1> HIDE DEF n
<1>2. /\ Consumed(n) \in Seq(Conn) /\ Len(Consumed(n)) = Len(conn)
      /\ Cur = conn[accepted]
      /\ \A j \in 1 .. Len(conn) :
           Consumed(n)[j] = IF j = accepted THEN [Cur EXCEPT !.head = @ + n] ELSE conn[j]
  BY <1>1, ConsumedIs
<1>3. \A j \in 1 .. Len(conn) : conn[j] \in Conn /\ conn[j].head \in Nat
  BY ConnFacts, ConnElement
<1>4. \A j \in 1 .. Len(conn) :
        /\ Consumed(n)[j] \in Conn
        /\ Consumed(n)[j].head = conn[j].head + IF j = accepted THEN n ELSE 0
        /\ Consumed(n)[j].tail = conn[j].tail
  <2> SUFFICES ASSUME NEW j \in 1 .. Len(conn)
               PROVE  /\ Consumed(n)[j] \in Conn
                      /\ Consumed(n)[j].head = conn[j].head + IF j = accepted THEN n ELSE 0
                      /\ Consumed(n)[j].tail = conn[j].tail
    OBVIOUS
  <2>1. CASE j = accepted
    <3>1. Consumed(n)[j] = [conn[j] EXCEPT !.head = @ + n] BY <1>2, <2>1
    <3> QED BY <1>1, <1>3, <2>1, <3>1 DEF Conn
  <2>2. CASE j # accepted
    <3>1. Consumed(n)[j] = conn[j] BY <1>2, <2>2
    <3> QED BY <1>3, <2>2, <3>1
  <2> QED BY <2>1, <2>2
<1>5. CASE conn' = Consumed(n)
  BY <1>2, <1>4, <1>5 DEF n
<1>6. CASE HandleCrashes
  <2> DEFINE E(j) == IF Consumed(n)[j].end # "open" THEN Consumed(n)[j].end
                     ELSE IF j > accepted \/ Upto < off + Waiting THEN "reset" ELSE "half"
             f == [j \in 1 .. Len(conn) |-> [Consumed(n)[j] EXCEPT !.end = E(j)]]
  <2>1. DOMAIN conn = 1 .. Len(conn) /\ Len(conn) \in Nat
    BY ConnFacts, LenProperties
  <2>2. conn' = f
    BY <1>6, <2>1 DEF HandleCrashes, n
  <2>3. \A j \in 1 .. Len(conn) :
          /\ f[j] \in Conn
          /\ f[j].head = Consumed(n)[j].head /\ f[j].tail = Consumed(n)[j].tail
    BY <1>4 DEF Conn, Ends
  <2>4. f \in [1 .. Len(conn) -> Conn]
    BY <2>3
  <2> HIDE DEF f
  <2>5. f \in Seq(Conn)
    BY <2>1, <2>4, SeqDef
  <2>6. Len(f) = Len(conn)
    BY <2>1, <2>4, <2>5, LenProperties
  <2> QED BY <1>4, <2>2, <2>3, <2>5, <2>6 DEF n
<1> QED BY <1>5, <1>6 DEF Read, HandleFirst, HandleNoRows, n

-----------------------------------------------------------------------------
\* A bridge that runs holds the last connection also after a step.
LEMMA StillThere ==
  ASSUME TypeOK, conn' \in Seq(Conn), Len(conn') >= Len(conn), conn # <<>>
  PROVE  conn' # <<>> /\ accepted \in 0 .. Len(conn')
<1>1. Len(conn) \in Nat \ {0} /\ Len(conn') \in Nat
  BY ConnFacts, EmptySeq, ConnElement
<1> QED BY <1>1, EmptySeq DEF TypeOK

LEMMA TypeOfEnvironment ==
  ASSUME TypeOK, Environment
  PROVE  TypeOK'
<1>1. CASE Connect
  <2>1. conn' \in Seq(Conn) /\ Len(conn') = Len(conn) + 1 /\ conn' # <<>>
    <3>1. conn' \in Seq(Conn) /\ Len(conn') = Len(conn) + 1 /\ Len(conn) \in Nat
      BY <1>1, ConnectAdds, ConnFacts, ConnElement
    <3> QED BY <3>1, EmptySeq
  <2>2. accepted \in 0 .. Len(conn')
    BY <2>1, ConnFacts, ConnElement DEF TypeOK
  <2> QED BY <1>1, <2>1, <2>2 DEF Connect, TypeOK, Conn, server
<1>2. ASSUME up, NEW c \in Conn, SetLink(c), written' \in Nat, faulty' \in BOOLEAN,
             up' \in BOOLEAN, UNCHANGED server
      PROVE  TypeOK'
  <2>1. Exchanged(Len(conn), c) /\ conn # <<>> BY <1>2, LinkSet DEF TypeOK
  <2>2. conn' \in Seq(Conn) /\ Len(conn') = Len(conn) BY <2>1 DEF Exchanged
  <2>3. conn' # <<>> /\ accepted \in 0 .. Len(conn')
    BY <2>1, <2>2, StillThere, ConnFacts, ConnElement
  <2> QED BY <1>2, <2>2, <2>3 DEF TypeOK, Conn, server
<1>3. up => Link \in Conn BY LinkExists
<1>4. CASE Write
  <2>1. [Link EXCEPT !.tail = written + 1] \in Conn
    <3>1. written + 1 \in Nat BY DEF TypeOK
    <3> QED BY <1>3, <1>4, <3>1 DEF Write, Conn
  <2>2. SetLink([Link EXCEPT !.tail = written + 1]) /\ up BY <1>4 DEF Write
  <2>3. written' \in Nat /\ faulty' \in BOOLEAN /\ up' \in BOOLEAN /\ UNCHANGED server
    BY <1>4 DEF Write, TypeOK
  <2> QED BY <1>2, <2>1, <2>2, <2>3
<1>5. CASE WriteLost
  <2> DEFINE c == [Link EXCEPT !.end = IF @ = "half" THEN "reset" ELSE @]
  <2>1. c \in Conn
    BY <1>3, <1>5 DEF WriteLost, Conn, Ends
  <2>2. SetLink(c) /\ up BY <1>5 DEF WriteLost
  <2>3. written' \in Nat /\ faulty' \in BOOLEAN /\ up' \in BOOLEAN /\ UNCHANGED server
    BY <1>5 DEF WriteLost, TypeOK
  <2> HIDE DEF c
  <2> QED BY <1>2, <2>1, <2>2, <2>3
<1>6. CASE BridgeEnds
  <2> DEFINE c == [Link EXCEPT !.end = IF @ \in {"open", "half"} THEN "fin" ELSE @]
  <2>1. c \in Conn
    BY <1>3, <1>6 DEF BridgeEnds, Conn, Ends
  <2>2. SetLink(c) /\ up BY <1>6 DEF BridgeEnds
  <2>3. written' \in Nat /\ faulty' \in BOOLEAN /\ up' \in BOOLEAN /\ UNCHANGED server
    BY <1>6 DEF BridgeEnds, TypeOK
  <2> HIDE DEF c
  <2> QED BY <1>2, <2>1, <2>2, <2>3
<1>7. ASSUME NEW end \in {"reset", "silent"}, Cut(end) PROVE TypeOK'
  <2>1. PICK t \in Link.head - (IF off = 0 \/ accepted < Len(conn) THEN 1 ELSE 0) .. Link.tail :
          SetLink([Link EXCEPT !.tail = t, !.end = end])
    BY <1>7 DEF Cut
  <2>2. up BY <1>7 DEF Cut
  <2>3. t \in Nat BY <1>3, <2>1, <2>2 DEF Conn
  <2>4. [Link EXCEPT !.tail = t, !.end = end] \in Conn
    BY <1>3, <1>7, <2>2, <2>3 DEF Conn, Ends
  <2>5. written' \in Nat /\ faulty' \in BOOLEAN /\ up' \in BOOLEAN /\ UNCHANGED server
    BY <1>7 DEF Cut, TypeOK, bridge
  <2> QED BY <1>2, <2>1, <2>2, <2>4, <2>5
<1> QED BY <1>1, <1>4, <1>5, <1>6, <1>7 DEF Environment

\* A step that leaves the connections and the bridges alone.
LEMMA TypeOfInside ==
  ASSUME TypeOK, UNCHANGED <<bridge, conn, faulty, accepted, crowd>>,
         spc' \in {"accept", "read", "file", "insert"}, spc # "accept",
         off' = off, wsn' \in {0, wsn}, llist_dataset' = llist_dataset,
         file' \in Seq(Nat \ {0}) /\ Len(file') <= 1, db' \in Seq(Nat \ {0})
  PROVE  TypeOK'
BY DEF TypeOK, bridge

LEMMA RowsAreOne ==
  ASSUME NEW n \in Nat
  PROVE  Rows(n) \in Seq(Nat \ {0}) /\ Len(Rows(n)) <= 1
<1>1. CASE n = 0
  <2>1. Rows(n) = <<>> BY <1>1 DEF Rows
  <2> QED BY <2>1, EmptySeq
<1>2. CASE n # 0
  <2>1. Rows(n) = <<n>> BY <1>2 DEF Rows
  <2> QED BY <1>2, <2>1
<1> QED BY <1>1, <1>2

LEMMA TypeOfServer ==
  ASSUME TypeOK, Server
  PROVE  TypeOK'
<1>1. CASE Accept
  BY <1>1, ConnFacts, ConnElement DEF Accept, At, TypeOK, bridge
<1>2. CASE Read
  <2>1. /\ conn' \in Seq(Conn) /\ Len(conn') = Len(conn) /\ conn # <<>>
        /\ accepted \in 1 .. Len(conn)
    BY <1>2, ReadMoves, CurExists, EmptySeq DEF Read, At
  <2>2. conn' # <<>> /\ accepted \in 0 .. Len(conn')
    BY <2>1, StillThere, ConnFacts, ConnElement
  <2>3. off' \in 0 .. SetSize - 1
    BY <1>2, ReadFacts DEF Read
  <2>4. wsn' \in Nat /\ llist_dataset' \in Seq(Nat)
    <3>1. Cur \in Conn /\ Cur.head \in Nat BY <1>2, CurExists DEF Read, At, Conn
    <3>2. wsn \in Nat /\ llist_dataset \in Seq(Nat) BY DEF TypeOK
    <3>3. \A n \in Nat : <<n>> \o llist_dataset \in Seq(Nat)
      <4>1. \A n \in Nat : <<n>> \in Seq(Nat) OBVIOUS
      <4> QED BY <3>2, <4>1, ConcatProperties
    <3>4. CASE HandleFirst BY <3>1, <3>3, <3>4 DEF HandleFirst
    <3>5. CASE HandleNoRows BY <3>3, <3>5 DEF HandleNoRows
    <3>6. CASE HandleCrashes BY <3>2, <3>6 DEF HandleCrashes
    <3> QED BY <1>2, <3>4, <3>5, <3>6 DEF Read
  <2>5. spc' \in {"file", "dead"}
    BY <1>2 DEF Read, HandleFirst, HandleNoRows, HandleCrashes
  <2>6. crowd' \in Nat
    <3>1. Unread(Cur) \in Nat /\ crowd \in Nat BY <1>2, ReadFacts DEF Read, TypeOK
    <3> QED BY <1>2, <3>1 DEF Read, Most
  <2>7. UNCHANGED <<written, up, accepted, file, db, faulty>> /\ accepted > 0
    BY <1>2, <2>1 DEF Read, bridge
  <2>8. /\ written' \in Nat /\ up' \in BOOLEAN /\ faulty' \in BOOLEAN
        /\ file' \in Seq(Nat \ {0}) /\ Len(file') <= 1 /\ db' \in Seq(Nat \ {0})
    BY <2>7 DEF TypeOK
  <2> QED BY <2>1, <2>2, <2>3, <2>4, <2>5, <2>6, <2>7, <2>8 DEF TypeOK, Conn
<1>3. CASE ReadEnd
  BY <1>3, TypeOfInside DEF ReadEnd, At, TypeOK
<1>4. CASE ReadError
  <2>1. accepted \in 1 .. Len(conn) /\ Cur \in Conn /\ conn # <<>>
    BY <1>4, CurExists, EmptySeq DEF ReadError, At
  <2>2. [Cur EXCEPT !.end = "fin"] \in Conn BY <2>1 DEF Conn, Ends
  <2>3. conn' = [conn EXCEPT ![accepted] = [Cur EXCEPT !.end = "fin"]]
    BY <1>4 DEF ReadError, Cur
  <2>4. conn' \in Seq(Conn) /\ Len(conn') = Len(conn)
    BY <2>1, <2>2, <2>3, ExchangeOne DEF Exchanged
  <2>5. conn' # <<>> /\ accepted \in 0 .. Len(conn')
    BY <2>1, <2>4, StillThere, ConnFacts, ConnElement
  <2> QED BY <1>4, <2>4, <2>5 DEF ReadError, TypeOK, Conn, bridge, server
<1>5. CASE PrepFile
  <2>1. file' \in Seq(Nat \ {0}) /\ Len(file') <= 1
    BY <1>5, RowsAreOne DEF PrepFile, TypeOK
  <2> QED BY <1>5, <2>1, TypeOfInside DEF PrepFile, At, TypeOK
<1>6. CASE Insert
  <2>1. db' \in Seq(Nat \ {0})
    <3>1. db \in Seq(Nat \ {0}) /\ file \in Seq(Nat \ {0}) BY DEF TypeOK
    <3>2. db \o file \in Seq(Nat \ {0}) BY <3>1, ConcatProperties
    <3> QED BY <1>6, <3>1, <3>2 DEF Insert
  <2>2. faulty' \in BOOLEAN BY <1>6 DEF Insert, TypeOK
  <2> QED BY <1>6, <2>1, <2>2 DEF Insert, At, TypeOK, bridge
<1> QED BY <1>1, <1>2, <1>3, <1>4, <1>5, <1>6 DEF Server

LEMMA TypeStep ==
  ASSUME TypeOK, [Next]_vars
  PROVE  TypeOK'
<1>1. CASE UNCHANGED vars
  BY <1>1 DEF TypeOK, vars, bridge, server
<1> QED BY <1>1, TypeOfEnvironment, TypeOfServer DEF Next


-----------------------------------------------------------------------------
(* The invariant is kept.                                                   *)

\* The Behind of a number that a step leaves alone.
LEMMA BothBehind ==
  ASSUME TypeOK, TypeOK', Behind(J!Newest), Behind(wsn), UNCHANGED <<db, wsn>>,
         written <= written', Len(conn') = Len(conn), accepted <= accepted',
         \A k \in 1 .. Len(conn) : conn[k].head <= conn'[k].head
  PROVE  Behind(J!Newest)' /\ Behind(wsn)' /\ J!Newest' = J!Newest
<1>1. J!Newest' = J!Newest BY DEF J!Newest
<1>2. J!Newest \in Nat /\ wsn \in Nat BY NewestIsNat DEF TypeOK
<1>3. \A n \in Nat : Behind(n) => Behind(n)' BY BehindKept
<1> QED BY <1>1, <1>2, <1>3 DEF Behind

LEMMA LinkKeeps ==
  ASSUME IInv, TypeOK', up, NEW c \in Conn, SetLink(c), UNCHANGED server,
         written <= written', c.head = Link.head,
         c.head <= c.tail + 1, c.tail <= written',
         accepted = Len(conn) /\ off > 0 => c.head <= c.tail
  PROVE  IInv'
<1>1. TypeOK /\ InRange /\ Apart BY DEF IInv
<1>2. Exchanged(Len(conn), c) BY <1>1, LinkSet
<1>3. Link = conn[Len(conn)] BY <1>1, LinkExists
<1>4. /\ Len(conn') = Len(conn) /\ Len(conn) \in Nat
      /\ \A j \in 1 .. Len(conn) :
           /\ conn[j].head \in Nat /\ conn[j].tail \in Nat
           /\ conn'[j] = IF j = Len(conn) THEN c ELSE conn[j]
  BY <1>1, <1>2, ConnFacts, ConnElement DEF Exchanged
<1>5. written \in Nat /\ written' \in Nat BY <1>1 DEF TypeOK
<1>6. \A k \in 1 .. Len(conn) :
        /\ conn[k].head <= conn'[k].head
        /\ conn'[k].head <= conn'[k].tail + 1 /\ conn'[k].tail <= written'
        /\ k < Len(conn) => conn'[k].tail = conn[k].tail
  BY <1>1, <1>3, <1>4, <1>5 DEF InRange
<1>7. InRange' /\ Apart'
  BY <1>1, <1>4, <1>6, OrderKept
<1>8. Behind(J!Newest)' /\ Behind(wsn)' /\ J!Newest' = J!Newest
  BY <1>1, <1>4, <1>6, BothBehind DEF IInv, TypeOK, server
<1>9. Partial'
  <2>1. SUFFICES ASSUME off > 0 PROVE spc # "accept" /\ Unread(Cur)' >= 1
    BY DEF Partial, server
  <2>2. spc # "accept" /\ Unread(Cur) >= 1 BY <2>1 DEF IInv, Partial
  <2>3. accepted \in 1 .. Len(conn) BY <1>1, <2>2, CurExists
  <2>4. Cur' = conn'[accepted] /\ Cur = conn[accepted] BY DEF Cur, server
  <2>5. CASE accepted = Len(conn)
    <3>1. Cur' = c BY <1>4, <2>3, <2>4, <2>5
    <3> QED BY <2>1, <2>2, <2>5, <3>1 DEF Unread, Conn
  <2>6. CASE accepted # Len(conn)
    <3>1. Cur' = Cur BY <1>4, <2>3, <2>4, <2>6
    <3> QED BY <2>2, <3>1 DEF Unread
  <2> QED BY <2>2, <2>5, <2>6
<1>10. InHandIsNew' BY <1>8 DEF IInv, InHandIsNew, server
<1>11. FileIsOfIt' BY DEF IInv, FileIsOfIt, server, Rows
<1> QED BY <1>7, <1>8, <1>9, <1>10, <1>11 DEF IInv

LEMMA ConnectKeeps ==
  ASSUME IInv, TypeOK', Connect
  PROVE  IInv'
<1> DEFINE c == Connection(written + 1, written, "open")
           n == Len(conn)
<1>1. TypeOK /\ InRange /\ Apart BY DEF IInv
<1>2. /\ n \in Nat /\ Len(conn') = n + 1
      /\ \A j \in 1 .. n : conn'[j] = conn[j] /\ conn[j].head \in Nat /\ conn[j].tail \in Nat
      /\ conn'[n + 1].head = written + 1 /\ conn'[n + 1].tail = written
  BY <1>1, ConnectAdds, ConnFacts, ConnElement DEF Connection
<1> HIDE DEF n
<1>3. written \in Nat /\ accepted \in Nat /\ accepted <= n
  BY <1>1, <1>2 DEF TypeOK, n
<1>4. UNCHANGED <<written, server>> BY DEF Connect
<1>5. InRange'
  BY <1>1, <1>2, <1>3, <1>4, SMTT(30) DEF InRange, n
<1>6. ASSUME NEW j \in 1 .. n + 1, NEW k \in 1 .. n + 1, j < k
      PROVE  conn'[j].tail < conn'[k].head
  <2>1. j \in 1 .. n BY <1>2, <1>6
  <2>2. CASE k = n + 1
    <3>1. conn[j].tail <= written BY <1>1, <2>1 DEF InRange, n
    <3>2. conn'[j] = conn[j] /\ conn[j].tail \in Nat BY <1>2, <2>1
    <3>3. conn'[k].head = written + 1 BY <1>2, <2>2
    <3> QED BY <1>3, <3>1, <3>2, <3>3
  <2>3. CASE k # n + 1
    <3>1. k \in 1 .. n BY <1>2, <1>6, <2>3
    <3>2. conn[j].tail < conn[k].head BY <1>1, <1>6, <2>1, <3>1 DEF Apart, n
    <3>3. conn'[j] = conn[j] /\ conn'[k] = conn[k] BY <1>2, <2>1, <3>1
    <3> QED BY <3>2, <3>3
  <2> QED BY <2>2, <2>3
<1>13. Apart'
  BY <1>2, <1>6 DEF Apart
<1>7. ASSUME NEW m \in Nat, Behind(m) PROVE Behind(m)'
  BY <1>2, <1>3, <1>4, <1>7 DEF Behind, server, n
<1>8. J!Newest' = J!Newest /\ wsn' = wsn BY <1>4 DEF J!Newest, server
<1>9. Behind(J!Newest)' /\ Behind(wsn)'
  <2>1. J!Newest \in Nat /\ wsn \in Nat BY <1>1, NewestIsNat DEF TypeOK
  <2> QED BY <1>7, <1>8, <2>1 DEF IInv, Behind
<1>10. Partial'
  <2>1. SUFFICES ASSUME off > 0 PROVE spc # "accept" /\ Unread(Cur)' >= 1
    BY <1>4 DEF Partial, server
  <2>2. spc # "accept" /\ Unread(Cur) >= 1 BY <2>1 DEF IInv, Partial
  <2>3. accepted \in 1 .. n BY <1>1, <2>2, CurExists DEF n
  <2>4. Cur' = Cur BY <1>2, <1>4, <2>3 DEF Cur, server
  <2> QED BY <2>2, <2>4 DEF Unread
<1>11. InHandIsNew' BY <1>4, <1>8 DEF IInv, InHandIsNew, server
<1>12. FileIsOfIt' BY <1>4 DEF IInv, FileIsOfIt, server, Rows
<1> QED BY <1>5, <1>13, <1>9, <1>10, <1>11, <1>12 DEF IInv

LEMMA EnvironmentKeeps ==
  ASSUME IInv, TypeOK', Environment
  PROVE  IInv'
<1>1. TypeOK /\ InRange BY DEF IInv
<1>2. written \in Nat /\ off \in Nat
  BY <1>1, SetFits DEF TypeOK
<1>3. up => /\ Link \in Conn /\ Link.head \in Nat \ {0} /\ Link.tail \in Nat
            /\ Link.head <= Link.tail + 1 /\ Link.tail <= written
            /\ accepted = Len(conn) /\ off > 0 => Link.head <= Link.tail
  <2>1. up => /\ Link \in Conn /\ Link.head \in Nat \ {0} /\ Link.tail \in Nat
              /\ Link.head <= Link.tail + 1 /\ Link.tail <= written
    BY <1>1, LinkExists DEF InRange, Conn
  <2>2. accepted = Len(conn) /\ off > 0 => Unread(Link) >= 1
    BY DEF IInv, Partial, Cur, Link
  <2> QED BY <2>1, <2>2 DEF Unread
<1>4. CASE Connect BY <1>4, ConnectKeeps
<1>5. CASE Write
  <2> DEFINE c == [Link EXCEPT !.tail = written + 1]
  <2>1. up /\ SetLink(c) /\ UNCHANGED server /\ written' = written + 1 BY <1>5 DEF Write
  <2>2. c \in Conn /\ c.head = Link.head /\ c.tail = written + 1 BY <1>2, <1>3, <2>1 DEF Conn
  <2> HIDE DEF c
  <2>3. /\ written <= written' /\ c.head <= c.tail + 1 /\ c.tail <= written'
        /\ c.head <= c.tail
    BY <1>2, <1>3, <2>1, <2>2
  <2> QED BY <2>1, <2>2, <2>3, LinkKeeps
<1>6. CASE WriteLost
  <2> DEFINE c == [Link EXCEPT !.end = IF @ = "half" THEN "reset" ELSE @]
  <2>1. up /\ SetLink(c) /\ UNCHANGED server /\ written' = written + 1 BY <1>6 DEF WriteLost
  <2>2. c \in Conn /\ c.head = Link.head /\ c.tail = Link.tail BY <1>3, <2>1 DEF Conn, Ends
  <2> HIDE DEF c
  <2>3. written <= written' /\ c.head <= c.tail + 1 /\ c.tail <= written'
    BY <1>2, <1>3, <2>1, <2>2
  <2> QED BY <1>3, <2>1, <2>2, <2>3, LinkKeeps
<1>7. CASE BridgeEnds
  <2> DEFINE c == [Link EXCEPT !.end = IF @ \in {"open", "half"} THEN "fin" ELSE @]
  <2>1. up /\ SetLink(c) /\ UNCHANGED server /\ written' = written BY <1>7 DEF BridgeEnds
  <2>2. c \in Conn /\ c.head = Link.head /\ c.tail = Link.tail BY <1>3, <2>1 DEF Conn, Ends
  <2> HIDE DEF c
  <2>3. written <= written' /\ c.head <= c.tail + 1 /\ c.tail <= written'
    BY <1>2, <1>3, <2>1, <2>2
  <2> QED BY <1>3, <2>1, <2>2, <2>3, LinkKeeps
<1>8. ASSUME NEW end \in {"reset", "silent"}, Cut(end) PROVE IInv'
  <2>1. PICK t \in Link.head - (IF off = 0 \/ accepted < Len(conn) THEN 1 ELSE 0) .. Link.tail :
          SetLink([Link EXCEPT !.tail = t, !.end = end])
    BY <1>8 DEF Cut
  <2> DEFINE c == [Link EXCEPT !.tail = t, !.end = end]
  <2>2. up /\ SetLink(c) /\ UNCHANGED server /\ written' = written
    BY <1>8, <2>1 DEF Cut, bridge
  <2>3. t \in Nat /\ Link.head <= t + 1 /\ t <= Link.tail BY <1>3, <2>1, <2>2
  <2>4. accepted = Len(conn) /\ off > 0 => Link.head <= t
    <3>1. ~(accepted = Len(conn) /\ accepted < Len(conn))
      BY <1>1, ConnFacts, ConnElement DEF TypeOK
    <3> QED BY <1>2, <1>3, <2>1, <2>2, <3>1
  <2>5. c \in Conn /\ c.head = Link.head /\ c.tail = t
    BY <1>3, <1>8, <2>2, <2>3 DEF Conn, Ends
  <2> HIDE DEF c
  <2>6. written <= written' /\ c.head <= c.tail + 1 /\ c.tail <= written'
    BY <1>2, <1>3, <2>2, <2>3, <2>5
  <2> QED BY <2>2, <2>4, <2>5, <2>6, LinkKeeps
<1> QED BY <1>4, <1>5, <1>6, <1>7, <1>8 DEF Environment

\* A set read in part is not the end of a connection.
LEMMA EndIsWhole ==
  ASSUME TypeOK, Partial, spc # "accept", Waiting = 0
  PROVE  off = 0
<1> DEFINE n == Unread(Cur)
<1>1. SUFFICES ASSUME off > 0 PROVE FALSE BY SetFits DEF TypeOK
<1>2. n \in Int /\ n >= 1
  <2>1. Cur \in Conn BY CurExists
  <2> QED BY <1>1, <2>1 DEF Partial, Unread, Conn
<1>3. SetSize \in Nat \ {0} /\ off \in 0 .. SetSize - 1 BY SetFits DEF TypeOK
<1>4. n * SetSize - off = 0 BY DEF Waiting
<1> HIDE DEF n
<1>5. SetSize * 1 <= SetSize * n BY <1>2, <1>3, Monotonic
<1>6. SetSize * 1 = SetSize /\ SetSize * n = n * SetSize /\ n * SetSize \in Int BY <1>2, <1>3, Z3
<1> QED BY <1>3, <1>4, <1>5, <1>6

LEMMA ReadKeeps ==
  ASSUME IInv, TypeOK', Read
  PROVE  IInv'
<1> DEFINE n == Upto \div SetSize
           len == Len(conn)
<1>1. TypeOK /\ InRange /\ Apart BY DEF IInv
<1>2. accepted \in 1 .. len /\ spc # "accept" /\ Cur = conn[accepted]
  BY <1>1, CurExists DEF Read, At, Cur
<1>3. /\ n \in 0 .. Unread(Cur)
      /\ off' \in 0 .. SetSize - 1 /\ (off' > 0 => n < Unread(Cur))
      /\ off = 0 => n >= 1
  BY <1>1, ReadFacts DEF Read
<1>4. /\ Len(conn') = len /\ len \in Nat
      /\ \A j \in 1 .. len :
           /\ conn[j].head \in Nat /\ conn[j].tail \in Nat
           /\ conn'[j].head = conn[j].head + IF j = accepted THEN n ELSE 0
           /\ conn'[j].tail = conn[j].tail
  BY <1>1, ReadMoves, ConnFacts, ConnElement
<1> HIDE DEF n, len
<1>5. /\ written \in Nat /\ wsn \in Nat /\ J!Newest \in Nat
      /\ UNCHANGED <<written, accepted, db>>
  BY <1>1, NewestIsNat DEF Read, bridge, TypeOK
<1>6. Cur.head \in Nat /\ Cur.tail \in Nat /\ Cur.tail <= written
  BY <1>1, <1>2, <1>4 DEF InRange, len
<1>7. Cur.head + n <= Cur.tail + 1 /\ n \in Nat
  BY <1>3, <1>6 DEF Unread
<1>8. ASSUME NEW k \in 1 .. len
      PROVE  /\ conn[k].head <= conn'[k].head
             /\ conn'[k].head <= conn'[k].tail + 1 /\ conn'[k].tail <= written'
             /\ conn'[k].tail = conn[k].tail
  <2>1. conn[k].head <= conn[k].tail + 1 /\ conn[k].tail <= written
    BY <1>1 DEF InRange, len
  <2>2. CASE k = accepted BY <1>2, <1>4, <1>5, <1>7, <2>1, <2>2
  <2>3. CASE k # accepted BY <1>4, <1>5, <2>1, <2>3
  <2> QED BY <2>2, <2>3
<1>9. InRange' /\ Apart'
  BY <1>1, <1>4, <1>5, <1>8, OrderKept DEF len
<1>10. ASSUME NEW m \in Nat, Behind(m) PROVE Behind(m)'
  <2>1. \A k \in 1 .. Len(conn) : conn[k].head <= conn'[k].head
    BY <1>8 DEF len
  <2>2. written <= written' /\ accepted <= accepted' /\ Len(conn') = Len(conn)
    BY <1>1, <1>4, <1>5 DEF len, TypeOK
  <2> QED BY <1>1, <1>10, <2>1, <2>2, BehindKept
<1>11. J!Newest' = J!Newest BY <1>5 DEF J!Newest
<1>12. Behind(J!Newest)'
  <2> DEFINE m == J!Newest
  <2>1. Behind(m) /\ m \in Nat /\ m' = m BY <1>5, <1>11 DEF IInv
  <2> HIDE DEF m
  <2> QED BY <1>10, <2>1 DEF Behind, m
<1>13. wsn' = wsn \/ wsn' = 0 \/ (wsn' = Cur.head /\ off = 0)
  BY DEF Read, HandleFirst, HandleNoRows, HandleCrashes
<1>14. ASSUME NEW h, h = Cur.head, off = 0 PROVE Behind(h)'
  <2>1. n >= 1 BY <1>3, <1>14
  <2>2. h <= written' BY <1>5, <1>6, <1>7, <1>14, <2>1
  <2>3. ASSUME NEW k \in 1 .. len, accepted <= k PROVE h < conn'[k].head
    <3>1. CASE k = accepted
      <4>1. conn'[k].head = h + n BY <1>2, <1>4, <1>14, <3>1
      <4> QED BY <1>6, <1>7, <1>14, <2>1, <4>1
    <3>2. CASE k # accepted
      <4>1. conn[accepted].tail < conn[k].head BY <1>1, <1>2, <2>3, <3>2 DEF Apart, len
      <4>2. conn'[k].head = conn[k].head BY <1>4, <3>2
      <4>3. h <= conn[accepted].tail BY <1>2, <1>6, <1>7, <1>14, <2>1
      <4> QED BY <1>2, <1>4, <1>6, <1>14, <4>1, <4>2, <4>3
    <3> QED BY <3>1, <3>2
  <2> QED BY <1>4, <1>5, <2>2, <2>3 DEF Behind
<1>15. Behind(wsn)' /\ InHandIsNew'
  <2>1. CASE wsn' = wsn
    <3>1. Behind(wsn) /\ InHandIsNew BY DEF IInv
    <3>2. Behind(wsn)' BY <1>5, <1>10, <2>1, <3>1 DEF Behind
    <3> QED BY <1>11, <2>1, <3>1, <3>2 DEF InHandIsNew
  <2>2. CASE wsn' = 0
    <3>1. \A k \in 1 .. len : conn'[k].head > 0
      <4>1. conn' \in Seq(Conn) BY ConnFacts
      <4> QED BY <1>4, <4>1, ConnElement
    <3>2. Behind(wsn)' BY <1>4, <1>5, <2>2, <3>1 DEF Behind
    <3> QED BY <2>2, <3>2 DEF InHandIsNew
  <2>3. CASE wsn' = Cur.head /\ off = 0
    <3>1. PICK h : h = wsn' OBVIOUS
    <3>2. Behind(h)' BY <1>14, <2>3, <3>1
    <3>3. J!Newest < Cur.head BY <1>2 DEF IInv, Behind, len
    <3>4. Behind(wsn)' BY <3>1, <3>2 DEF Behind
    <3> QED BY <1>11, <2>3, <3>3, <3>4 DEF InHandIsNew
  <2> QED BY <1>13, <2>1, <2>2, <2>3
<1>16. Partial'
  <2>1. SUFFICES ASSUME off' > 0 PROVE spc' # "accept" /\ Unread(Cur)' >= 1
    BY DEF Partial
  <2>2. spc' # "accept" BY DEF Read, HandleFirst, HandleNoRows, HandleCrashes
  <2>3. Cur' = conn'[accepted] BY <1>5 DEF Cur
  <2>4. Cur'.head = Cur.head + n /\ Cur'.tail = Cur.tail BY <1>2, <1>4, <2>3
  <2> QED BY <1>3, <1>6, <1>7, <2>1, <2>2, <2>4 DEF Unread
<1>17. FileIsOfIt'
  BY DEF FileIsOfIt, Read, HandleFirst, HandleNoRows, HandleCrashes
<1> QED BY <1>9, <1>12, <1>15, <1>16, <1>17 DEF IInv

\* A step that moves no data set on a connection and leaves what is stored.
LEMMA InsideKeeps ==
  ASSUME IInv, TypeOK', UNCHANGED <<written, accepted, db, wsn>>,
         Len(conn') = Len(conn),
         \A k \in 1 .. Len(conn) :
           conn'[k].head = conn[k].head /\ conn'[k].tail = conn[k].tail
  PROVE  InRange' /\ Apart' /\ Behind(J!Newest)' /\ Behind(wsn)' /\ InHandIsNew'
<1>1. TypeOK /\ InRange /\ Apart /\ Behind(J!Newest) /\ Behind(wsn) /\ InHandIsNew
  BY DEF IInv
<1>2. /\ written \in Nat /\ accepted \in Nat
      /\ \A k \in 1 .. Len(conn) : conn[k].head \in Nat /\ conn[k].tail \in Nat
  <2>1. Len(conn) \in Nat /\ \A k \in 1 .. Len(conn) : conn[k].head \in Nat /\ conn[k].tail \in Nat
    BY <1>1, ConnFacts, ConnElement
  <2>2. written \in Nat /\ accepted \in Nat
    BY <1>1, <2>1 DEF TypeOK
  <2> QED BY <2>1, <2>2
<1>3. \A k \in 1 .. Len(conn) :
        /\ conn[k].head <= conn'[k].head
        /\ conn'[k].head <= conn'[k].tail + 1 /\ conn'[k].tail <= written'
        /\ conn'[k].tail = conn[k].tail
  BY <1>1, <1>2 DEF InRange
<1>4. InRange' /\ Apart'
  BY <1>1, <1>2, <1>3, OrderKept
<1>5. Behind(J!Newest)' /\ Behind(wsn)' /\ J!Newest' = J!Newest
  BY <1>1, <1>2, <1>3, BothBehind
<1> QED BY <1>1, <1>4, <1>5 DEF InHandIsNew

LEMMA InsertKeeps ==
  ASSUME IInv, TypeOK', Insert
  PROVE  IInv'
<1>1. TypeOK /\ InRange /\ Apart BY DEF IInv
<1>2. UNCHANGED <<written, up, conn, accepted, off, file>> /\ wsn' = 0 /\ spc' = "read"
  BY DEF Insert, bridge
<1>3. InRange' /\ Apart' BY <1>1, <1>2 DEF InRange, Apart
<1>4. file = Rows(wsn) /\ wsn \in Nat /\ db \in Seq(Nat \ {0})
  BY DEF Insert, At, IInv, FileIsOfIt, TypeOK
<1>5. J!Newest' \in {J!Newest, wsn}
  <2>1. CASE db' = db BY <2>1 DEF J!Newest
  <2>2. CASE db' = db \o file /\ wsn = 0
    <3>1. db' = db \o <<>> BY <1>4, <2>2 DEF Rows
    <3>2. db' = db BY <1>4, <3>1, ConcatEmptySeq
    <3> QED BY <3>2 DEF J!Newest
  <2>3. CASE db' = db \o file /\ wsn # 0
    <3>1. db' = db \o <<wsn>> /\ wsn \in Nat \ {0} BY <1>4, <2>3 DEF Rows
    <3>2. db' = Append(db, wsn) BY <1>4, <3>1, AppendIsConcat
    <3>3. db' # <<>> /\ Len(db') = Len(db) + 1 /\ db'[Len(db) + 1] = wsn
      BY <1>4, <3>1, <3>2, AppendProperties
    <3> QED BY <3>3 DEF J!Newest
  <2> QED BY <2>1, <2>2, <2>3 DEF Insert
<1>6. Behind(J!Newest)'
  <2>1. Behind(J!Newest) /\ Behind(wsn) BY DEF IInv
  <2> QED BY <1>2, <1>5, <2>1 DEF Behind
<1>7. Behind(wsn)'
  <2>1. \A k \in 1 .. Len(conn) : conn[k].head > 0 BY <1>1, ConnFacts, ConnElement
  <2> QED BY <1>1, <1>2, <2>1 DEF Behind, TypeOK
<1>8. Partial' BY <1>2 DEF IInv, Partial, Unread, Cur, Insert, At
<1>9. InHandIsNew' /\ FileIsOfIt' BY <1>2 DEF InHandIsNew, FileIsOfIt
<1> QED BY <1>3, <1>6, <1>7, <1>8, <1>9 DEF IInv

LEMMA ServerKeeps ==
  ASSUME IInv, TypeOK', Server
  PROVE  IInv'
<1>1. TypeOK /\ Partial BY DEF IInv
<1>2. CASE Accept
  <2>1. UNCHANGED <<written, conn, db, wsn, off>> /\ accepted' = accepted + 1 /\ spc' = "read"
        /\ spc = "accept"
    BY <1>2 DEF Accept, At, bridge
  <2>2. InRange' /\ Apart' BY <2>1 DEF IInv, InRange, Apart
  <2>3. accepted \in Nat BY <1>1, ConnFacts, ConnElement DEF TypeOK
  <2>4. J!Newest' = J!Newest BY <2>1 DEF J!Newest
  <2>5. Behind(J!Newest)' /\ Behind(wsn)'
    <3>1. Behind(J!Newest) /\ Behind(wsn) BY DEF IInv
    <3> QED BY <2>1, <2>3, <2>4, <3>1 DEF Behind
  <2>6. Partial' BY <1>1, <2>1 DEF Partial
  <2>7. InHandIsNew' /\ FileIsOfIt' BY <2>1, <2>4 DEF IInv, InHandIsNew, FileIsOfIt
  <2> QED BY <2>2, <2>5, <2>6, <2>7 DEF IInv
<1>3. CASE Read BY <1>3, ReadKeeps
<1>4. CASE ReadEnd
  <2>1. off = 0 BY <1>1, <1>4, EndIsWhole DEF ReadEnd, At
  <2>2. InRange' /\ Apart' /\ Behind(J!Newest)' /\ Behind(wsn)' /\ InHandIsNew'
    BY <1>4, InsideKeeps DEF ReadEnd, bridge
  <2>3. Partial' /\ FileIsOfIt' BY <1>4, <2>1 DEF ReadEnd, Partial, FileIsOfIt
  <2> QED BY <2>2, <2>3 DEF IInv
<1>5. CASE ReadError
  <2>1. accepted \in 1 .. Len(conn) /\ Cur \in Conn /\ spc # "accept"
    BY <1>1, <1>5, CurExists DEF ReadError, At
  <2> DEFINE c == [Cur EXCEPT !.end = "fin"]
  <2>2. c \in Conn /\ c.head = Cur.head /\ c.tail = Cur.tail BY <2>1 DEF Conn, Ends
  <2>3. conn' = [conn EXCEPT ![accepted] = c] BY <1>5 DEF ReadError, Cur
  <2> HIDE DEF c
  <2>4. Exchanged(accepted, c) BY <1>1, <2>1, <2>2, <2>3, ExchangeOne
  <2>5. Len(conn') = Len(conn)
        /\ \A k \in 1 .. Len(conn) : conn'[k].head = conn[k].head /\ conn'[k].tail = conn[k].tail
    BY <2>2, <2>4 DEF Exchanged, Cur
  <2>6. UNCHANGED <<written, accepted, db, wsn, off, spc, file>> BY <1>5 DEF ReadError, bridge, server
  <2>7. InRange' /\ Apart' /\ Behind(J!Newest)' /\ Behind(wsn)' /\ InHandIsNew'
    BY <2>5, <2>6, InsideKeeps
  <2>8. Partial' BY <1>1, <2>1, <2>5, <2>6 DEF Partial, Unread, Cur
  <2>9. FileIsOfIt' BY <1>5, <2>6 DEF FileIsOfIt, ReadError, At
  <2> QED BY <2>7, <2>8, <2>9 DEF IInv
<1>6. CASE PrepFile
  <2>1. InRange' /\ Apart' /\ Behind(J!Newest)' /\ Behind(wsn)' /\ InHandIsNew'
    BY <1>6, InsideKeeps DEF PrepFile, bridge
  <2>2. Partial' BY <1>1, <1>6 DEF Partial, Unread, Cur, PrepFile, At
  <2>3. FileIsOfIt' BY <1>6 DEF FileIsOfIt, PrepFile, Rows
  <2> QED BY <2>1, <2>2, <2>3 DEF IInv
<1>7. CASE Insert BY <1>7, InsertKeeps
<1> QED BY <1>2, <1>3, <1>4, <1>5, <1>6, <1>7 DEF Server

-----------------------------------------------------------------------------
(* The theorems.                                                            *)

LEMMA TypeOfInit == Init => TypeOK
<1> SUFFICES ASSUME Init PROVE TypeOK OBVIOUS
<1>1. <<>> \in Seq(Nat) /\ <<>> \in Seq(Nat \ {0}) /\ <<>> \in Seq(Conn) BY EmptySeq
<1>2. Len(<<>>) = 0 BY EmptySeq
<1>3. 0 \in 0 .. SetSize - 1 BY SetFits
<1>4. conn \in Seq(Conn) /\ accepted \in 0 .. Len(conn) /\ off \in 0 .. SetSize - 1
  BY <1>1, <1>2, <1>3 DEF Init
<1>5. /\ llist_dataset \in Seq(Nat) /\ db \in Seq(Nat \ {0})
      /\ file \in Seq(Nat \ {0}) /\ Len(file) <= 1
  BY <1>1, <1>2 DEF Init
<1> QED BY <1>4, <1>5 DEF Init, TypeOK, Conn

\* The variables keep to their domains, whatever the sizes.
THEOREM TypeCorrect == Spec => []TypeOK
<1>1. TypeOK /\ [Next]_vars => TypeOK'
  BY TypeStep
<1> QED BY <1>1, TypeOfInit, PTL DEF Spec

LEMMA InvariantKept == Spec => []IInv
<1>1. Init => IInv
  <2> SUFFICES ASSUME Init PROVE IInv OBVIOUS
  <2>1. TypeOK BY TypeOfInit
  <2>2. conn = <<>> /\ Len(conn) = 0 /\ db = <<>> /\ wsn = 0 /\ off = 0 /\ spc = "accept" /\ written = 0
    BY EmptySeq DEF Init
  <2>3. J!Newest = 0 BY <2>2 DEF J!Newest
  <2> QED BY <2>1, <2>2, <2>3 DEF IInv, InRange, Apart, Behind, Partial, InHandIsNew, FileIsOfIt
<1>2. IInv /\ [Next]_vars => IInv'
  <2> SUFFICES ASSUME IInv, [Next]_vars PROVE IInv' OBVIOUS
  <2>1. TypeOK' BY TypeStep DEF IInv
  <2>2. CASE UNCHANGED vars
    BY <2>1, <2>2 DEF IInv, InRange, Apart, Behind, Partial, InHandIsNew, FileIsOfIt, Unread, Cur,
                      J!Newest, Rows, vars, bridge, server
  <2> QED BY <2>1, <2>2, EnvironmentKeeps, ServerKeeps DEF Next
<1> QED BY <1>1, <1>2, PTL DEF Spec

\* A step stores nothing but the set in hand.
LEMMA JournalStep ==
  ASSUME IInv, [Next]_vars
  PROVE  [J!Next]_(J!vars)
<1>1. CASE UNCHANGED <<written, db>>
  BY <1>1 DEF J!vars
<1>2. CASE Write \/ WriteLost
  BY <1>2 DEF Write, WriteLost, server, J!Next, J!Offer
<1>3. CASE Insert /\ db' # db
  <2>1. file = Rows(wsn) /\ wsn \in Nat /\ db \in Seq(Nat \ {0}) /\ db' = db \o file /\ db' # db
    BY <1>3 DEF Insert, At, IInv, FileIsOfIt, TypeOK
  <2>2. wsn # 0 BY <2>1, ConcatEmptySeq DEF Rows
  <2>3. db' = db \o <<wsn>> /\ wsn \in Nat \ {0} BY <2>1, <2>2 DEF Rows
  <2>4. db' = Append(db, wsn) BY <2>1, <2>3, AppendIsConcat
  <2>5. J!Newest < wsn /\ wsn <= written /\ J!Newest \in Nat /\ written \in Nat
    BY <2>3, NewestIsNat DEF IInv, InHandIsNew, Behind, TypeOK
  <2>6. wsn \in J!Newest + 1 .. written BY <2>3, <2>5
  <2>7. written' = written BY <1>3 DEF Insert, bridge
  <2> QED BY <2>4, <2>6, <2>7 DEF J!Next, J!Store
<1>4. UNCHANGED <<written, db>> \/ Write \/ WriteLost \/ (Insert /\ db' # db)
  BY DEF Next, Environment, Server, Connect, BridgeEnds, Cut, Accept, Read, ReadEnd, ReadError,
         PrepFile, Insert, vars, bridge, server
<1> QED BY <1>1, <1>2, <1>3, <1>4

\* Whatever crowds, fails, is cut or is restarted, what is stored is stored in the
\* order in which it was written and once: CloudServer implements Journal.
THEOREM JournalImplemented == Spec => ImplementsJournal
<1>1. Init => J!Init
  BY DEF Init, J!Init
<1>2. IInv /\ [Next]_vars => [J!Next]_(J!vars)
  BY JournalStep
<1> QED BY <1>1, <1>2, InvariantKept, PTL DEF Spec, ImplementsJournal, J!Spec

\* What a journal stores was offered, each number once and in order.
InOrder == \A k \in 1 .. Len(db) :
             db[k] \in 1 .. written /\ (k > 1 => db[k - 1] < db[k])

\* What is stored was written, and is stored in the order it was written.
THEOREM StoredInOrder == Spec => []InOrder
<1>1. Init => InOrder
  BY DEF Init, InOrder
<1>2. IInv /\ InOrder /\ [Next]_vars => InOrder'
  <2> SUFFICES ASSUME IInv, InOrder, [J!Next]_(J!vars) PROVE InOrder'
    BY JournalStep
  <2> DEFINE l == Len(db)
  <2>1. l \in Nat /\ db \in Seq(Nat \ {0}) /\ written \in Nat
    BY DEF IInv, TypeOK
  <2>2. CASE db' = db /\ written <= written' /\ written' \in Nat
    BY <2>1, <2>2 DEF InOrder
  <2>3. CASE J!Store
    <3>1. PICK n \in J!Newest + 1 .. written : db' = Append(db, n) /\ written' = written
      BY <2>3 DEF J!Store
    <3>2. J!Newest \in Nat /\ (l > 0 => J!Newest = db[l])
      BY <2>1, NewestIsNat DEF J!Newest
    <3>3. n \in Nat \ {0} /\ J!Newest < n /\ n <= written
      BY <2>1, <3>1, <3>2
    <3>4. Len(db') = l + 1 /\ db'[l + 1] = n /\ \A k \in 1 .. l : db'[k] = db[k]
      BY <2>1, <3>1, <3>3
    <3>5. \A k \in 1 .. l : db[k] \in 1 .. written /\ (k > 1 => db[k - 1] < db[k])
      BY DEF InOrder
    <3> HIDE DEF l
    <3>6. ASSUME NEW k \in 1 .. l + 1
          PROVE  db'[k] \in 1 .. written /\ (k > 1 => db'[k - 1] < db'[k])
      <4>1. CASE k = l + 1
        <5>1. k - 1 = l /\ (k > 1 => l > 0 /\ l \in 1 .. l)
          BY <2>1, <4>1
        <5> QED BY <5>1, <4>1, <2>1, <3>2, <3>3, <3>4
      <4>2. CASE k # l + 1
        <5>1. k \in 1 .. l /\ (k > 1 => k - 1 \in 1 .. l)
          BY <2>1, <4>2
        <5> QED BY <5>1, <3>4, <3>5
      <4> QED BY <4>1, <4>2
    <3> QED BY <3>1, <3>4, <3>6 DEF InOrder
  <2>4. (db' = db /\ written <= written' /\ written' \in Nat) \/ J!Store
    BY <2>1 DEF J!Next, J!Offer, J!vars
  <2> QED BY <2>2, <2>3, <2>4
<1> QED BY <1>1, <1>2, InvariantKept, PTL DEF Spec

\* As long as no read finds more data sets than the buffer holds, reads begin
\* where data sets begin and the server survives, whatever the sizes of both.
THEOREM FramingIsKept == Spec => []FramingKept
<1>1. Init => FramingKept
  BY DEF Init, FramingKept
<1>2. TypeOK /\ FramingKept /\ [Next]_vars => FramingKept'
  <2> SUFFICES ASSUME TypeOK, FramingKept, [Next]_vars, crowd' * SetSize <= PayloadMax
               PROVE  off' = 0 /\ spc' # "dead"
    BY DEF FramingKept
  <2>1. CASE UNCHANGED <<crowd, off>> /\ spc' \in {spc, "accept", "read", "insert"}
    BY <2>1 DEF FramingKept
  <2>2. CASE Read
    <3>1. /\ crowd \in Nat /\ Unread(Cur) \in Nat /\ SetSize \in Nat
          /\ crowd' = Most(crowd, Unread(Cur))
      BY <2>2, ReadFacts, SetFits DEF Read, TypeOK
    <3>2. crowd' \in Nat /\ crowd <= crowd' /\ Unread(Cur) <= crowd'
      BY <3>1 DEF Most
    <3>3. SetSize * crowd <= SetSize * crowd' /\ SetSize * Unread(Cur) <= SetSize * crowd'
      BY <3>1, <3>2, Monotonic
    <3>4. \A m \in Nat : m * SetSize = SetSize * m /\ m * SetSize \in Nat
      BY SetFits, Z3
    <3>5. crowd * SetSize <= PayloadMax /\ Unread(Cur) * SetSize <= PayloadMax
      <4>1. PayloadMax \in Nat BY SetFits
      <4> QED BY <3>1, <3>2, <3>3, <3>4, <4>1
    <3>6. off = 0 BY <3>5 DEF FramingKept
    <3>7. off' = 0
      <4>1. PayloadMax >= Unread(Cur) * SetSize BY <3>1, <3>4, <3>5, SetFits
      <4> QED BY <2>2, <3>6, <4>1, ReadFacts DEF Read
    <3> QED BY <2>2, <3>6, <3>7 DEF Read, HandleFirst
  <2>3. (UNCHANGED <<crowd, off>> /\ spc' \in {spc, "accept", "read", "insert"}) \/ Read
    BY DEF Next, Environment, Server, Connect, Write, WriteLost, BridgeEnds, Cut, Accept, ReadEnd,
           ReadError, PrepFile, Insert, vars, bridge, server
  <2> QED BY <2>1, <2>2, <2>3
<1> QED BY <1>1, <1>2, TypeCorrect, PTL DEF Spec

-----------------------------------------------------------------------------
(* Nothing is skipped, as long as no two sets are read at once and nothing   *)
(* fails.                                                                    *)

\* The numbers still to be read, and those stored or in hand, are the numbers
\* written; the connections before the one in hand are empty.
Settled(k) == k \in 1 .. Len(conn) => Unread(conn[k]) = 0 /\ conn[k].end = "fin"

Chain ==
  /\ off = 0 /\ spc # "dead"
  /\ \A k \in 1 .. Len(db) : db[k] = k
  /\ InHand = 1 => wsn = Len(db) + 1
  /\ \A m \in Int : m \in UnreadSets <=> Len(db) + InHand + 1 <= m /\ m <= written
  /\ up => Link.tail = written
  /\ \A k \in 1 .. Len(conn) : k < accepted => Unread(conn[k]) = 0
  /\ spc = "accept" => Settled(accepted)

Sound == ~faulty /\ crowd <= 1 => Chain

LEMMA UnreadAre ==
  /\ TypeOK  => \A m : m \in UnreadSets <=>
                   \E k \in 1 .. Len(conn) : m \in conn[k].head .. conn[k].tail
  /\ TypeOK' => \A m : m \in UnreadSets' <=>
                   \E k \in 1 .. Len(conn') : m \in conn'[k].head .. conn'[k].tail
<1>1. TypeOK => DOMAIN conn = 1 .. Len(conn) BY ConnFacts, LenProperties
<1>2. TypeOK' => DOMAIN conn' = 1 .. Len(conn') BY ConnFacts, LenProperties
<1> QED BY <1>1, <1>2 DEF UnreadSets

LEMMA InHandIs ==
  /\ InHand \in {0, 1} /\ InHand' \in {0, 1}
  /\ InHand = 1 <=> spc \in {"file", "insert"}
  /\ InHand' = 1 <=> spc' \in {"file", "insert"}
BY DEF InHand

\* A step of the bridge that leaves the data sets on its connection.
LEMMA LinkSettles ==
  ASSUME IInv, TypeOK', Chain, UNCHANGED <<server, written>>, up, NEW c \in Conn, SetLink(c),
         c.head = Link.head, c.tail = Link.tail, Link.end = "fin" => c.end = "fin"
  PROVE  Chain'
<1>1. TypeOK BY DEF IInv
<1>2. Exchanged(Len(conn), c) /\ Link = conn[Len(conn)] BY <1>1, LinkSet, LinkExists
<1>3. /\ Len(conn') = Len(conn)
      /\ \A k \in 1 .. Len(conn) :
           /\ conn'[k].head = conn[k].head /\ conn'[k].tail = conn[k].tail
           /\ conn[k].end = "fin" => conn'[k].end = "fin"
  BY <1>2 DEF Exchanged
<1>4. \A m : m \in UnreadSets' <=> m \in UnreadSets
  BY <1>1, <1>3, UnreadAre
<1>5. Link' = conn'[Len(conn)] /\ Link'.tail = Link.tail
  BY <1>2, <1>3 DEF Link, Exchanged
<1>6. (spc = "accept" => Settled(accepted)) => (spc' = "accept" => Settled(accepted)')
  BY <1>3 DEF Settled, Unread, server
<1>7. InHand' = InHand BY DEF InHand, server
<1> QED BY <1>3, <1>4, <1>5, <1>6, <1>7 DEF Chain, Unread, server

LEMMA ConnectSettles ==
  ASSUME IInv, TypeOK', Chain, Connect
  PROVE  Chain'
<1> DEFINE n == Len(conn)
<1>1. TypeOK BY DEF IInv
<1>2. /\ n \in Nat /\ Len(conn') = n + 1
      /\ \A j \in 1 .. n : conn'[j] = conn[j]
      /\ conn'[n + 1].head = written + 1 /\ conn'[n + 1].tail = written
  BY <1>1, ConnectAdds, ConnFacts, ConnElement DEF Connection
<1>3. UNCHANGED <<written, server>> /\ written \in Nat /\ accepted \in 0 .. n
  BY <1>1 DEF Connect, TypeOK
<1> HIDE DEF n
<1>4. \A m : m \in UnreadSets' <=> m \in UnreadSets
  <2>1. \A m : m \in UnreadSets <=> \E k \in 1 .. n : m \in conn[k].head .. conn[k].tail
    BY <1>1, UnreadAre DEF n
  <2>2. \A m : m \in UnreadSets' <=> \E k \in 1 .. n + 1 : m \in conn'[k].head .. conn'[k].tail
    BY <1>2, UnreadAre
  <2>3. conn'[n + 1].head .. conn'[n + 1].tail = {} BY <1>2, <1>3
  <2>4. \A k \in 1 .. n + 1 : k \in 1 .. n \/ k = n + 1 BY <1>2
  <2>5. \A k \in 1 .. n : k \in 1 .. n + 1 BY <1>2
  <2> QED BY <1>2, <2>1, <2>2, <2>3, <2>4, <2>5
<1>5. Link' = conn'[n + 1] BY <1>2 DEF Link
<1>6. InHand' = InHand BY <1>3 DEF InHand, server
<1>7. \A k \in 1 .. n + 1 : k < accepted => Unread(conn'[k]) = 0
  <2>1. ASSUME NEW k \in 1 .. n + 1, k < accepted PROVE Unread(conn'[k]) = 0
    <3>1. k \in 1 .. n BY <1>2, <1>3, <2>1
    <3>2. Unread(conn[k]) = 0 BY <2>1, <3>1 DEF Chain, n
    <3> QED BY <1>2, <3>1, <3>2
  <2> QED BY <2>1
<1>8. spc = "accept" => Settled(accepted)'
  <2>1. SUFFICES ASSUME spc = "accept", accepted \in 1 .. n + 1
                 PROVE  Unread(conn'[accepted]) = 0 /\ conn'[accepted].end = "fin"
    BY <1>2, <1>3 DEF Settled, server
  <2>2. accepted \in 1 .. n BY <1>2, <1>3, <2>1
  <2> QED BY <1>2, <2>1, <2>2 DEF Chain, Settled, n
<1> QED BY <1>2, <1>3, <1>4, <1>5, <1>6, <1>7, <1>8 DEF Chain, Unread, server

LEMMA WriteSettles ==
  ASSUME IInv, TypeOK', Chain, Write
  PROVE  Chain'
<1> DEFINE n == Len(conn)
           c == [Link EXCEPT !.tail = written + 1]
<1>1. TypeOK /\ InRange BY DEF IInv
<1>2. up /\ SetLink(c) /\ UNCHANGED <<server, up>> /\ written' = written + 1 /\ Link.end = "open"
  BY DEF Write
<1>3. Link \in Conn /\ Link = conn[n] /\ Link.tail = written /\ written \in Nat /\ n \in 1 .. n
  BY <1>1, <1>2, LinkExists DEF Chain, TypeOK
<1>4. c \in Conn /\ c.head = Link.head /\ c.tail = written + 1 /\ c.end = "open"
  <2>1. written + 1 \in Nat BY <1>3
  <2> QED BY <1>2, <1>3, <2>1 DEF Conn
<1>5. Link.head \in Nat /\ Link.head <= written + 1
  BY <1>1, <1>3 DEF InRange, Conn
<1> HIDE DEF c
<1>6. Exchanged(n, c) BY <1>1, <1>2, <1>4, LinkSet
<1>7. /\ Len(conn') = n /\ n \in Nat
      /\ \A k \in 1 .. n : conn'[k] = IF k = n THEN c ELSE conn[k]
  BY <1>1, <1>6, ConnFacts, ConnElement DEF Exchanged
<1> HIDE DEF n
<1>8. \A m \in Int : m \in UnreadSets' <=> m \in UnreadSets \/ m = written + 1
  <2>1. \A m : m \in UnreadSets <=> \E k \in 1 .. n : m \in conn[k].head .. conn[k].tail
    BY <1>1, UnreadAre DEF n
  <2>2. \A m : m \in UnreadSets' <=> \E k \in 1 .. n : m \in conn'[k].head .. conn'[k].tail
    BY <1>7, UnreadAre
  <2>3. \A m \in Int : m \in c.head .. c.tail <=> m \in Link.head .. Link.tail \/ m = written + 1
    BY <1>3, <1>4, <1>5
  <2> QED BY <1>3, <1>7, <2>1, <2>2, <2>3
<1>9. Link' = c BY <1>3, <1>7 DEF Link, n
<1>10. InHand' = InHand BY <1>2 DEF InHand, server
<1>11. accepted \in 0 .. n BY <1>1 DEF TypeOK, n
<1>12. \A k \in 1 .. n : k < accepted => Unread(conn'[k]) = 0
  BY <1>7, <1>11 DEF Chain, n
<1>13. spc = "accept" => Settled(accepted)'
  BY <1>2, <1>3, <1>7 DEF Chain, Settled, n, server
<1>14. \A m \in Int : m \in UnreadSets' <=> Len(db) + InHand + 1 <= m /\ m <= written + 1
  <2>1. Len(db) + InHand \in Int /\ Len(db) + InHand <= written
    <3>1. Len(db) \in Nat BY <1>1, LenProperties DEF TypeOK
    <3>2. Len(db) + InHand <= written
      <4>1. InHand = 1 => Len(db) + 1 <= written
        BY <1>3, <3>1 DEF Chain, IInv, Behind
      <4>2. Len(db) <= written
        <5>1. CASE Len(db) = 0 BY <1>3, <5>1
        <5>2. CASE Len(db) # 0
          <6>1. db # <<>> BY <5>2, EmptySeq
          <6>2. J!Newest = Len(db) BY <3>1, <5>2, <6>1 DEF J!Newest, Chain
          <6> QED BY <6>2 DEF IInv, Behind
        <5> QED BY <5>1, <5>2
      <4> QED BY <3>1, <4>1, <4>2, InHandIs
    <3> QED BY <3>1, <3>2, InHandIs
  <2>2. \A m \in Int : m \in UnreadSets <=> Len(db) + InHand + 1 <= m /\ m <= written
    BY DEF Chain
  <2> DEFINE a == Len(db) + InHand
  <2> HIDE DEF a
  <2>3. a \in Int /\ a <= written BY <2>1 DEF a
  <2>4. \A m \in Int : m \in UnreadSets <=> a + 1 <= m /\ m <= written BY <2>2 DEF a
  <2>5. \A m \in Int : m \in UnreadSets' <=> a + 1 <= m /\ m <= written + 1
    BY <1>3, <1>8, <2>3, <2>4
  <2> QED BY <2>5 DEF a
<1> QED BY <1>2, <1>4, <1>7, <1>9, <1>10, <1>12, <1>13, <1>14 DEF Chain, n, server

\* A read of one data set takes the next one.
LEMMA ReadSettles ==
  ASSUME IInv, TypeOK', Chain, Read, crowd' <= 1
  PROVE  Chain'
<1> DEFINE n == Len(conn)
           a == Len(db)
           h == Cur.head
<1>1. TypeOK /\ Apart /\ off = 0 /\ spc = "read" BY DEF IInv, Chain, Read, At
<1>2. accepted \in 1 .. n /\ Cur = conn[accepted] /\ n \in Nat /\ a \in Nat
  BY <1>1, CurExists, ConnFacts, ConnElement, LenProperties DEF Cur, TypeOK
<1>3. Unread(Cur) = 1 /\ Upto \div SetSize = 1 /\ off' = 0
  <2>1. /\ Unread(Cur) \in Nat \ {0} /\ Upto \div SetSize \in 0 .. Unread(Cur)
        /\ Upto \div SetSize >= 1
        /\ PayloadMax >= Unread(Cur) * SetSize => (Upto % SetSize) = 0
    BY <1>1, ReadFacts DEF Read
  <2>2. crowd \in Nat /\ crowd' = Most(crowd, Unread(Cur)) BY <1>1 DEF Read, TypeOK
  <2>3. Unread(Cur) = 1 BY <2>1, <2>2 DEF Most
  <2>4. 1 * SetSize <= PayloadMax BY SetFits
  <2>5. (Upto % SetSize) = 0 BY <2>1, <2>3, <2>4, SetFits
  <2> QED BY <2>1, <2>3, <2>5 DEF Read
<1>4. /\ Len(conn') = n
      /\ \A j \in 1 .. n :
           /\ conn[j].head \in Nat /\ conn[j].tail \in Nat
           /\ conn'[j].head = conn[j].head + IF j = accepted THEN 1 ELSE 0
           /\ conn'[j].tail = conn[j].tail
  BY <1>1, <1>3, ReadMoves, ConnFacts, ConnElement
<1>5. /\ wsn' = h /\ spc' = "file" /\ UNCHANGED <<written, up, accepted, db>>
      /\ h \in Nat /\ Cur.tail = h
  <2>1. h \in Nat /\ Cur.tail \in Nat BY <1>2, <1>4
  <2> QED BY <1>1, <1>3, <2>1 DEF Read, HandleFirst, bridge, Unread
<1>6. InHand = 0 /\ InHand' = 1 BY <1>1, <1>5 DEF InHand
<1> HIDE DEF n, a, h
<1>7. \A m \in Int : m \in UnreadSets <=> a + 1 <= m /\ m <= written
  BY <1>2, <1>6 DEF Chain, a
<1>8. \A m : m \in UnreadSets <=> \E k \in 1 .. n : m \in conn[k].head .. conn[k].tail
  BY <1>1, UnreadAre DEF n
<1>9. \A m : m \in UnreadSets' <=> \E k \in 1 .. n : m \in conn'[k].head .. conn'[k].tail
  BY <1>4, UnreadAre
<1>10. \A k \in 1 .. n : k < accepted => conn[k].head .. conn[k].tail = {}
  <2>1. ASSUME NEW k \in 1 .. n, k < accepted PROVE conn[k].head .. conn[k].tail = {}
    <3>1. Unread(conn[k]) = 0 BY <2>1 DEF Chain, n
    <3>2. conn[k].tail < conn[k].head BY <1>4, <3>1 DEF Unread
    <3> QED BY <1>4, <3>2
  <2> QED BY <2>1
<1>11. \A k \in 1 .. n : accepted < k => h < conn[k].head
  BY <1>1, <1>2, <1>5 DEF Apart, n
<1>12. conn[accepted].head = h /\ conn[accepted].tail = h BY <1>2, <1>5 DEF h
<1>13. h \in UnreadSets BY <1>2, <1>5, <1>8, <1>12
<1>14. \A m \in UnreadSets : m >= h
  <2>1. ASSUME NEW m, NEW k \in 1 .. n, m \in conn[k].head .. conn[k].tail PROVE m >= h
    <3>1. CASE k < accepted BY <1>10, <2>1, <3>1
    <3>2. CASE k = accepted BY <1>5, <1>12, <2>1, <3>2
    <3>3. CASE accepted < k BY <1>4, <1>5, <1>11, <2>1, <3>3
    <3> QED BY <1>2, <3>1, <3>2, <3>3
  <2> QED BY <1>8, <2>1
<1>15. h = a + 1
  <2>1. a + 1 <= h /\ h <= written BY <1>5, <1>7, <1>13
  <2>2. written \in Nat BY <1>1 DEF TypeOK
  <2>3. a + 1 \in UnreadSets BY <1>2, <1>5, <1>7, <2>1, <2>2
  <2> QED BY <1>2, <1>5, <1>14, <2>1, <2>3
<1>16. \A m \in Int : m \in UnreadSets' <=> m \in UnreadSets /\ m # h
  <2>1. ASSUME NEW m \in Int, NEW k \in 1 .. n
        PROVE  m \in conn'[k].head .. conn'[k].tail <=>
                 m \in conn[k].head .. conn[k].tail /\ m # h
    <3>1. CASE k < accepted BY <1>2, <1>4, <1>10, <3>1
    <3>2. CASE k = accepted BY <1>4, <1>5, <1>12, <3>2
    <3>3. CASE accepted < k BY <1>2, <1>4, <1>5, <1>11, <3>3
    <3> QED BY <1>2, <3>1, <3>2, <3>3
  <2> QED BY <1>8, <1>9, <2>1
<1>17. \A m \in Int : m \in UnreadSets' <=> a + 2 <= m /\ m <= written
  BY <1>2, <1>7, <1>15, <1>16
<1>18. up => Link'.tail = written
  <2>1. Link' = conn'[n] /\ Link = conn[n] BY <1>4 DEF Link, n
  <2>2. n \in 1 .. n BY <1>2
  <2> QED BY <1>4, <2>1, <2>2 DEF Chain
<1>19. \A k \in 1 .. n : k < accepted => Unread(conn'[k]) = 0
  BY <1>2, <1>4 DEF Chain, Unread, n
<1>20. \A m \in Int : m \in UnreadSets' <=> Len(db)' + InHand' + 1 <= m /\ m <= written'
  BY <1>2, <1>5, <1>6, <1>17 DEF a
<1>21. wsn' = Len(db)' + 1 BY <1>5, <1>15 DEF a
<1>22. \A k \in 1 .. Len(db)' : db'[k] = k BY <1>5 DEF Chain
<1> QED BY <1>3, <1>4, <1>5, <1>18, <1>19, <1>20, <1>21, <1>22 DEF Chain

\* The insert of the data set in hand.
LEMMA InsertSettles ==
  ASSUME IInv, TypeOK', Chain, Insert, ~faulty'
  PROVE  Chain'
<1> DEFINE a == Len(db)
<1>1. TypeOK /\ file = Rows(wsn) /\ db \in Seq(Nat \ {0}) /\ a \in Nat /\ spc = "insert"
  <2>1. TypeOK /\ file = Rows(wsn) /\ spc = "insert" BY DEF IInv, FileIsOfIt, Insert, At
  <2>2. db \in Seq(Nat \ {0}) BY <2>1 DEF TypeOK
  <2> QED BY <2>1, <2>2, LenProperties
<1>2. InHand = 1 /\ InHand' = 0 BY DEF Insert, At, InHand
<1>3. wsn = a + 1 /\ file = <<a + 1>> BY <1>1, <1>2 DEF Chain, Rows
<1>4. UNCHANGED <<written, up, conn, accepted, off>> /\ spc' = "read" BY DEF Insert, bridge
<1> HIDE DEF a
<1>5. db' = db \o <<a + 1>> /\ a + 1 \in Nat \ {0}
  <2>1. db' = db \o file BY DEF Insert
  <2> QED BY <1>1, <1>3, <2>1
<1>6. db' = Append(db, a + 1) BY <1>1, <1>5, AppendIsConcat
<1>7. /\ Len(db') = a + 1 /\ db'[a + 1] = a + 1
      /\ \A k \in 1 .. a : db'[k] = db[k]
  BY <1>1, <1>5, <1>6, AppendProperties DEF a
<1>8. \A k \in 1 .. Len(db') : db'[k] = k
  <2>1. \A k \in 1 .. a + 1 : k \in 1 .. a \/ k = a + 1 BY <1>1
  <2>2. \A k \in 1 .. a : db[k] = k BY DEF Chain, a
  <2> QED BY <1>7, <2>1, <2>2
<1>9. UnreadSets' = UnreadSets BY <1>4 DEF UnreadSets
<1>10. \A m \in Int : m \in UnreadSets' <=> Len(db') + InHand' + 1 <= m /\ m <= written'
  <2>1. \A m \in Int : m \in UnreadSets <=> a + 1 + 1 <= m /\ m <= written
    BY <1>2 DEF Chain, a
  <2>2. a + 1 + 0 + 1 = a + 1 + 1 BY <1>1
  <2> QED BY <1>2, <1>4, <1>7, <1>9, <2>1, <2>2
<1>11. up' => Link'.tail = written' BY <1>4 DEF Chain, Link
<1>12. \A k \in 1 .. Len(conn') : k < accepted' => Unread(conn'[k]) = 0 BY <1>4 DEF Chain
<1> QED BY <1>2, <1>4, <1>8, <1>10, <1>11, <1>12 DEF Chain

\* A step of the server that moves no data set.
LEMMA InsideSettles ==
  ASSUME TypeOK, Chain, UNCHANGED <<bridge, conn, off, wsn, db>>, spc' # "dead", InHand' = InHand,
         accepted <= accepted' /\ accepted' <= accepted + 1,
         accepted \in Nat /\ accepted' \in Nat,
         accepted' # accepted => Settled(accepted),
         spc' = "accept" => Settled(accepted)'
  PROVE  Chain'
<1>1. \A k \in 1 .. Len(conn) : k < accepted' => Unread(conn[k]) = 0
  <2>1. \A k \in 1 .. Len(conn) : k < accepted' => k < accepted \/ k = accepted
    <3>1. Len(conn) \in Nat BY ConnFacts, ConnElement
    <3> QED BY <3>1
  <2>2. ASSUME NEW k \in 1 .. Len(conn), k < accepted' PROVE Unread(conn[k]) = 0
    <3>1. CASE k < accepted BY <3>1 DEF Chain
    <3>2. CASE k = accepted /\ accepted' # accepted BY <3>2 DEF Settled
    <3>3. CASE k = accepted /\ accepted' = accepted BY <2>2, <3>3
    <3> QED BY <2>1, <2>2, <3>1, <3>2, <3>3
  <2> QED BY <2>2
<1>2. UnreadSets' = UnreadSets /\ Link' = Link BY DEF UnreadSets, Link
<1> QED BY <1>1, <1>2 DEF Chain, bridge

LEMMA ServerSettles ==
  ASSUME IInv, TypeOK', Chain, Server, ~faulty', crowd' <= 1
  PROVE  Chain'
<1>1. TypeOK /\ off = 0 BY DEF IInv, Chain
<1>2. accepted \in Nat BY <1>1, ConnFacts, ConnElement DEF TypeOK
<1>3. CASE Accept
  <2>1. UNCHANGED <<bridge, conn, off, wsn, db>> /\ spc = "accept" /\ spc' = "read"
        /\ accepted' = accepted + 1
    BY <1>3 DEF Accept, At
  <2>2. InHand' = InHand BY <2>1 DEF InHand
  <2>3. Settled(accepted) BY <2>1 DEF Chain
  <2>4. spc' # "dead" /\ accepted <= accepted' /\ accepted' <= accepted + 1 BY <1>2, <2>1
  <2>5. (accepted' # accepted => Settled(accepted)) /\ spc' # "accept" BY <2>1, <2>3
  <2>6. accepted' \in Nat BY <1>2, <2>1
  <2> QED BY <1>1, <1>2, <2>1, <2>2, <2>4, <2>5, <2>6, InsideSettles
<1>4. CASE Read BY <1>4, ReadSettles
<1>5. CASE ReadEnd
  <2>1. UNCHANGED <<bridge, conn, off, wsn, db, accepted>> /\ spc = "read" /\ spc' = "accept"
        /\ Waiting = 0 /\ Cur.end = "fin"
    BY <1>5 DEF ReadEnd, At
  <2>2. InHand' = InHand BY <2>1 DEF InHand
  <2>3. Unread(Cur) = 0
    <3> DEFINE n == Unread(Cur)
    <3>1. Cur \in Conn BY <1>1, <2>1, CurExists
    <3>2. n \in Int BY <3>1 DEF Unread, Conn
    <3>3. n * SetSize - 0 = 0 BY <1>1, <2>1 DEF Waiting
    <3> HIDE DEF n
    <3>4. SetSize \in Nat \ {0} BY SetFits
    <3>5. n = 0
      <4>1. n * SetSize = SetSize * n /\ n * SetSize \in Int BY <3>2, <3>4, Z3
      <4>2. CASE n >= 1
        <5>1. SetSize * 1 <= SetSize * n BY <3>2, <3>4, <4>2, Monotonic
        <5> QED BY <3>3, <3>4, <4>1, <5>1
      <4>3. CASE n <= -1
        <5>1. SetSize * n <= SetSize * (-1) BY <3>2, <3>4, <4>3, Monotonic
        <5>2. SetSize * (-1) = -SetSize BY <3>4, Z3
        <5> QED BY <3>3, <3>4, <4>1, <5>1, <5>2
      <4> QED BY <3>2, <4>2, <4>3
    <3> QED BY <3>5 DEF n
  <2>4. Settled(accepted)' BY <2>1, <2>3 DEF Settled, Cur
  <2>5. spc' # "dead" /\ accepted <= accepted' /\ accepted' <= accepted + 1 /\ accepted' \in Nat
    BY <1>2, <2>1
  <2>6. accepted' = accepted BY <2>1
  <2> QED BY <1>1, <1>2, <2>1, <2>2, <2>4, <2>5, <2>6, InsideSettles
<1>6. CASE ReadError
  <2>1. accepted \in 1 .. Len(conn) /\ Cur \in Conn /\ spc = "read"
    BY <1>1, <1>6, CurExists DEF ReadError, At
  <2> DEFINE c == [Cur EXCEPT !.end = "fin"]
  <2>2. c \in Conn /\ c.head = Cur.head /\ c.tail = Cur.tail BY <2>1 DEF Conn, Ends
  <2>3. conn' = [conn EXCEPT ![accepted] = c] BY <1>6 DEF ReadError, Cur
  <2> HIDE DEF c
  <2>4. Exchanged(accepted, c) BY <1>1, <2>1, <2>2, <2>3, ExchangeOne
  <2>5. Len(conn') = Len(conn) /\ Len(conn) \in Nat
        /\ \A k \in 1 .. Len(conn) : conn'[k].head = conn[k].head /\ conn'[k].tail = conn[k].tail
    BY <1>1, <2>2, <2>4, ConnFacts, ConnElement DEF Exchanged, Cur
  <2>6. UNCHANGED <<written, up, accepted, db, wsn, off, spc>> BY <1>6 DEF ReadError, bridge, server
  <2>7. \A m : m \in UnreadSets' <=> m \in UnreadSets BY <1>1, <2>5, UnreadAre
  <2>8. up' => Link'.tail = written'
    <3>1. Len(conn) \in 1 .. Len(conn) BY <2>1, <2>5
    <3>2. Link' = conn'[Len(conn)] /\ Link = conn[Len(conn)] BY <2>5 DEF Link
    <3> QED BY <2>5, <2>6, <3>1, <3>2 DEF Chain
  <2>9. InHand' = InHand BY <2>6 DEF InHand
  <2> QED BY <2>1, <2>5, <2>6, <2>7, <2>8, <2>9 DEF Chain, Unread
<1>7. CASE PrepFile
  <2>1. UNCHANGED <<bridge, conn, off, wsn, db, accepted>> /\ spc = "file" /\ spc' = "insert"
    BY <1>7 DEF PrepFile, At
  <2>2. InHand' = InHand BY <2>1 DEF InHand
  <2>3. spc' # "dead" /\ spc' # "accept" /\ accepted <= accepted' /\ accepted' <= accepted + 1
        /\ accepted' \in Nat /\ accepted' = accepted
    BY <1>2, <2>1
  <2> QED BY <1>1, <1>2, <2>1, <2>2, <2>3, InsideSettles
<1>8. CASE Insert BY <1>8, InsertSettles
<1> QED BY <1>3, <1>4, <1>5, <1>6, <1>7, <1>8 DEF Server

LEMMA EnvironmentSettles ==
  ASSUME IInv, TypeOK', Chain, Environment, ~faulty'
  PROVE  Chain'
<1>1. TypeOK /\ (up => Link \in Conn) BY LinkExists DEF IInv
<1>2. CASE Connect BY <1>2, ConnectSettles
<1>3. CASE Write BY <1>3, WriteSettles
<1>4. CASE BridgeEnds
  <2> DEFINE c == [Link EXCEPT !.end = IF @ \in {"open", "half"} THEN "fin" ELSE @]
  <2>1. up /\ up' = FALSE /\ SetLink(c) /\ UNCHANGED <<server, written>> BY <1>4 DEF BridgeEnds
  <2>2. c \in Conn /\ c.head = Link.head /\ c.tail = Link.tail /\ (Link.end = "fin" => c.end = "fin")
    BY <1>1, <2>1 DEF Conn, Ends
  <2> HIDE DEF c
  <2> QED BY <2>1, <2>2, LinkSettles
<1>5. ~WriteLost /\ \A end \in {"reset", "silent"} : ~Cut(end)
  BY DEF WriteLost, Cut
<1> QED BY <1>2, <1>3, <1>4, <1>5 DEF Environment

\* The database holds the first data sets written, the one in hand is the next
\* and the rest are still to be read, as long as no two were read at once and
\* neither the network nor an insert has failed.
THEOREM NothingIsSkipped == Spec => []NothingSkipped
<1>1. Init => Sound
  <2> SUFFICES ASSUME Init PROVE Chain BY DEF Sound
  <2>1. /\ conn = <<>> /\ Len(conn) = 0 /\ db = <<>> /\ Len(db) = 0
        /\ off = 0 /\ spc = "accept" /\ written = 0 /\ up = FALSE
    BY EmptySeq DEF Init
  <2>2. TypeOK BY TypeOfInit
  <2>3. \A m : m \notin UnreadSets BY <2>1, <2>2, UnreadAre
  <2>4. InHand = 0 BY <2>1 DEF InHand
  <2> QED BY <2>1, <2>3, <2>4 DEF Chain, Settled
<1>2. IInv /\ IInv' /\ Sound /\ [Next]_vars => Sound'
  <2> SUFFICES ASSUME IInv, IInv', Sound, [Next]_vars, ~faulty', crowd' <= 1 PROVE Chain'
    BY DEF Sound
  <2>1. TypeOK /\ TypeOK' BY DEF IInv
  <2>2. ~faulty
    BY DEF Next, Environment, Server, Connect, Write, WriteLost, BridgeEnds, Cut, Accept, Read, ReadEnd,
           ReadError, PrepFile, Insert, vars, bridge, server
  <2>3. crowd <= 1
    <3>1. crowd' = crowd \/ Read
      BY DEF Next, Environment, Server, Connect, Write, WriteLost, BridgeEnds, Cut, Accept, ReadEnd,
             ReadError, PrepFile, Insert, vars, bridge, server
    <3>2. Read => crowd <= crowd'
      <4>1. Read => crowd' = Most(crowd, Unread(Cur)) /\ Unread(Cur) \in Nat
        BY <2>1, ReadFacts DEF Read
      <4>2. crowd \in Nat BY <2>1 DEF TypeOK
      <4> QED BY <4>1, <4>2 DEF Most
    <3>3. crowd \in Nat /\ crowd' \in Nat BY <2>1 DEF TypeOK
    <3> QED BY <3>1, <3>2, <3>3
  <2>4. Chain BY <2>2, <2>3 DEF Sound
  <2>5. CASE UNCHANGED vars
    BY <2>4, <2>5 DEF Chain, UnreadSets, InHand, Settled, Unread, Link, vars, bridge, server
  <2> QED BY <2>1, <2>4, <2>5, EnvironmentSettles, ServerSettles DEF Next
<1>3. IInv /\ Sound => NothingSkipped
  <2> SUFFICES ASSUME IInv, Chain
               PROVE  /\ \A k \in 1 .. Len(db) : db[k] = k
                      /\ InHand = 1 => wsn = Len(db) + 1
                      /\ UnreadSets = Len(db) + InHand + 1 .. written
    BY DEF Sound, NothingSkipped
  <2> DEFINE a == Len(db) + InHand
  <2>1. TypeOK BY DEF IInv
  <2>2. a \in Int /\ written \in Int
    BY <2>1, InHandIs, LenProperties DEF TypeOK
  <2>3. \A m \in Int : m \in UnreadSets <=> a + 1 <= m /\ m <= written BY DEF Chain
  <2> HIDE DEF a
  <2>4. \A m \in UnreadSets : m \in Int
    <3>1. Len(conn) \in Nat /\ \A k \in 1 .. Len(conn) : conn[k].head \in Nat /\ conn[k].tail \in Nat
      BY <2>1, ConnFacts, ConnElement
    <3> QED BY <2>1, <3>1, UnreadAre
  <2>5. UnreadSets = a + 1 .. written
    <3> DEFINE rest == a + 1 .. written
    <3>1. \A m : m \in rest <=> m \in Int /\ a + 1 <= m /\ m <= written BY <2>2
    <3>2. \A m : m \in UnreadSets <=> m \in rest BY <2>3, <2>4, <3>1
    <3> HIDE DEF rest
    <3>3. UnreadSets = rest
      <4> DEFINE s == UnreadSets
      <4>1. \A m : m \in s <=> m \in rest BY <3>2
      <4> HIDE DEF s
      <4>2. s = rest BY <4>1
      <4> QED BY <4>2 DEF s
    <3> QED BY <3>3 DEF rest
  <2> QED BY <2>5 DEF Chain, a
<1> QED BY <1>1, <1>2, <1>3, InvariantKept, PTL DEF Spec
=============================================================================
