--------------------------- MODULE GpsClientProof ---------------------------
(* Proofs about GpsClient, for any sizes of the buffer and the sockets and   *)
(* any lines that fit the buffer.                                            *)
EXTENDS GpsClient, SequenceTheorems, WellFoundedInduction, TLAPS

-----------------------------------------------------------------------------
(* A sequence of sequences put together, and one more of them.               *)

\* What holds of all smaller numbers and so of the next holds of all numbers:
\* else there is a least one of which it does not.
LEMMA Least ==
  ASSUME NEW S \in SUBSET Nat, S # {}
  PROVE  \E x \in S : \A y \in S : x <= y
<1>1. PICK x \in S : \A y \in S : ~ (<<y, x>> \in OpToRel(<, Nat))
  BY NatLessThanWellFounded, WFMin
<1>2. OpToRel(<, Nat) = { ss \in Nat \X Nat : ss[1] < ss[2] }
  BY Zenon DEF OpToRel
<1>3. \A y \in S : x <= y
  <2> SUFFICES ASSUME NEW y \in S, y < x
               PROVE  FALSE
    OBVIOUS
  <2>1. <<y, x>> \in Nat \X Nat /\ <<y, x>>[1] = y /\ <<y, x>>[2] = x
    OBVIOUS
  <2>2. <<y, x>> \in { ss \in Nat \X Nat : ss[1] < ss[2] }
    BY <2>1
  <2> QED
    BY <1>1, <1>2, <2>2, Zenon
<1> QED
  BY <1>3

\* g[i] is the first i sequences of s put together, for i up to n.
Joins(g, s, n) == g = [i \in 1 .. n |-> IF i = 1 THEN s[i] ELSE g[i - 1] \o s[i]]

LEMMA JoinsExist ==
  ASSUME NEW s, NEW n \in Nat
  PROVE  \E g : Joins(g, s, n)
<1> DEFINE Bad == {m \in Nat : ~ \E g : Joins(g, s, m)}
<1>1. SUFFICES Bad = {}
  OBVIOUS
<1>2. SUFFICES ASSUME Bad # {}
               PROVE  FALSE
  OBVIOUS
<1>3. PICK m \in Bad : \A k \in Bad : m <= k
  <2>1. Bad \in SUBSET Nat
    OBVIOUS
  <2> HIDE DEF Bad
  <2> QED
    BY <1>2, <2>1, Least
<1>4. m # 0
  <2>1. Joins([i \in 1 .. 0 |-> s[i]], s, 0)
    BY DEF Joins
  <2> QED
    BY <2>1
<1>5. m - 1 \in Nat /\ m - 1 \notin Bad
  BY <1>3, <1>4
<1>6. PICK g : Joins(g, s, m - 1)
  BY <1>5
<1> DEFINE h == [i \in 1 .. m |-> IF i < m THEN g[i] ELSE IF m = 1 THEN s[m] ELSE g[m - 1] \o s[m]]
<1>7. Joins(h, s, m)
  <2>1. \A i \in 1 .. m - 1 : g[i] = IF i = 1 THEN s[i] ELSE g[i - 1] \o s[i]
    BY <1>6, Zenon DEF Joins
  <2>2. ASSUME NEW i \in 1 .. m
        PROVE  h[i] = IF i = 1 THEN s[i] ELSE h[i - 1] \o s[i]
    <3>1. CASE i = m
      BY <1>5, <3>1
    <3>2. CASE i < m
      <4>1. i \in 1 .. m - 1 /\ h[i] = g[i]
        BY <1>5, <3>2
      <4>2. i # 1 => h[i - 1] = g[i - 1]
        BY <1>5, <3>2
      <4> QED
        BY <2>1, <4>1, <4>2
    <3> QED
      BY <1>5, <3>1, <3>2
  <2> QED
    BY <2>2 DEF Joins
<1> QED
  BY <1>7

LEMMA JoinsAt ==
  ASSUME NEW g, NEW s, NEW n \in Nat, Joins(g, s, n), NEW i \in 1 .. n
  PROVE  g[i] = IF i = 1 THEN s[i] ELSE g[i - 1] \o s[i]
BY Zenon DEF Joins

\* The first i sequences do not depend on those behind them.
LEMMA JoinsAgree ==
  ASSUME NEW g, NEW h, NEW s, NEW t, NEW n \in Nat, NEW m \in Nat, n <= m,
         Joins(g, s, n), Joins(h, t, m), \A i \in 1 .. n : t[i] = s[i]
  PROVE  \A i \in 1 .. n : g[i] = h[i]
<1> DEFINE Bad == {i \in 1 .. n : g[i] # h[i]}
<1>1. SUFFICES ASSUME Bad # {}
               PROVE  FALSE
  OBVIOUS
<1>2. PICK i \in Bad : \A k \in Bad : i <= k
  <2>1. Bad \in SUBSET Nat
    OBVIOUS
  <2> HIDE DEF Bad
  <2> QED
    BY <1>1, <2>1, Least
<1>3. i \in 1 .. n /\ i \in 1 .. m /\ g[i] # h[i]
  OBVIOUS
<1>4. g[i] = IF i = 1 THEN s[i] ELSE g[i - 1] \o s[i]
  BY <1>3, JoinsAt
<1>5. h[i] = IF i = 1 THEN t[i] ELSE h[i - 1] \o t[i]
  BY <1>3, JoinsAt
<1>6. i # 1 => g[i - 1] = h[i - 1]
  BY <1>2, <1>3
<1> QED
  BY <1>3, <1>4, <1>5, <1>6

LEMMA JoinsType ==
  ASSUME NEW T, NEW s \in Seq(Seq(T)), NEW g, NEW n \in Nat, n <= Len(s), Joins(g, s, n)
  PROVE  \A i \in 1 .. n : g[i] \in Seq(T)
<1> DEFINE Bad == {i \in 1 .. n : g[i] \notin Seq(T)}
<1>1. SUFFICES ASSUME Bad # {}
               PROVE  FALSE
  OBVIOUS
<1>2. PICK i \in Bad : \A k \in Bad : i <= k
  <2>1. Bad \in SUBSET Nat
    OBVIOUS
  <2> HIDE DEF Bad
  <2> QED
    BY <1>1, <2>1, Least
<1>3. i \in 1 .. n /\ g[i] \notin Seq(T) /\ s[i] \in Seq(T)
  OBVIOUS
<1>4. g[i] = IF i = 1 THEN s[i] ELSE g[i - 1] \o s[i]
  BY <1>3, JoinsAt
<1>5. i # 1 => g[i - 1] \in Seq(T)
  BY <1>2, <1>3
<1>6. i # 1 => g[i - 1] \o s[i] \in Seq(T)
  BY <1>3, <1>5
<1> QED
  BY <1>3, <1>4, <1>6

LEMMA FlattenIs ==
  ASSUME NEW T, NEW s \in Seq(T), s # <<>>
  PROVE  \E g : Joins(g, s, Len(s)) /\ FlattenSeq(s) = g[Len(s)]
<1> DEFINE g == CHOOSE f : f = [i \in 1 .. Len(s) |-> IF i = 1 THEN s[i] ELSE f[i - 1] \o s[i]]
<1>1. FlattenSeq(s) = IF Len(s) = 0 THEN s ELSE g[Len(s)]
  BY Zenon DEF FlattenSeq
<1>2. Len(s) \in Nat /\ Len(s) # 0
  OBVIOUS
<1>3. Joins(g, s, Len(s))
  <2>1. \E f : Joins(f, s, Len(s))
    BY <1>2, JoinsExist
  <2> QED
    BY <2>1, Zenon DEF Joins
<1> QED
  BY <1>1, <1>2, <1>3

LEMMA FlattenEmpty ==
  FlattenSeq(<<>>) = <<>>
BY DEF FlattenSeq

LEMMA FlattenType ==
  ASSUME NEW T, NEW s \in Seq(Seq(T))
  PROVE  FlattenSeq(s) \in Seq(T)
<1>1. CASE s = <<>>
  <2>1. FlattenSeq(s) = <<>>
    BY <1>1, FlattenEmpty, Zenon
  <2> QED
    BY <2>1
<1>2. CASE s # <<>>
  <2>1. PICK g : Joins(g, s, Len(s)) /\ FlattenSeq(s) = g[Len(s)]
    BY <1>2, FlattenIs
  <2>2. Len(s) \in Nat /\ Len(s) \in 1 .. Len(s)
    BY <1>2
  <2>3. \A i \in 1 .. Len(s) : g[i] \in Seq(T)
    <3>1. Len(s) <= Len(s)
      BY <2>2
    <3> QED
      BY <2>1, <2>2, <3>1, JoinsType, Zenon
  <2> QED
    BY <2>1, <2>2, <2>3
<1> QED
  BY <1>1, <1>2

LEMMA FlattenAppend ==
  ASSUME NEW T, NEW s \in Seq(Seq(T)), NEW e \in Seq(T)
  PROVE  FlattenSeq(Append(s, e)) = FlattenSeq(s) \o e
<1> DEFINE t == Append(s, e)
           n == Len(s)
<1>1. /\ t \in Seq(Seq(T)) /\ Len(t) = n + 1 /\ t # <<>> /\ n \in Nat
      /\ t[n + 1] = e /\ \A i \in 1 .. n : t[i] = s[i]
  <2>1. /\ t \in Seq(Seq(T)) /\ Len(t) = n + 1 /\ n \in Nat
        /\ t[n + 1] = e /\ \A i \in 1 .. n : t[i] = s[i]
    BY AppendProperties
  <2> HIDE DEF t
  <2>2. t # <<>>
    BY <2>1
  <2> QED
    BY <2>1, <2>2
<1> HIDE DEF t
<1>2. PICK h : Joins(h, t, n + 1) /\ FlattenSeq(t) = h[n + 1]
  BY <1>1, FlattenIs
<1>3. h[n + 1] = IF n + 1 = 1 THEN t[n + 1] ELSE h[n + 1 - 1] \o t[n + 1]
  BY <1>1, <1>2, JoinsAt
<1>4. CASE s = <<>>
  BY <1>1, <1>2, <1>3, <1>4, FlattenEmpty DEF t
<1>5. CASE s # <<>>
  <2>1. PICK g : Joins(g, s, n) /\ FlattenSeq(s) = g[n]
    BY <1>5, FlattenIs
  <2>2. \A i \in 1 .. n : g[i] = h[i]
    <3>1. n \in Nat /\ n + 1 \in Nat /\ n <= n + 1 /\ \A i \in 1 .. n : t[i] = s[i]
      BY <1>1
    <3>2. Joins(g, s, n) /\ Joins(h, t, n + 1)
      BY <1>2, <2>1
    <3> HIDE DEF n
    <3> QED
      BY <3>1, <3>2, JoinsAgree
  <2>3. n # 0 /\ n + 1 - 1 = n /\ n \in 1 .. n
    BY <1>1, <1>5
  <2>4. h[n + 1] = h[n] \o e
    BY <1>1, <1>3, <2>3
  <2> QED
    BY <1>2, <2>1, <2>2, <2>3, <2>4 DEF t
<1> QED
  BY <1>4, <1>5

-----------------------------------------------------------------------------
(* Bytes and lines.                                                         *)

LEMMA SizesAre ==
  /\ BufSize \in Nat /\ SockBuf \in Nat /\ MaxLine \in Nat
  /\ \A n \in Lengths : n \in Nat /\ n # 0 /\ n < BufSize
  /\ Lengths \subseteq Nat
BY LinesFit, SizesAreNat

LEMMA BytesAre ==
  ASSUME NEW l \in 0 .. MaxLine, NEW j \in Nat
  PROVE  /\ <<l, j>> \in Byte /\ <<l, j>>[1] = l /\ <<l, j>>[2] = j
         /\ Newline(<<l, j>>) <=> j = 0
BY DEF Byte, Newline

LEMMA ByteParts ==
  ASSUME NEW b \in Byte
  PROVE  b = <<b[1], b[2]>> /\ b[1] \in 0 .. MaxLine /\ b[2] \in Nat
BY DEF Byte

LEMMA LineIs ==
  ASSUME NEW l \in 0 .. MaxLine, NEW n \in Nat
  PROVE  /\ Text(l, n) \in Seq(Byte) /\ Len(Text(l, n)) = n
         /\ Line(l, n) \in Seq(Byte) /\ Len(Line(l, n)) = n + 1
         /\ \A j \in 1 .. n : Line(l, n)[j] = <<l, j>>
         /\ Line(l, n)[n + 1] = <<l, 0>>
<1>1. Text(l, n) \in Seq(Byte) /\ Len(Text(l, n)) = n /\ \A j \in 1 .. n : Text(l, n)[j] = <<l, j>>
  <2>1. \A j \in 1 .. n : <<l, j>> \in Byte
    BY BytesAre
  <2> QED
    BY <2>1 DEF Text
<1>2. <<l, 0>> \in Byte
  BY BytesAre
<1> HIDE DEF Text
<1> QED
  BY <1>1, <1>2, AppendProperties DEF Line

-----------------------------------------------------------------------------
(* Types.                                                                   *)

\* The first newline, if the scan of the buffer finds one.
LEMMA FirstStop ==
  ASSUME TypeOK, HasLine(buffer, waiting)
  PROVE  LET eol == CHOOSE k \in ScanStops(buffer, waiting) :
                      \A j \in ScanStops(buffer, waiting) : k <= j
         IN  /\ eol \in 0 .. waiting /\ eol < BufSize /\ Newline(buffer[eol])
             /\ \A j \in 0 .. eol - 1 : ~ Newline(buffer[j])
<1> DEFINE S   == ScanStops(buffer, waiting)
           eol == CHOOSE k \in S : \A j \in S : k <= j
<1>1. S \in SUBSET Nat /\ S # {}
  BY DEF HasLine, ScanStops, TypeOK
<1>2. eol \in S /\ \A j \in S : eol <= j
  <2> HIDE DEF S
  <2>1. \E k \in S : \A j \in S : k <= j
    BY <1>1, Least
  <2> QED
    BY <2>1
<1> HIDE DEF eol
<1>3. eol \in 0 .. waiting /\ eol < BufSize /\ Newline(buffer[eol])
  BY <1>2 DEF ScanStops
<1>4. ASSUME NEW j \in 0 .. eol - 1
      PROVE  ~ Newline(buffer[j])
  <2>1. j \in 0 .. waiting /\ j < BufSize /\ ~ (eol <= j)
    BY <1>3, SizesAre DEF TypeOK
  <2> QED
    BY <1>2, <2>1 DEF ScanStops
<1> QED
  BY <1>3, <1>4, Zenon DEF eol

LEMMA TypeInit ==
  Init => TypeOK
<1> SUFFICES ASSUME Init
             PROVE  TypeOK
  OBVIOUS
<1>1. Nul \in Byte /\ <<0, 0>> \in Byte
  BY SizesAre DEF Nul, Byte
<1>2. buffer \in [0 .. BufSize - 1 -> Byte]
  BY <1>1 DEF Init
<1>3. logged = <<>> /\ stream = <<>> /\ wrote = <<>>
  BY DEF Init
<1>4. logged \in Seq(Seq(Byte)) /\ stream \in Seq(Byte) /\ Len(stream) = 0 /\ wrote \in Seq(Lengths)
  BY <1>3
<1>5. /\ pc = "open" /\ waiting = 0 /\ ragged = FALSE /\ link = "none" /\ cut = 0
      /\ 0 \in 0 .. BufSize /\ 0 <= SockBuf
  BY SizesAre DEF Init
<1> QED
  BY <1>2, <1>4, <1>5 DEF TypeOK

LEMMA WriteLineTypes ==
  ASSUME TypeOK, NEW n \in Lengths, WriteLine(n)
  PROVE  TypeOK'
<1>1. n \in Nat /\ Len(wrote) + 1 \in 0 .. MaxLine /\ Len(stream) \in Nat
  <2>1. Len(wrote) \in Nat /\ Len(stream) \in Nat /\ Len(wrote) < MaxLine
    BY DEF TypeOK, WriteLine
  <2> QED
    BY <2>1, SizesAre
<1>2. Line(Len(wrote) + 1, n) \in Seq(Byte) /\ Len(Line(Len(wrote) + 1, n)) = n + 1
  BY <1>1, LineIs
<1>3. stream' \in Seq(Byte) /\ Len(stream') = Len(stream) + (n + 1)
  <2>1. stream \in Seq(Byte) /\ stream' = stream \o Line(Len(wrote) + 1, n)
    BY Zenon DEF WriteLine, TypeOK
  <2> DEFINE line == Line(Len(wrote) + 1, n)
  <2>2. stream \in Seq(Byte) /\ line \in Seq(Byte) /\ Len(line) = n + 1 /\ stream' = stream \o line
    BY <1>2, <2>1
  <2> HIDE DEF line
  <2>3. stream \o line \in Seq(Byte) /\ Len(stream \o line) = Len(stream) + Len(line)
    BY <2>2, ConcatProperties
  <2> QED
    BY <2>2, <2>3
<1>4. Len(stream') <= SockBuf
  BY <1>1, <1>3, SizesAre DEF WriteLine, Room
<1>5. wrote' \in Seq(Lengths)
  BY DEF WriteLine, TypeOK
<1> QED
  BY <1>3, <1>4, <1>5 DEF WriteLine, TypeOK, client

LEMMA WritePartTypes ==
  ASSUME TypeOK, NEW n \in Lengths, WritePart(n)
  PROVE  TypeOK'
<1> DEFINE part == SubSeq(Line(Len(wrote) + 1, n), 1, Room)
<1>1. /\ n \in Nat /\ Len(wrote) + 1 \in 0 .. MaxLine /\ Len(stream) \in Nat
      /\ Room \in Nat /\ 0 < Room /\ Room <= n
  BY SizesAre DEF TypeOK, WritePart, Room
<1>2. Line(Len(wrote) + 1, n) \in Seq(Byte) /\ Len(Line(Len(wrote) + 1, n)) = n + 1
  BY <1>1, LineIs
<1>3. part \in Seq(Byte) /\ Len(part) = Room
  BY <1>1, <1>2
<1>4. stream' = stream \o part
  BY DEF WritePart
<1> HIDE DEF part
<1>5. stream' \in Seq(Byte) /\ Len(stream') = Len(stream) + Room
  BY <1>3, <1>4, ConcatProperties, Zenon DEF TypeOK
<1>6. Len(stream') <= SockBuf
  BY <1>1, <1>5, SizesAre DEF Room
<1> QED
  BY <1>1, <1>5, <1>6 DEF WritePart, TypeOK, client

\* What is left when a line is taken out: eol is where its newline was.
LEMMA ReadLineIs ==
  ASSUME TypeOK, ReadLine
  PROVE  \E eol \in 0 .. waiting :
           /\ pc = "read" /\ eol < BufSize /\ Newline(buffer[eol])
           /\ \A j \in 0 .. eol - 1 : ~ Newline(buffer[j])
           /\ UNCHANGED <<ragged, link, stream, wrote, cut>>
           /\ \/ /\ eol = waiting /\ pc' = "crashed"
                 /\ UNCHANGED <<buffer, waiting, logged>>
              \/ /\ eol < waiting /\ pc' = "wait"
                 /\ [j \in 1 .. eol |-> buffer[j - 1]] \in Seq(Byte)
                 /\ logged' = Append(logged, [j \in 1 .. eol |-> buffer[j - 1]])
                 /\ buffer' \in [0 .. BufSize - 1 -> Byte]
                 /\ \A k \in 0 .. BufSize - 1 :
                      buffer'[k] = IF k < waiting - (eol + 1) THEN buffer[k + (eol + 1)]
                                   ELSE IF k = eol THEN Nul ELSE buffer[k]
                 /\ waiting' = waiting - (eol + 1) /\ waiting' \in 0 .. BufSize
<1> DEFINE eol  == CHOOSE k \in ScanStops(buffer, waiting) :
                     \A j \in ScanStops(buffer, waiting) : k <= j
           text == [j \in 1 .. eol |-> buffer[j - 1]]
<1>1. /\ eol \in 0 .. waiting /\ eol < BufSize /\ Newline(buffer[eol])
      /\ \A j \in 0 .. eol - 1 : ~ Newline(buffer[j])
  BY FirstStop, Zenon DEF ReadLine
<1>2. /\ IF eol = waiting
         THEN /\ pc' = "crashed"
              /\ UNCHANGED <<buffer, waiting, logged>>
         ELSE /\ logged' = Append(logged, text)
              /\ buffer' = Remainder(eol + 1)
              /\ waiting' = waiting - (eol + 1)
              /\ pc' = "wait"
      /\ UNCHANGED <<ragged, link, stream, wrote, cut>> /\ pc = "read"
  BY Zenon DEF ReadLine, daemon, At
<1> HIDE DEF eol
<1>3. CASE eol = waiting
  BY <1>1, <1>2, <1>3
<1>4. CASE eol # waiting
  <2>1. text \in Seq(Byte)
    <3>1. \A j \in 1 .. eol : buffer[j - 1] \in Byte
      BY <1>1, SizesAre DEF TypeOK
    <3> QED
      BY <1>1, <3>1
  <2>2. eol < waiting /\ waiting - (eol + 1) \in 0 .. BufSize
    BY <1>1, <1>4, SizesAre DEF TypeOK
  <2>3. buffer' = Remainder(eol + 1)
    BY <1>2, <1>4
  <2>4. ASSUME NEW k \in 0 .. BufSize - 1
        PROVE  /\ buffer'[k] = IF k < waiting - (eol + 1) THEN buffer[k + (eol + 1)]
                               ELSE IF k = eol THEN Nul ELSE buffer[k]
               /\ buffer'[k] \in Byte
    <3>1. k < waiting - (eol + 1) => k + (eol + 1) \in 0 .. BufSize - 1
      BY <1>1, SizesAre DEF TypeOK
    <3>2. Nul \in Byte
      BY SizesAre DEF Nul, Byte
    <3>3. (eol + 1) - 1 = eol
      BY <1>1
    <3>4. buffer'[k] = IF k < waiting - (eol + 1) THEN buffer[k + (eol + 1)]
                       ELSE IF k = (eol + 1) - 1 THEN Nul ELSE buffer[k]
      <4>1. Remainder(eol + 1)[k] = IF k < waiting - (eol + 1) THEN buffer[k + (eol + 1)]
                                    ELSE IF k = (eol + 1) - 1 THEN Nul ELSE buffer[k]
        BY Zenon DEF Remainder
      <4> QED
        BY <2>3, <4>1, Zenon
    <3>5. buffer \in [0 .. BufSize - 1 -> Byte]
      BY DEF TypeOK
    <3> QED
      BY <3>1, <3>2, <3>3, <3>4, <3>5
  <2>5. buffer' \in [0 .. BufSize - 1 -> Byte]
    <3>1. buffer' = [k \in 0 .. BufSize - 1 |-> buffer'[k]]
      BY <2>3 DEF Remainder
    <3> QED
      BY <2>4, <3>1
  <2> HIDE DEF text
  <2> QED
    BY <1>1, <1>2, <1>4, <2>1, <2>2, <2>4, <2>5, Zenon DEF text
<1> QED
  BY <1>3, <1>4

LEMMA ReadLineTypes ==
  ASSUME TypeOK, ReadLine
  PROVE  TypeOK'
<1>1. PICK eol \in 0 .. waiting :
        /\ UNCHANGED <<ragged, link, stream, wrote, cut>>
        /\ \/ /\ pc' = "crashed"
              /\ UNCHANGED <<buffer, waiting, logged>>
           \/ /\ pc' = "wait"
              /\ [j \in 1 .. eol |-> buffer[j - 1]] \in Seq(Byte)
              /\ logged' = Append(logged, [j \in 1 .. eol |-> buffer[j - 1]])
              /\ buffer' \in [0 .. BufSize - 1 -> Byte]
              /\ waiting' \in 0 .. BufSize
  BY ReadLineIs, Zenon
<1> DEFINE text == [j \in 1 .. eol |-> buffer[j - 1]]
<1>2. \/ logged' = logged
      \/ logged' = Append(logged, text) /\ text \in Seq(Byte)
  BY <1>1
<1> HIDE DEF text
<1>3. logged' \in Seq(Seq(Byte))
  <2>1. logged \in Seq(Seq(Byte))
    BY DEF TypeOK
  <2>2. CASE logged' = logged
    BY <2>1, <2>2
  <2>3. CASE logged' = Append(logged, text) /\ text \in Seq(Byte)
    BY <2>1, <2>3
  <2> QED
    BY <1>2, <2>2, <2>3
<1> QED
  BY <1>1, <1>3 DEF TypeOK

\* What a recv of n bytes leaves.
LEMMA RecvIs ==
  ASSUME TypeOK, Recv
  PROVE  \E n \in 1 .. BufSize - waiting :
           /\ n <= Len(stream) /\ Len(stream) \in Nat
           /\ buffer' \in [0 .. BufSize - 1 -> Byte]
           /\ \A k \in 0 .. BufSize - 1 :
                buffer'[k] = IF waiting <= k /\ k < waiting + n THEN stream[k - waiting + 1] ELSE buffer[k]
           /\ waiting' = waiting + n /\ waiting' \in 0 .. BufSize
           /\ stream' \in Seq(Byte) /\ Len(stream') = Len(stream) - n
           /\ \A k \in 1 .. Len(stream) - n : stream'[k] = stream[k + n]
           /\ ragged' = (ragged \/ (~ Newline(stream[n]) /\ waiting + n < BufSize))
           /\ pc' \in {"read", "wait"} /\ pc = "read"
           /\ UNCHANGED <<logged, link, wrote, cut>>
<1>1. PICK n \in 1 .. BufSize - waiting :
       /\ n <= Len(stream)
       /\ buffer' = [k \in 0 .. BufSize - 1 |->
                       IF waiting <= k /\ k < waiting + n THEN stream[k - waiting + 1] ELSE buffer[k]]
       /\ waiting' = waiting + n
       /\ stream' = SubSeq(stream, n + 1, Len(stream))
       /\ ragged' = (ragged \/ (~ Newline(stream[n]) /\ waiting + n < BufSize))
       /\ pc' = IF HasLine(buffer', waiting') THEN "read" ELSE "wait"
  BY Zenon DEF Recv
<1>2. n \in Nat /\ Len(stream) \in Nat /\ waiting \in Nat /\ waiting + n <= BufSize
  BY <1>1, SizesAre DEF TypeOK
<1>3. buffer' \in [0 .. BufSize - 1 -> Byte]
  <2>1. ASSUME NEW k \in 0 .. BufSize - 1
        PROVE  (IF waiting <= k /\ k < waiting + n THEN stream[k - waiting + 1] ELSE buffer[k]) \in Byte
    <3>1. CASE waiting <= k /\ k < waiting + n
      <4>1. k - waiting + 1 \in 1 .. Len(stream)
        BY <1>1, <1>2, <3>1, SizesAre
      <4> QED
        BY <3>1, <4>1 DEF TypeOK
    <3>2. CASE ~ (waiting <= k /\ k < waiting + n)
      BY <3>2 DEF TypeOK
    <3> QED
      BY <3>1, <3>2
  <2> QED
    BY <1>1, <2>1
<1>4. /\ stream' \in Seq(Byte) /\ Len(stream') = Len(stream) - n
      /\ \A k \in 1 .. Len(stream) - n : stream'[k] = stream[k + n]
  <2>1. stream \in Seq(Byte)
    BY DEF TypeOK
  <2>2. /\ stream' \in Seq(Byte) /\ Len(stream') = Len(stream) - n
        /\ \A k \in 1 .. Len(stream) - n : stream'[k] = stream[(n + 1) + k - 1]
    BY <1>1, <1>2, <2>1
  <2>3. \A k \in 1 .. Len(stream) - n : (n + 1) + k - 1 = k + n
    BY <1>2
  <2> QED
    BY <2>2, <2>3, Zenon
<1>5. waiting' \in 0 .. BufSize /\ pc' \in {"read", "wait"}
  BY <1>1, <1>2, SizesAre
<1>6. pc = "read" /\ UNCHANGED <<logged, link, wrote, cut>>
  BY DEF Recv, Receiving, At, daemon
<1> QED
  BY <1>1, <1>2, <1>3, <1>4, <1>5, <1>6

LEMMA RecvTypes ==
  ASSUME TypeOK, Recv
  PROVE  TypeOK'
<1>1. PICK n \in 1 .. BufSize - waiting :
        /\ n <= Len(stream) /\ Len(stream) \in Nat
        /\ buffer' \in [0 .. BufSize - 1 -> Byte] /\ waiting' \in 0 .. BufSize
        /\ stream' \in Seq(Byte) /\ Len(stream') = Len(stream) - n
        /\ ragged' = (ragged \/ (~ Newline(stream[n]) /\ waiting + n < BufSize))
        /\ pc' \in {"read", "wait"}
        /\ UNCHANGED <<logged, link, wrote, cut>>
  BY RecvIs, Zenon
<1>2. Len(stream') <= SockBuf
  BY <1>1, SizesAre DEF TypeOK
<1>3. ragged' \in BOOLEAN
  BY <1>1
<1> QED
  BY <1>1, <1>2, <1>3 DEF TypeOK

LEMMA TypeNext ==
  TypeOK /\ [Next]_vars => TypeOK'
<1> SUFFICES ASSUME TypeOK, [Next]_vars
             PROVE  TypeOK'
  OBVIOUS
<1>1. ASSUME NEW n \in Lengths, WriteLine(n)
      PROVE  TypeOK'
  BY <1>1, WriteLineTypes
<1>2. ASSUME NEW n \in Lengths, WritePart(n)
      PROVE  TypeOK'
  BY <1>2, WritePartTypes
<1>3. ASSUME NEW end \in {"fin", "reset"}, DaemonEnds(end)
      PROVE  TypeOK'
  BY <1>3 DEF DaemonEnds, TypeOK, client, daemon
<1>4. CASE Open
  BY <1>4 DEF Open, TypeOK, daemon
<1>5. CASE Wait
  BY <1>5 DEF Wait, TypeOK, daemon
<1>6. CASE ReadLine
  BY <1>6, ReadLineTypes
<1>7. CASE Recv
  BY <1>7, RecvTypes
<1>8. CASE RecvNothing
  BY <1>8 DEF RecvNothing, TypeOK, daemon
<1>9. CASE RecvEnd
  BY <1>9 DEF RecvEnd, TypeOK, daemon
<1>10. CASE Timeout
  BY <1>10 DEF Timeout, TypeOK, daemon
<1>11. CASE UNCHANGED vars
  BY <1>11 DEF vars, TypeOK, client, daemon
<1> QED
  BY <1>1, <1>2, <1>3, <1>4, <1>5, <1>6, <1>7, <1>8, <1>9, <1>10, <1>11, Zenon
     DEF Next, Daemon, Thread

\* The variables keep to their domains: waiting is never below zero or past the
\* buffer, and the sockets hold what they can.
THEOREM TypeCorrect == Spec => []TypeOK
BY TypeInit, TypeNext, PTL DEF Spec

-----------------------------------------------------------------------------
(* What lies behind the waiting bytes.                                      *)

\* Unless a recv has left off in a line, no newline lies just behind waiting
\* bytes that have none: a newline among them is found first, and when the last
\* line has been taken out there is a byte of it, its end or a byte of the
\* remainder at that place.
NoStaleNewline ==
  pc # "crashed" /\ ~ ragged =>
    \/ \E k \in 0 .. waiting - 1 : Newline(buffer[k])
    \/ waiting = BufSize
    \/ ~ Newline(buffer[waiting])
    \/ logged = <<>> /\ waiting = 0

Survival == TypeOK /\ NoStaleNewline /\ SurvivesWholeReads

LEMMA NulIs == ~ Newline(Nul)
BY DEF Nul, Newline

LEMMA ReadLineSurvives ==
  ASSUME Survival, ReadLine
  PROVE  NoStaleNewline' /\ SurvivesWholeReads'
<1>1. PICK eol \in 0 .. waiting :
        /\ pc = "read" /\ eol < BufSize /\ Newline(buffer[eol])
        /\ \A j \in 0 .. eol - 1 : ~ Newline(buffer[j])
        /\ ragged' = ragged
        /\ \/ /\ eol = waiting /\ pc' = "crashed"
              /\ UNCHANGED <<buffer, waiting, logged>>
           \/ /\ eol < waiting /\ pc' = "wait"
              /\ \A k \in 0 .. BufSize - 1 :
                   buffer'[k] = IF k < waiting - (eol + 1) THEN buffer[k + (eol + 1)]
                                ELSE IF k = eol THEN Nul ELSE buffer[k]
              /\ waiting' = waiting - (eol + 1)
  BY ReadLineIs, Zenon DEF Survival
<1>2. waiting \in Nat /\ waiting <= BufSize /\ BufSize \in Nat
  BY SizesAre DEF Survival, TypeOK
<1>3. CASE eol = waiting
  <2>1. pc' = "crashed" /\ UNCHANGED <<buffer, waiting, logged>>
    BY <1>1, <1>2, <1>3
  <2>2. ragged \/ (logged = <<>> /\ waiting = 0)
    BY <1>1, <1>2, <1>3 DEF Survival, NoStaleNewline
  <2> QED
    BY <1>1, <2>1, <2>2 DEF NoStaleNewline, SurvivesWholeReads
<1>4. CASE eol < waiting
  <2> DEFINE r == waiting - (eol + 1)
  <2>1. /\ pc' = "wait" /\ waiting' = r /\ r \in 0 .. BufSize - 1
        /\ \A k \in 0 .. BufSize - 1 :
             buffer'[k] = IF k < r THEN buffer[k + (eol + 1)] ELSE IF k = eol THEN Nul ELSE buffer[k]
    BY <1>1, <1>2, <1>4
  <2>2. ASSUME \A k \in 0 .. r - 1 : ~ Newline(buffer'[k])
        PROVE  ~ Newline(buffer'[r])
    <3>1. buffer'[r] = IF r = eol THEN Nul ELSE buffer[r]
      BY <2>1
    <3>2. CASE r = eol
      BY <3>1, <3>2, NulIs
    <3>3. CASE r < eol
      BY <1>1, <2>1, <3>1, <3>3
    <3>4. CASE r > eol
      <4>1. r - (eol + 1) \in 0 .. r - 1 /\ r - (eol + 1) \in 0 .. BufSize - 1
        BY <1>1, <1>2, <2>1, <3>4
      <4>2. buffer'[r - (eol + 1)] = buffer[r]
        BY <1>1, <2>1, <4>1
      <4> QED
        BY <2>2, <3>1, <3>4, <4>1, <4>2
    <3> QED
      BY <1>1, <2>1, <3>2, <3>3, <3>4
  <2> QED
    BY <2>1, <2>2 DEF NoStaleNewline, SurvivesWholeReads
<1> QED
  BY <1>1, <1>2, <1>3, <1>4

LEMMA RecvSurvives ==
  ASSUME Survival, Recv
  PROVE  NoStaleNewline' /\ SurvivesWholeReads'
<1>1. PICK n \in 1 .. BufSize - waiting :
        /\ \A k \in 0 .. BufSize - 1 :
             buffer'[k] = IF waiting <= k /\ k < waiting + n THEN stream[k - waiting + 1] ELSE buffer[k]
        /\ waiting' = waiting + n
        /\ ragged' = (ragged \/ (~ Newline(stream[n]) /\ waiting + n < BufSize))
        /\ pc' \in {"read", "wait"}
  BY RecvIs, Zenon DEF Survival
<1>2. waiting \in Nat /\ waiting + n <= BufSize /\ n \in Nat /\ n > 0 /\ BufSize \in Nat
  BY SizesAre DEF Survival, TypeOK
<1>3. ASSUME ~ ragged', waiting' # BufSize
      PROVE  \E k \in 0 .. waiting' - 1 : Newline(buffer'[k])
  <2>1. Newline(stream[n])
    <3>1. waiting + n < BufSize
      BY <1>1, <1>2, <1>3
    <3> QED
      BY <1>1, <1>3, <3>1, Zenon
  <2>2. waiting + n - 1 \in 0 .. BufSize - 1 /\ waiting + n - 1 \in 0 .. waiting' - 1
    BY <1>1, <1>2
  <2>3. buffer'[waiting + n - 1] = stream[n]
    <3>1. ASSUME NEW k \in 0 .. BufSize - 1, k = waiting + n - 1
          PROVE  buffer'[k] = stream[n]
      <4>1. waiting <= k /\ k < waiting + n /\ k - waiting + 1 = n
        BY <1>2, <3>1
      <4> QED
        BY <1>1, <4>1
    <3> QED
      BY <2>2, <3>1
  <2> QED
    BY <2>1, <2>2, <2>3
<1> QED
  BY <1>1, <1>3 DEF NoStaleNewline, SurvivesWholeReads

LEMMA SurvivalInit ==
  Init => Survival
BY TypeInit DEF Init, Survival, NoStaleNewline, SurvivesWholeReads

LEMMA SurvivalNext ==
  Survival /\ [Next]_vars => Survival'
<1> SUFFICES ASSUME Survival, [Next]_vars
             PROVE  Survival'
  OBVIOUS
<1>1. TypeOK'
  BY TypeNext DEF Survival
<1> SUFFICES NoStaleNewline' /\ SurvivesWholeReads'
  BY <1>1 DEF Survival
<1> USE DEF Survival, NoStaleNewline, SurvivesWholeReads
<1>2. CASE UNCHANGED client
  BY <1>2 DEF client
<1>3. CASE Open \/ Wait \/ RecvNothing \/ RecvEnd \/ Timeout
  <2>1. UNCHANGED <<buffer, waiting, logged, ragged>> /\ pc # "crashed" /\ pc' # "crashed"
    BY <1>3 DEF Open, Wait, RecvNothing, RecvEnd, Timeout, Receiving, At
  <2> QED
    BY <2>1
<1>4. CASE ReadLine
  BY <1>4, ReadLineSurvives
<1>5. CASE Recv
  BY <1>5, RecvSurvives
<1>6. CASE Daemon
  BY <1>2, <1>6 DEF Daemon, WriteLine, WritePart, DaemonEnds
<1>7. CASE UNCHANGED vars
  BY <1>2, <1>7 DEF vars
<1> QED
  BY <1>3, <1>4, <1>5, <1>6, <1>7, Zenon DEF Next, Thread

\* The thread does not crash as long as every recv returns whole lines or fills
\* the buffer, and the memory malloc returned did not begin with a newline.
THEOREM SurvivesWhole == Spec => []SurvivesWholeReads
<1>1. Survival => SurvivesWholeReads
  BY DEF Survival
<1> QED
  BY <1>1, SurvivalInit, SurvivalNext, PTL DEF Spec

-----------------------------------------------------------------------------
(* What has not been taken yet, byte by byte.                               *)

\* The bytes in the buffer, the first w of b, and then those on their way.
RestOf(b, w, s) == [k \in 1 .. w + Len(s) |-> IF k <= w THEN b[k - 1] ELSE s[k - w]]

Rest == RestOf(buffer, waiting, stream)

\* The length of line l when lines of the lengths w have been written, and then
\* m bytes of one more.
LengthIn(w, m, l) == IF l \in 1 .. Len(w) THEN w[l] ELSE m

\* Then c is written next after b.
Follows(w, m, b, c) ==
  \/ b[2] = 0 /\ c = <<b[1] + 1, 1>>
  \/ b[2] # 0 /\ b[2] < LengthIn(w, m, b[1]) /\ c = <<b[1], b[2] + 1>>
  \/ b[2] # 0 /\ b[1] \in 1 .. Len(w) /\ b[2] = LengthIn(w, m, b[1]) /\ c = <<b[1], 0>>

LastWritten == IF cut > 0 THEN <<Len(wrote) + 1, cut>> ELSE <<Len(wrote), 0>>

\* What has not been taken begins behind the last line that has been, goes on
\* without a gap and ends with what was written last.
InPlace ==
  /\ Rest # <<>> => Rest[1] = <<Len(logged) + 1, 1>>
  /\ \A k \in 1 .. Len(Rest) - 1 : Follows(wrote, cut, Rest[k], Rest[k + 1])
  /\ LastWritten = IF Rest = <<>> THEN <<Len(logged), 0>> ELSE Rest[Len(Rest)]

\* The line that is cut is the last, since gpsd detaches the client.
CutIsLast ==
  /\ pc = "open" => link = "none"
  /\ link \in {"none", "open"} => cut = 0

LEMMA RestIs ==
  ASSUME NEW b \in [0 .. BufSize - 1 -> Byte], NEW w \in 0 .. BufSize, NEW s \in Seq(Byte)
  PROVE  /\ w \in Nat /\ Len(s) \in Nat
         /\ RestOf(b, w, s) \in Seq(Byte) /\ Len(RestOf(b, w, s)) = w + Len(s)
         /\ \A k \in 1 .. w + Len(s) :
              RestOf(b, w, s)[k] = IF k <= w THEN b[k - 1] ELSE s[k - w]
         /\ RestOf(b, w, s) = [j \in 1 .. w |-> b[j - 1]] \o s
<1> DEFINE front == [j \in 1 .. w |-> b[j - 1]]
           rest  == RestOf(b, w, s)
<1>1. w \in Nat /\ Len(s) \in Nat /\ w <= BufSize
  BY SizesAre
<1>2. front \in Seq(Byte) /\ Len(front) = w /\ \A k \in 1 .. w : front[k] = b[k - 1]
  <2>1. \A j \in 1 .. w : b[j - 1] \in Byte
    BY <1>1, SizesAre
  <2> QED
    BY <1>1, <2>1
<1> HIDE DEF front
<1>3. ASSUME NEW k \in 1 .. w + Len(s)
      PROVE  /\ rest[k] = (IF k <= w THEN b[k - 1] ELSE s[k - w]) /\ rest[k] \in Byte
             /\ (front \o s)[k] = rest[k]
  <2>1. rest[k] = IF k <= w THEN b[k - 1] ELSE s[k - w]
    BY DEF RestOf
  <2>2. (front \o s)[k] = IF k <= w THEN front[k] ELSE s[k - w]
    BY <1>2, ConcatProperties
  <2>3. k <= w => k \in 1 .. w /\ k - 1 \in 0 .. BufSize - 1
    BY <1>1, SizesAre
  <2>4. ~ (k <= w) => k - w \in 1 .. Len(s)
    BY <1>1
  <2> QED
    BY <1>2, <2>1, <2>2, <2>3, <2>4
<1>4. rest \in Seq(Byte) /\ Len(rest) = w + Len(s)
  <2>1. rest \in [1 .. w + Len(s) -> Byte]
    BY <1>3 DEF RestOf
  <2> QED
    BY <1>1, <2>1, LenProperties, SeqDef
<1>5. front \o s \in Seq(Byte) /\ Len(front \o s) = w + Len(s)
  BY <1>2, ConcatProperties
<1> HIDE DEF rest
<1>6. front \o s = rest
  BY <1>3, <1>4, <1>5, SeqEqual
<1> QED
  BY <1>1, <1>3, <1>4, <1>6 DEF front, rest

\* A line that is whole in the buffer is the next one, from its first byte to its
\* newline.
LEMMA NextLine ==
  ASSUME TypeOK, InPlace, NEW eol \in 0 .. waiting - 1,
         Newline(buffer[eol]), \A j \in 0 .. eol - 1 : ~ Newline(buffer[j])
  PROVE  /\ \A k \in 1 .. eol : buffer[k - 1] = <<Len(logged) + 1, k>>
         /\ buffer[eol] = <<Len(logged) + 1, 0>>
         /\ Len(logged) + 1 <= Len(wrote) /\ wrote[Len(logged) + 1] = eol
<1> DEFINE l   == Len(logged) + 1
           Bad == {k \in 1 .. eol : Rest[k] # <<l, k>>}
<1>1. /\ waiting \in Nat /\ Len(stream) \in Nat /\ eol \in Nat /\ eol < waiting
      /\ Len(Rest) = waiting + Len(stream) /\ l \in Nat
      /\ \A k \in 1 .. waiting : Rest[k] = buffer[k - 1]
  <2>1. waiting \in Nat /\ Len(stream) \in Nat /\ Len(Rest) = waiting + Len(stream)
    BY RestIs DEF Rest, TypeOK
  <2>2. \A k \in 1 .. waiting + Len(stream) :
          Rest[k] = IF k <= waiting THEN buffer[k - 1] ELSE stream[k - waiting]
    BY RestIs, Zenon DEF Rest, TypeOK
  <2>3. l \in Nat
    BY DEF TypeOK
  <2> QED
    BY <2>1, <2>2, <2>3
<1>2. Rest[1] = <<l, 1>>
  <2>1. Rest # <<>>
    BY <1>1
  <2> QED
    BY <2>1 DEF InPlace
<1>3. \A k \in 1 .. waiting - 1 : Follows(wrote, cut, Rest[k], Rest[k + 1])
  BY <1>1 DEF InPlace
<1> HIDE DEF l
<1>4. ASSUME NEW k \in 1 .. eol, Rest[k] = <<l, k>>, Newline(Rest[k + 1])
      PROVE  Rest[k + 1] = <<l, 0>> /\ l <= Len(wrote) /\ k = wrote[l]
  <2>1. Follows(wrote, cut, Rest[k], Rest[k + 1])
    BY <1>1, <1>3
  <2>2. Rest[k][1] = l /\ Rest[k][2] = k /\ k # 0 /\ Rest[k + 1][2] = 0 /\ k + 1 # 0
    BY <1>1, <1>4 DEF Newline
  <2>3. \/ k < LengthIn(wrote, cut, l) /\ Rest[k + 1] = <<l, k + 1>>
        \/ l <= Len(wrote) /\ k = LengthIn(wrote, cut, l) /\ Rest[k + 1] = <<l, 0>>
    BY <2>1, <2>2 DEF Follows
  <2>4. Rest[k + 1] # <<l, k + 1>>
    BY <2>2
  <2>5. l \in 1 .. Len(wrote) /\ k = LengthIn(wrote, cut, l) /\ Rest[k + 1] = <<l, 0>>
    BY <2>1, <2>2, <2>3, <2>4 DEF Follows
  <2> QED
    BY <2>5 DEF LengthIn
<1>5. ASSUME NEW k \in 1 .. eol, Rest[k] = <<l, k>>, ~ Newline(Rest[k + 1])
      PROVE  Rest[k + 1] = <<l, k + 1>>
  <2>1. Follows(wrote, cut, Rest[k], Rest[k + 1])
    BY <1>1, <1>3
  <2>2. Rest[k][1] = l /\ Rest[k][2] = k /\ k # 0 /\ Rest[k + 1] # <<l, 0>>
    BY <1>1, <1>5 DEF Newline
  <2> QED
    BY <2>1, <2>2 DEF Follows
<1>6. Bad = {}
  <2> SUFFICES ASSUME Bad # {}
               PROVE  FALSE
    OBVIOUS
  <2>1. PICK k \in Bad : \A i \in Bad : k <= i
    <3>1. Bad \in SUBSET Nat
      BY <1>1
    <3> HIDE DEF Bad
    <3> QED
      BY <3>1, Least
  <2>2. k \in 1 .. eol /\ Rest[k] # <<l, k>> /\ k # 1
    BY <1>2
  <2>3. k - 1 \in 1 .. eol /\ k - 1 + 1 = k
    BY <1>1, <2>2
  <2>4. Rest[k - 1] = <<l, k - 1>>
    BY <2>1, <2>3
  <2>5. ~ Newline(Rest[k])
    <3>1. k \in 1 .. waiting /\ k - 1 \in 0 .. eol - 1
      BY <1>1, <2>2
    <3> QED
      BY <1>1, <3>1
  <2>6. Rest[(k - 1) + 1] = <<l, (k - 1) + 1>>
    <3>1. (k - 1) + 1 = k
      BY <2>2
    <3> QED
      BY <1>5, <2>3, <2>4, <2>5, <3>1
  <2> QED
    BY <2>2, <2>3, <2>6
<1>7. \A k \in 1 .. eol : Rest[k] = <<l, k>>
  BY <1>6
<1>8. Newline(Rest[eol + 1]) /\ Rest[eol + 1] = buffer[eol]
  <2>1. eol + 1 \in 1 .. waiting /\ (eol + 1) - 1 = eol
    BY <1>1
  <2> QED
    BY <1>1, <2>1
<1>9. eol # 0
  BY <1>2, <1>8 DEF Newline
<1>10. eol \in 1 .. eol
  BY <1>1, <1>9
<1>11. Rest[eol + 1] = <<l, 0>> /\ l <= Len(wrote) /\ eol = wrote[l]
  BY <1>4, <1>7, <1>8, <1>10
<1>12. \A k \in 1 .. eol : buffer[k - 1] = <<l, k>>
  BY <1>1, <1>7
<1> QED
  BY <1>8, <1>11, <1>12 DEF l

\* gpsd writes part behind what it has written.
Wrote(part) ==
  /\ part \in Seq(Byte) /\ part # <<>>
  /\ stream' = stream \o part /\ UNCHANGED <<buffer, waiting, logged>>
  /\ part[1] = <<Len(wrote) + 1, 1>>
  /\ \A j \in 1 .. Len(part) - 1 : Follows(wrote', cut', part[j], part[j + 1])
  /\ LastWritten' = part[Len(part)]
  /\ cut = 0
  /\ Len(wrote) <= Len(wrote') /\ \A l \in 1 .. Len(wrote) : wrote'[l] = wrote[l]

LEMMA WroteRest ==
  ASSUME TypeOK, TypeOK', NEW part, Wrote(part)
  PROVE  Rest' = Rest \o part
<1> DEFINE front == [j \in 1 .. waiting |-> buffer[j - 1]]
<1>1. Rest = front \o stream /\ waiting \in Nat
  BY RestIs, Zenon DEF Rest, TypeOK
<1>2. Rest' = front \o (stream \o part)
  <2>1. /\ buffer \in [0 .. BufSize - 1 -> Byte] /\ waiting \in 0 .. BufSize
        /\ stream \o part \in Seq(Byte) /\ Rest' = RestOf(buffer, waiting, stream \o part)
    BY Zenon DEF Wrote, TypeOK, Rest
  <2> QED
    BY <2>1, RestIs, Zenon
<1>3. front \in Seq(Byte)
  <2>1. \A j \in 1 .. waiting : buffer[j - 1] \in Byte
    BY SizesAre DEF TypeOK
  <2> QED
    BY <1>1, <2>1
<1>4. stream \in Seq(Byte) /\ part \in Seq(Byte)
  BY Zenon DEF TypeOK, Wrote
<1> HIDE DEF front
<1>5. (front \o stream) \o part = front \o (stream \o part)
  BY <1>3, <1>4, ConcatAssociative, SMTT(30)
<1> QED
  BY <1>1, <1>2, <1>5, Zenon

LEMMA WroteInPlace ==
  ASSUME TypeOK, TypeOK', InPlace, NEW part, Wrote(part)
  PROVE  InPlace'
<1> DEFINE r == Len(Rest)
           m == Len(part)
<1>1. /\ r \in Nat /\ m \in Nat /\ m # 0 /\ Len(wrote) \in Nat
      /\ Rest \in Seq(Byte) /\ part \in Seq(Byte)
  <2>1. part \in Seq(Byte) /\ part # <<>>
    BY DEF Wrote
  <2>2. m \in Nat /\ m # 0
    BY <2>1
  <2>3. Rest \in Seq(Byte)
    BY RestIs, Zenon DEF Rest, TypeOK
  <2>4. Len(wrote) \in Nat
    BY DEF TypeOK
  <2>5. r \in Nat
    BY <2>3
  <2> QED
    BY <2>1, <2>2, <2>3, <2>4, <2>5
<1>2. /\ Rest' \in Seq(Byte) /\ Len(Rest') = r + m
      /\ \A k \in 1 .. r + m : Rest'[k] = IF k <= r THEN Rest[k] ELSE part[k - r]
  <2> DEFINE rest == Rest
  <2>1. Rest' = rest \o part /\ rest \in Seq(Byte) /\ part \in Seq(Byte)
    BY <1>1, WroteRest
  <2> HIDE DEF rest
  <2>2. /\ Rest' \in Seq(Byte) /\ Len(Rest') = Len(rest) + m
        /\ \A k \in 1 .. Len(rest) + m : Rest'[k] = IF k <= Len(rest) THEN rest[k] ELSE part[k - Len(rest)]
    BY <2>1, ConcatProperties
  <2> QED
    BY <2>2 DEF rest
<1>3. ASSUME NEW b \in Byte, NEW c, Follows(wrote, cut, b, c)
      PROVE  Follows(wrote', cut', b, c)
  <2>1. b[1] \in Nat /\ b[2] \in Nat
    BY ByteParts, SizesAre
  <2>2. /\ cut = 0 /\ Len(wrote) <= Len(wrote') /\ Len(wrote') \in Nat
        /\ \A l \in 1 .. Len(wrote) : wrote'[l] = wrote[l]
    BY DEF Wrote, TypeOK
  <2>3. CASE b[2] = 0
    BY <1>3, <2>3 DEF Follows
  <2>4. CASE b[2] # 0
    <3>1. b[1] \in 1 .. Len(wrote)
      BY <1>3, <2>1, <2>2, <2>4 DEF Follows, LengthIn
    <3>2. b[1] \in 1 .. Len(wrote') /\ LengthIn(wrote', cut', b[1]) = LengthIn(wrote, cut, b[1])
      BY <1>1, <2>2, <3>1 DEF LengthIn
    <3> QED
      BY <1>3, <3>2 DEF Follows
  <2> QED
    BY <2>3, <2>4
<1>4. ASSUME NEW k \in 1 .. (r + m) - 1
      PROVE  Follows(wrote', cut', Rest'[k], Rest'[k + 1])
  <2>1. k \in 1 .. r + m /\ k + 1 \in 1 .. r + m
    BY <1>1
  <2>2. CASE k < r
    <3>1. k \in 1 .. r - 1 /\ Rest'[k] = Rest[k] /\ Rest'[k + 1] = Rest[k + 1] /\ Rest[k] \in Byte
      BY <1>1, <1>2, <2>1, <2>2
    <3>2. Follows(wrote, cut, Rest[k], Rest[k + 1])
      BY <3>1 DEF InPlace
    <3> QED
      BY <1>3, <3>1, <3>2
  <2>3. CASE k = r
    <3>1. Rest'[k] = Rest[r] /\ Rest'[k + 1] = part[1] /\ Rest # <<>>
      <4>1. (k + 1) - r = 1 /\ ~ (k + 1 <= r) /\ r # 0
        BY <1>1, <2>3
      <4> QED
        BY <1>1, <1>2, <2>1, <2>3, <4>1
    <3>2. Rest[r] = <<Len(wrote), 0>>
      BY <3>1 DEF InPlace, LastWritten, Wrote
    <3>3. part[1] = <<Len(wrote) + 1, 1>>
      BY DEF Wrote
    <3> QED
      BY <1>1, <3>1, <3>2, <3>3 DEF Follows
  <2>4. CASE k > r
    <3>1. /\ k - r \in 1 .. m - 1 /\ (k + 1) - r = (k - r) + 1
          /\ ~ (k <= r) /\ ~ (k + 1 <= r)
      BY <1>1, <2>4
    <3>2. Rest'[k] = part[k - r] /\ Rest'[k + 1] = part[(k - r) + 1]
      BY <1>2, <2>1, <3>1
    <3> QED
      BY <3>1, <3>2 DEF Wrote
  <2> QED
    BY <1>1, <2>2, <2>3, <2>4
<1>5. Rest'[1] = <<Len(logged) + 1, 1>>
  <2>1. 1 \in 1 .. r + m
    BY <1>1
  <2>2. CASE Rest = <<>>
    <3>1. r = 0 /\ Len(wrote) = Len(logged)
      <4>1. <<Len(wrote), 0>> = <<Len(logged), 0>>
        BY <2>2 DEF InPlace, LastWritten, Wrote
      <4> QED
        BY <2>2, <4>1
    <3>2. Rest'[1] = part[1]
      BY <1>2, <2>1, <3>1
    <3> QED
      BY <3>1, <3>2 DEF Wrote
  <2>3. CASE Rest # <<>>
    <3>1. r # 0 /\ 1 <= r
      BY <1>1, <2>3
    <3> QED
      BY <1>2, <2>1, <2>3, <3>1 DEF InPlace
  <2> QED
    BY <2>2, <2>3
<1>6. Rest'[r + m] = LastWritten'
  <2>1. r + m \in 1 .. r + m /\ ~ (r + m <= r) /\ (r + m) - r = m
    BY <1>1
  <2>2. Rest'[r + m] = part[m]
    BY <1>2, <2>1
  <2> QED
    BY <2>2 DEF Wrote
<1>7. Len(logged') = Len(logged) /\ Len(Rest') = r + m /\ Rest' # <<>>
  BY <1>1, <1>2 DEF Wrote
<1> QED
  BY <1>4, <1>5, <1>6, <1>7 DEF InPlace

\* What arrives with a recv has not been taken before or after it.
LEMMA RecvRest ==
  ASSUME TypeOK, TypeOK', Recv
  PROVE  Rest' = Rest
<1>1. PICK n \in 1 .. BufSize - waiting :
        /\ n <= Len(stream) /\ Len(stream) \in Nat
        /\ \A k \in 0 .. BufSize - 1 :
             buffer'[k] = IF waiting <= k /\ k < waiting + n THEN stream[k - waiting + 1] ELSE buffer[k]
        /\ waiting' = waiting + n
        /\ Len(stream') = Len(stream) - n
        /\ \A k \in 1 .. Len(stream) - n : stream'[k] = stream[k + n]
  BY RecvIs, Zenon
<1>2. /\ n \in Nat /\ n > 0 /\ waiting \in Nat /\ BufSize \in Nat /\ waiting + n <= BufSize
      /\ waiting' + Len(stream') = waiting + Len(stream)
  <2>1. waiting \in 0 .. BufSize
    BY DEF TypeOK
  <2> QED
    BY <1>1, <2>1, SizesAre
<1> DEFINE total == waiting + Len(stream)
<1>3. /\ Rest \in Seq(Byte) /\ Len(Rest) = total
      /\ \A k \in 1 .. total : Rest[k] = IF k <= waiting THEN buffer[k - 1] ELSE stream[k - waiting]
  <2>1. /\ buffer \in [0 .. BufSize - 1 -> Byte] /\ waiting \in 0 .. BufSize /\ stream \in Seq(Byte)
        /\ Rest = RestOf(buffer, waiting, stream)
    BY Zenon DEF Rest, TypeOK
  <2> QED
    BY <2>1, RestIs, Zenon
<1>4. /\ Rest' \in Seq(Byte) /\ Len(Rest') = waiting' + Len(stream')
      /\ \A k \in 1 .. waiting' + Len(stream') :
           Rest'[k] = IF k <= waiting' THEN buffer'[k - 1] ELSE stream'[k - waiting']
  <2>1. /\ buffer' \in [0 .. BufSize - 1 -> Byte] /\ waiting' \in 0 .. BufSize /\ stream' \in Seq(Byte)
        /\ Rest' = RestOf(buffer', waiting', stream')
    BY Zenon DEF Rest, TypeOK
  <2> QED
    BY <2>1, RestIs, Zenon
<1>5. ASSUME NEW k \in 1 .. total
      PROVE  Rest'[k] = Rest[k]
  <2>1. /\ Rest[k] = IF k <= waiting THEN buffer[k - 1] ELSE stream[k - waiting]
        /\ Rest'[k] = IF k <= waiting + n THEN buffer'[k - 1] ELSE stream'[k - (waiting + n)]
    BY <1>1, <1>2, <1>3, <1>4
  <2>2. k \in Nat /\ k <= total /\ 1 <= k /\ total \in Nat
    BY <1>1, <1>2
  <2>3. CASE k <= waiting
    <3>1. k - 1 \in 0 .. BufSize - 1 /\ ~ (waiting <= k - 1) /\ k <= waiting + n
      BY <1>2, <2>2, <2>3
    <3>2. buffer'[k - 1] = buffer[k - 1]
      BY <1>1, <3>1
    <3> QED
      BY <2>1, <2>3, <3>1, <3>2
  <2>4. CASE waiting < k /\ k <= waiting + n
    <3>1. /\ k - 1 \in 0 .. BufSize - 1 /\ waiting <= k - 1 /\ k - 1 < waiting + n
          /\ ~ (k <= waiting) /\ k - 1 - waiting + 1 = k - waiting
      BY <1>2, <2>2, <2>4
    <3>2. buffer'[k - 1] = stream[k - 1 - waiting + 1]
      BY <1>1, <3>1
    <3> QED
      BY <2>1, <2>4, <3>1, <3>2
  <2>5. CASE waiting + n < k
    <3>1. /\ k - (waiting + n) \in 1 .. Len(stream) - n
          /\ ~ (k <= waiting) /\ ~ (k <= waiting + n) /\ (k - (waiting + n)) + n = k - waiting
      BY <1>1, <1>2, <2>2, <2>5
    <3>2. stream'[k - (waiting + n)] = stream[(k - (waiting + n)) + n]
      BY <1>1, <3>1
    <3> QED
      BY <2>1, <3>1, <3>2
  <2> QED
    BY <1>2, <2>2, <2>3, <2>4, <2>5
<1>6. Len(Rest') = Len(Rest) /\ \A k \in 1 .. Len(Rest) : Rest'[k] = Rest[k]
  BY <1>2, <1>3, <1>4, <1>5
<1> DEFINE old == Rest
           new == Rest'
<1>7. old \in Seq(Byte) /\ new \in Seq(Byte) /\ Len(new) = Len(old) /\ \A k \in 1 .. Len(old) : new[k] = old[k]
  BY <1>3, <1>4, <1>6
<1> HIDE DEF old, new
<1>8. new = old
  BY <1>7, SeqEqual
<1> QED
  BY <1>8 DEF old, new

\* A line is taken from the front, and its newline with it.
LEMMA ReadLineRest ==
  ASSUME TypeOK, TypeOK', InPlace, ReadLine, pc' # "crashed"
  PROVE  \E eol \in Nat :
           /\ Len(logged) + 1 <= Len(wrote) /\ wrote[Len(logged) + 1] = eol
           /\ logged' = Append(logged, Text(Len(logged) + 1, eol))
           /\ Len(Rest) = (eol + 1) + Len(Rest')
           /\ \A k \in 1 .. eol : Rest[k] = <<Len(logged) + 1, k>>
           /\ Rest[eol + 1] = <<Len(logged) + 1, 0>>
           /\ \A k \in 1 .. Len(Rest') : Rest'[k] = Rest[k + (eol + 1)]
           /\ UNCHANGED <<link, wrote, cut>>
<1>1. PICK eol \in 0 .. waiting :
        /\ eol < BufSize /\ Newline(buffer[eol]) /\ \A j \in 0 .. eol - 1 : ~ Newline(buffer[j])
        /\ UNCHANGED <<link, stream, wrote, cut>>
        /\ eol < waiting
        /\ logged' = Append(logged, [j \in 1 .. eol |-> buffer[j - 1]])
        /\ \A k \in 0 .. BufSize - 1 :
             buffer'[k] = IF k < waiting - (eol + 1) THEN buffer[k + (eol + 1)]
                          ELSE IF k = eol THEN Nul ELSE buffer[k]
        /\ waiting' = waiting - (eol + 1)
  BY ReadLineIs, Zenon
<1> DEFINE l == Len(logged) + 1
           r == waiting - (eol + 1)
<1>2. /\ eol \in Nat /\ waiting \in Nat /\ r \in Nat /\ waiting <= BufSize /\ BufSize \in Nat
      /\ eol \in 0 .. waiting - 1 /\ Len(stream) \in Nat
  BY <1>1, SizesAre DEF TypeOK
<1>3. /\ \A k \in 1 .. eol : buffer[k - 1] = <<l, k>>
      /\ buffer[eol] = <<l, 0>> /\ l <= Len(wrote) /\ wrote[l] = eol
  BY <1>1, <1>2, NextLine
<1>4. [j \in 1 .. eol |-> buffer[j - 1]] = Text(l, eol)
  BY <1>3 DEF Text
<1>5. /\ Len(Rest) = waiting + Len(stream)
      /\ \A k \in 1 .. waiting + Len(stream) :
           Rest[k] = IF k <= waiting THEN buffer[k - 1] ELSE stream[k - waiting]
  BY RestIs, Zenon DEF Rest, TypeOK
<1>6. /\ Len(Rest') = r + Len(stream)
      /\ \A k \in 1 .. r + Len(stream) :
           Rest'[k] = IF k <= r THEN buffer'[k - 1] ELSE stream[k - r]
  <2>1. /\ buffer' \in [0 .. BufSize - 1 -> Byte] /\ waiting' \in 0 .. BufSize /\ stream' \in Seq(Byte)
        /\ Rest' = RestOf(buffer', waiting', stream') /\ waiting' = r /\ stream' = stream
    BY <1>1, Zenon DEF Rest, TypeOK
  <2> HIDE DEF r
  <2> QED
    BY <2>1, RestIs, Zenon
<1>7. ASSUME NEW k \in 1 .. Len(Rest')
      PROVE  Rest'[k] = Rest[k + (eol + 1)]
  <2>1. /\ k \in 1 .. r + Len(stream) /\ k + (eol + 1) \in 1 .. waiting + Len(stream)
        /\ k \in Nat
    BY <1>2, <1>6
  <2>2. /\ Rest'[k] = IF k <= r THEN buffer'[k - 1] ELSE stream[k - r]
        /\ Rest[k + (eol + 1)] = IF k + (eol + 1) <= waiting THEN buffer[(k + (eol + 1)) - 1]
                                 ELSE stream[(k + (eol + 1)) - waiting]
    BY <1>5, <1>6, <2>1
  <2>3. CASE k <= r
    <3>1. /\ k - 1 \in 0 .. BufSize - 1 /\ k - 1 < r /\ k + (eol + 1) <= waiting
          /\ (k - 1) + (eol + 1) = (k + (eol + 1)) - 1
      BY <1>2, <2>1, <2>3
    <3>2. buffer'[k - 1] = buffer[(k - 1) + (eol + 1)]
      BY <1>1, <3>1
    <3> QED
      BY <2>2, <2>3, <3>1, <3>2
  <2>4. CASE ~ (k <= r)
    <3>1. ~ (k + (eol + 1) <= waiting) /\ (k + (eol + 1)) - waiting = k - r
      BY <1>2, <2>1, <2>4
    <3> QED
      BY <2>2, <2>4, <3>1
  <2> QED
    BY <2>3, <2>4
<1>8. ASSUME NEW k \in 1 .. eol
      PROVE  Rest[k] = <<l, k>>
  <2>1. k \in 1 .. waiting + Len(stream) /\ k <= waiting
    BY <1>2
  <2> QED
    BY <1>3, <1>5, <2>1
<1>9. Rest[eol + 1] = <<l, 0>>
  <2>1. eol + 1 \in 1 .. waiting + Len(stream) /\ eol + 1 <= waiting /\ (eol + 1) - 1 = eol
    BY <1>2
  <2> QED
    BY <1>3, <1>5, <2>1
<1>10. Len(Rest) = (eol + 1) + Len(Rest')
  BY <1>2, <1>5, <1>6
<1>11. logged' = Append(logged, Text(l, eol))
  BY <1>1, <1>4, Zenon
<1> QED
  BY <1>1, <1>2, <1>3, <1>7, <1>8, <1>9, <1>10, <1>11, Zenon

LEMMA WriteLineWrites ==
  ASSUME TypeOK, TypeOK', CutIsLast, NEW n \in Lengths, WriteLine(n)
  PROVE  Wrote(Line(Len(wrote) + 1, n))
<1> DEFINE l    == Len(wrote) + 1
           part == Line(l, n)
<1>1. n \in Nat /\ n # 0 /\ l \in 0 .. MaxLine /\ l \in Nat /\ l # 0
  BY SizesAre DEF TypeOK, WriteLine
<1>2. /\ part \in Seq(Byte) /\ Len(part) = n + 1 /\ part[n + 1] = <<l, 0>>
      /\ \A j \in 1 .. n : part[j] = <<l, j>>
  BY <1>1, LineIs
<1>3. /\ stream' = stream \o part /\ UNCHANGED <<buffer, waiting, logged, cut>> /\ link = "open"
      /\ wrote' = Append(wrote, n)
  BY DEF WriteLine, client
<1> HIDE DEF part
<1>4. /\ Len(wrote') = l /\ wrote'[l] = n
      /\ \A i \in 1 .. Len(wrote) : wrote'[i] = wrote[i]
  BY <1>3 DEF TypeOK
<1>5. cut = 0 /\ cut' = 0
  BY <1>3 DEF CutIsLast
<1>6. LengthIn(wrote', cut', l) = n /\ l \in 1 .. Len(wrote')
  BY <1>1, <1>4 DEF LengthIn
<1>7. ASSUME NEW j \in 1 .. (n + 1) - 1
      PROVE  Follows(wrote', cut', part[j], part[j + 1])
  <2>1. j \in 1 .. n /\ part[j] = <<l, j>> /\ j # 0
    BY <1>1, <1>2
  <2>2. CASE j = n
    <3>1. part[j + 1] = <<l, 0>>
      BY <1>2, <2>2
    <3> QED
      BY <1>6, <2>1, <2>2, <3>1 DEF Follows
  <2>3. CASE j < n
    <3>1. part[j + 1] = <<l, j + 1>>
      BY <1>1, <1>2, <2>1, <2>3
    <3> QED
      BY <1>6, <2>1, <2>3, <3>1 DEF Follows
  <2> QED
    BY <1>1, <2>1, <2>2, <2>3
<1>8. LastWritten' = <<l, 0>>
  BY <1>4, <1>5 DEF LastWritten
<1>9. part # <<>> /\ part[1] = <<l, 1>>
  BY <1>1, <1>2
<1>10. Len(wrote) <= Len(wrote')
  BY <1>1, <1>4
<1> QED
  BY <1>2, <1>3, <1>4, <1>5, <1>7, <1>8, <1>9, <1>10 DEF Wrote, part

LEMMA WritePartWrites ==
  ASSUME TypeOK, TypeOK', CutIsLast, NEW n \in Lengths, WritePart(n)
  PROVE  /\ Wrote(SubSeq(Line(Len(wrote) + 1, n), 1, Room))
         /\ SubSeq(Line(Len(wrote) + 1, n), 1, Room) = [j \in 1 .. Room |-> <<Len(wrote) + 1, j>>]
<1> DEFINE l    == Len(wrote) + 1
           line == Line(l, n)
           part == SubSeq(line, 1, Room)
<1>1. /\ n \in Nat /\ l \in 0 .. MaxLine /\ l \in Nat /\ l \notin 1 .. Len(wrote)
      /\ Room \in Nat /\ 0 < Room /\ Room <= n
  <2>1. Len(wrote) \in Nat /\ Len(stream) \in Nat /\ Len(stream) <= SockBuf
    BY DEF TypeOK
  <2>2. Len(wrote) < MaxLine /\ 0 < Room /\ Room < n + 1
    BY DEF WritePart
  <2> QED
    BY <2>1, <2>2, SizesAre DEF Room
<1>2. line \in Seq(Byte) /\ Len(line) = n + 1 /\ \A j \in 1 .. n : line[j] = <<l, j>>
  BY <1>1, LineIs
<1>3. /\ stream' = stream \o part /\ UNCHANGED <<buffer, waiting, logged, wrote>> /\ link = "open"
      /\ cut' = Room
  BY DEF WritePart, client
<1> HIDE DEF line
<1>4. part \in Seq(Byte) /\ Len(part) = Room /\ \A j \in 1 .. Room : part[j] = line[j]
  BY <1>1, <1>2
<1>5. \A j \in 1 .. Room : part[j] = <<l, j>>
  BY <1>1, <1>2, <1>4
<1>6. cut = 0
  BY <1>3 DEF CutIsLast
<1>7. LengthIn(wrote', cut', l) = Room
  BY <1>1, <1>3 DEF LengthIn
<1>8. part = [j \in 1 .. Room |-> <<l, j>>]
  BY <1>4, <1>5, <1>1
<1> HIDE DEF part, l
<1>9. ASSUME NEW j \in 1 .. Room - 1
      PROVE  Follows(wrote', cut', part[j], part[j + 1])
  <2>1. part[j] = <<l, j>> /\ part[j + 1] = <<l, j + 1>> /\ j # 0 /\ j < Room
    BY <1>1, <1>5
  <2> QED
    BY <1>7, <2>1 DEF Follows
<1>10. LastWritten' = <<l, Room>>
  BY <1>1, <1>3 DEF LastWritten, l
<1>11. part # <<>> /\ part[1] = <<l, 1>> /\ part[Len(part)] = <<l, Room>>
  BY <1>1, <1>4, <1>5
<1>12. Len(wrote) \in Nat
  BY DEF TypeOK
<1>13. Wrote(part)
  BY <1>3, <1>4, <1>6, <1>9, <1>10, <1>11, <1>12 DEF Wrote, l
<1> QED
  BY <1>8, <1>13 DEF part, line, l

LEMMA ReadLineInPlace ==
  ASSUME TypeOK, TypeOK', InPlace, ReadLine, pc' # "crashed"
  PROVE  InPlace'
<1> DEFINE l    == Len(logged) + 1
           rest == Rest
           left == Rest'
<1>1. PICK eol \in Nat :
        /\ logged' = Append(logged, Text(l, eol))
        /\ Len(rest) = (eol + 1) + Len(left)
        /\ rest[eol + 1] = <<l, 0>>
        /\ \A k \in 1 .. Len(left) : left[k] = rest[k + (eol + 1)]
        /\ UNCHANGED <<link, wrote, cut>>
  BY ReadLineRest, Zenon
<1>2. rest \in Seq(Byte) /\ left \in Seq(Byte)
  <2>1. /\ buffer' \in [0 .. BufSize - 1 -> Byte] /\ waiting' \in 0 .. BufSize /\ stream' \in Seq(Byte)
        /\ left = RestOf(buffer', waiting', stream')
    BY Zenon DEF Rest, TypeOK
  <2>2. /\ buffer \in [0 .. BufSize - 1 -> Byte] /\ waiting \in 0 .. BufSize /\ stream \in Seq(Byte)
        /\ rest = RestOf(buffer, waiting, stream)
    BY Zenon DEF Rest, TypeOK
  <2> QED
    BY <2>1, <2>2, RestIs, Zenon
<1>3. Len(logged') = l /\ l \in Nat
  BY <1>1 DEF TypeOK
<1>4. /\ rest # <<>> => rest[1] = <<l, 1>>
      /\ \A k \in 1 .. Len(rest) - 1 : Follows(wrote, cut, rest[k], rest[k + 1])
      /\ LastWritten = IF rest = <<>> THEN <<Len(logged), 0>> ELSE rest[Len(rest)]
  BY DEF InPlace
<1>5. LastWritten' = LastWritten
  BY <1>1 DEF LastWritten
<1> HIDE DEF l, rest, left
<1>6. Len(rest) \in Nat /\ Len(left) \in Nat /\ rest # <<>>
  BY <1>1, <1>2
<1>7. ASSUME left # <<>>
      PROVE  left[1] = <<Len(logged') + 1, 1>>
  <2>1. /\ 1 \in 1 .. Len(left) /\ 1 + (eol + 1) = (eol + 1) + 1
        /\ eol + 1 \in 1 .. Len(rest) - 1
    BY <1>1, <1>2, <1>6, <1>7
  <2>2. left[1] = rest[(eol + 1) + 1]
    BY <1>1, <2>1
  <2>3. Follows(wrote, cut, rest[eol + 1], rest[(eol + 1) + 1])
    BY <1>4, <2>1
  <2>4. rest[eol + 1] = <<l, 0>>
    BY <1>1
  <2> QED
    BY <1>3, <2>2, <2>3, <2>4 DEF Follows
<1>8. ASSUME NEW k \in 1 .. Len(left) - 1
      PROVE  Follows(wrote, cut, left[k], left[k + 1])
  <2>1. /\ k \in 1 .. Len(left) /\ k + 1 \in 1 .. Len(left)
        /\ k + (eol + 1) \in 1 .. Len(rest) - 1
        /\ (k + 1) + (eol + 1) = (k + (eol + 1)) + 1
    BY <1>1, <1>6
  <2>2. left[k] = rest[k + (eol + 1)]
    BY <1>1, <2>1, Zenon
  <2>3. left[k + 1] = rest[(k + 1) + (eol + 1)]
    BY <1>1, <2>1, Zenon
  <2>4. left[k + 1] = rest[(k + (eol + 1)) + 1]
    BY <2>1, <2>3, Zenon
  <2> QED
    BY <1>4, <2>1, <2>2, <2>4, Zenon
<1>9. LastWritten' = IF left = <<>> THEN <<Len(logged'), 0>> ELSE left[Len(left)]
  <2>1. LastWritten = rest[Len(rest)]
    BY <1>4, <1>6
  <2>2. CASE left = <<>>
    <3>1. Len(rest) = eol + 1
      BY <1>1, <2>2
    <3> QED
      BY <1>1, <1>3, <1>5, <2>1, <2>2, <3>1
  <2>3. CASE left # <<>>
    <3>1. Len(left) \in 1 .. Len(left) /\ Len(left) + (eol + 1) = Len(rest)
      BY <1>1, <1>2, <1>6, <2>3
    <3>2. left[Len(left)] = rest[Len(rest)]
      BY <1>1, <3>1
    <3> QED
      BY <1>5, <2>1, <2>3, <3>2
  <2> QED
    BY <2>2, <2>3
<1>10. UNCHANGED <<wrote, cut>>
  BY <1>1
<1> QED
  BY <1>7, <1>8, <1>9, <1>10, Zenon DEF InPlace, left

Place == TypeOK /\ InPlace /\ CutIsLast

LEMMA PlaceInit ==
  Init => Place
<1> SUFFICES ASSUME Init
             PROVE  Place
  OBVIOUS
<1>1. /\ pc = "open" /\ link = "none" /\ waiting = 0 /\ cut = 0 /\ stream = <<>>
      /\ logged = <<>> /\ wrote = <<>>
  BY DEF Init
<1>2. TypeOK
  BY TypeInit
<1>3. CutIsLast
  BY <1>1 DEF CutIsLast
<1>4. Len(logged) = 0 /\ Len(wrote) = 0 /\ Len(stream) = 0
  BY <1>1
<1>5. LastWritten = <<0, 0>>
  BY <1>1, <1>4 DEF LastWritten
<1>6. Rest \in Seq(Byte) /\ Len(Rest) = 0
  <2>1. Rest \in Seq(Byte) /\ Len(Rest) = waiting + Len(stream)
    BY <1>2, RestIs, Zenon DEF Rest, TypeOK
  <2> QED
    BY <1>1, <1>4, <2>1
<1> DEFINE rest == Rest
<1> HIDE DEF rest
<1>7. rest = <<>> /\ Len(rest) = 0
  <2>1. rest \in Seq(Byte) /\ Len(rest) = 0
    BY <1>6 DEF rest
  <2> QED
    BY <2>1
<1>8. \A k \in 1 .. Len(rest) - 1 : Follows(wrote, cut, rest[k], rest[k + 1])
  BY <1>7
<1>9. InPlace
  BY <1>4, <1>5, <1>7, <1>8, Zenon DEF InPlace, rest
<1> QED
  BY <1>2, <1>3, <1>9 DEF Place

\* The steps that leave alone what has been written and what has been taken.
LEMMA KeepsPlace ==
  ASSUME InPlace, Rest' = Rest, UNCHANGED <<logged, wrote, cut>>
  PROVE  InPlace'
<1>1. LastWritten' = LastWritten
  BY DEF LastWritten
<1> DEFINE rest == Rest
           left == Rest'
<1>2. left = rest
  OBVIOUS
<1>3. /\ rest # <<>> => rest[1] = <<Len(logged) + 1, 1>>
      /\ \A k \in 1 .. Len(rest) - 1 : Follows(wrote, cut, rest[k], rest[k + 1])
      /\ LastWritten = IF rest = <<>> THEN <<Len(logged), 0>> ELSE rest[Len(rest)]
  BY DEF InPlace
<1> HIDE DEF rest, left
<1>4. /\ left # <<>> => left[1] = <<Len(logged') + 1, 1>>
      /\ \A k \in 1 .. Len(left) - 1 : Follows(wrote', cut', left[k], left[k + 1])
      /\ LastWritten' = IF left = <<>> THEN <<Len(logged'), 0>> ELSE left[Len(left)]
  BY <1>1, <1>2, <1>3
<1> QED
  BY <1>4, Zenon DEF InPlace, left

LEMMA PlaceNext ==
  Place /\ [Next]_vars => Place'
<1> SUFFICES ASSUME Place, [Next]_vars
             PROVE  Place'
  OBVIOUS
<1>1. TypeOK /\ TypeOK' /\ InPlace /\ CutIsLast
  BY TypeNext DEF Place
<1>2. ASSUME NEW n \in Lengths, WriteLine(n)
      PROVE  Place'
  <2>1. InPlace'
    BY <1>1, <1>2, WriteLineWrites, WroteInPlace
  <2>2. CutIsLast'
    BY <1>1, <1>2 DEF WriteLine, CutIsLast, client
  <2> QED
    BY <1>1, <2>1, <2>2 DEF Place
<1>3. ASSUME NEW n \in Lengths, WritePart(n)
      PROVE  Place'
  <2>1. InPlace'
    BY <1>1, <1>3, WritePartWrites, WroteInPlace
  <2>2. CutIsLast'
    BY <1>1, <1>3 DEF WritePart, CutIsLast, client
  <2> QED
    BY <1>1, <2>1, <2>2 DEF Place
<1>4. CASE \/ \E end \in {"fin", "reset"} : DaemonEnds(end)
           \/ Open \/ Wait \/ RecvNothing \/ RecvEnd \/ Timeout \/ UNCHANGED vars
  <2>1. UNCHANGED <<buffer, waiting, logged, stream, wrote, cut>>
    BY <1>4 DEF DaemonEnds, Open, Wait, RecvNothing, RecvEnd, Timeout, client, daemon, vars
  <2>2. Rest' = Rest
    BY <2>1 DEF Rest
  <2>3. CutIsLast'
    BY <1>1, <1>4
       DEF CutIsLast, DaemonEnds, Open, Wait, RecvNothing, RecvEnd, Timeout, Receiving, At, client, daemon, vars
  <2> QED
    BY <1>1, <2>1, <2>2, <2>3, KeepsPlace DEF Place
<1>5. CASE Recv
  <2>1. UNCHANGED <<logged, link, wrote, cut>> /\ pc' # "open"
    BY <1>5 DEF Recv, daemon
  <2>2. CutIsLast'
    BY <1>1, <2>1 DEF CutIsLast
  <2> QED
    BY <1>1, <1>5, <2>1, <2>2, RecvRest, KeepsPlace DEF Place
<1>6. CASE ReadLine
  <2>1. UNCHANGED <<link, wrote, cut>> /\ pc' # "open"
    BY <1>6 DEF ReadLine, daemon
  <2>2. CutIsLast'
    BY <1>1, <2>1 DEF CutIsLast
  <2>3. CASE pc' = "crashed"
    <3>1. UNCHANGED <<buffer, waiting, logged, stream>>
      BY <1>6, <2>3 DEF ReadLine
    <3>2. Rest' = Rest
      BY <3>1 DEF Rest
    <3> QED
      BY <1>1, <2>1, <2>2, <3>1, <3>2, KeepsPlace DEF Place
  <2>4. CASE pc' # "crashed"
    BY <1>1, <1>6, <2>2, <2>4, ReadLineInPlace DEF Place
  <2> QED
    BY <2>3, <2>4
<1> QED
  BY <1>2, <1>3, <1>4, <1>5, <1>6, Zenon DEF Next, Daemon, Thread

-----------------------------------------------------------------------------
(* Nothing is lost.                                                         *)

\* The lines of the lengths w, as they are written whole, and those of the texts
\* t, as they are taken.
WrittenLines(w) == [l \in 1 .. Len(w) |-> Line(l, w[l])]

TakenLines(t) == [l \in 1 .. Len(t) |-> Append(t[l], <<l, 0>>)]

Wide == Nat \X Nat

LEMMA ByteIsWide ==
  ASSUME NEW s \in Seq(Byte)
  PROVE  s \in Seq(Wide)
<1>1. Byte \subseteq Wide
  BY SizesAre DEF Byte, Wide
<1> QED
  BY <1>1

LEMMA LineIsWide ==
  ASSUME NEW l \in Nat, NEW n \in Nat
  PROVE  Line(l, n) \in Seq(Wide)
<1>1. \A j \in Nat : <<l, j>> \in Wide
  BY DEF Wide
<1>2. Text(l, n) \in Seq(Wide)
  BY <1>1 DEF Text
<1> HIDE DEF Text
<1> QED
  BY <1>1, <1>2 DEF Line

LEMMA LinesTypes ==
  /\ \A w \in Seq(Lengths) : WrittenLines(w) \in Seq(Seq(Wide))
  /\ \A t \in Seq(Seq(Byte)) : TakenLines(t) \in Seq(Seq(Wide))
<1>1. ASSUME NEW w \in Seq(Lengths)
      PROVE  WrittenLines(w) \in Seq(Seq(Wide))
  <2>1. ASSUME NEW l \in 1 .. Len(w)
        PROVE  Line(l, w[l]) \in Seq(Wide)
    <3>1. l \in Nat /\ w[l] \in Lengths
      OBVIOUS
    <3> QED
      BY <3>1, SizesAre, LineIsWide
  <2>2. Len(w) \in Nat
    OBVIOUS
  <2> QED
    BY <2>1, <2>2 DEF WrittenLines
<1>2. ASSUME NEW t \in Seq(Seq(Byte))
      PROVE  TakenLines(t) \in Seq(Seq(Wide))
  <2>1. ASSUME NEW l \in 1 .. Len(t)
        PROVE  Append(t[l], <<l, 0>>) \in Seq(Wide)
    <3>1. t[l] \in Seq(Byte)
      OBVIOUS
    <3>2. t[l] \in Seq(Wide) /\ <<l, 0>> \in Wide
      BY <3>1, ByteIsWide DEF Wide
    <3> QED
      BY <3>2
  <2>2. Len(t) \in Nat
    OBVIOUS
  <2> QED
    BY <2>1, <2>2 DEF TakenLines
<1> QED
  BY <1>1, <1>2

LEMMA WrittenAppend ==
  ASSUME TypeOK, TypeOK', NEW n \in Lengths, wrote' = Append(wrote, n), cut = 0, cut' = 0
  PROVE  Written' = Written \o Line(Len(wrote) + 1, n)
<1> DEFINE l    == Len(wrote) + 1
           part == Line(l, n)
           old  == WrittenLines(wrote)
           new  == WrittenLines(wrote')
<1>1. /\ Len(wrote) \in Nat /\ l \in Nat /\ n \in Nat
      /\ Len(wrote') = l /\ wrote'[l] = n /\ \A i \in 1 .. Len(wrote) : wrote'[i] = wrote[i]
  BY SizesAre DEF TypeOK
<1>2. part \in Seq(Wide) /\ old \in Seq(Seq(Wide)) /\ new \in Seq(Seq(Wide))
  <2>1. part \in Seq(Wide)
    BY <1>1, LineIsWide
  <2>2. old \in Seq(Seq(Wide)) /\ new \in Seq(Seq(Wide))
    BY LinesTypes, Zenon DEF TypeOK
  <2> QED
    BY <2>1, <2>2
<1>3. /\ Len(old) = Len(wrote) /\ Len(new) = l /\ new[l] = part
      /\ \A i \in 1 .. Len(wrote) : new[i] = old[i]
  BY <1>1 DEF WrittenLines
<1>4. new = Append(old, part)
  <2> HIDE DEF new, old, part
  <2>1. /\ Append(old, part) \in Seq(Seq(Wide)) /\ Len(Append(old, part)) = l
        /\ \A i \in 1 .. l : Append(old, part)[i] = IF i = l THEN part ELSE old[i]
    BY <1>1, <1>2, <1>3
  <2>2. \A i \in 1 .. l : new[i] = Append(old, part)[i]
    BY <1>1, <1>3, <2>1
  <2> QED
    BY <1>2, <1>3, <2>1, <2>2, SeqEqual
<1>5. Written = FlattenSeq(old) \o <<>> /\ Written' = FlattenSeq(new) \o <<>>
  <2>1. [j \in 1 .. 0 |-> <<Len(wrote) + 1, j>>] = <<>> /\ [j \in 1 .. 0 |-> <<Len(wrote') + 1, j>>] = <<>>
    OBVIOUS
  <2> QED
    BY <2>1, Zenon DEF Written, WrittenLines
<1> HIDE DEF part, old, new
<1>6. FlattenSeq(new) = FlattenSeq(old) \o part
  BY <1>2, <1>4, FlattenAppend
<1>7. FlattenSeq(old) \in Seq(Wide) /\ FlattenSeq(new) \in Seq(Wide)
  BY <1>2, FlattenType
<1>8. Written = FlattenSeq(old) /\ Written' = FlattenSeq(new)
  BY <1>5, <1>7, ConcatEmptySeq
<1> QED
  BY <1>6, <1>8 DEF part

LEMMA WrittenCut ==
  ASSUME TypeOK, wrote' = wrote, cut = 0, NEW r \in Nat, cut' = r
  PROVE  Written' = Written \o [j \in 1 .. r |-> <<Len(wrote) + 1, j>>]
<1> DEFINE old == WrittenLines(wrote)
<1>1. Written' = FlattenSeq(old) \o [j \in 1 .. r |-> <<Len(wrote) + 1, j>>]
  BY Zenon DEF Written, WrittenLines
<1>2. Written = FlattenSeq(old) \o <<>>
  <2>1. [j \in 1 .. 0 |-> <<Len(wrote) + 1, j>>] = <<>>
    OBVIOUS
  <2> QED
    BY <2>1, Zenon DEF Written, WrittenLines
<1>3. FlattenSeq(old) \in Seq(Wide)
  <2>1. old \in Seq(Seq(Wide))
    BY LinesTypes, Zenon DEF TypeOK
  <2> HIDE DEF old
  <2> QED
    BY <2>1, FlattenType
<1> HIDE DEF old
<1>4. Written = FlattenSeq(old)
  BY <1>2, <1>3, ConcatEmptySeq
<1> QED
  BY <1>1, <1>4

LEMMA TakenAppend ==
  ASSUME TypeOK, TypeOK', NEW n \in Nat, logged' = Append(logged, Text(Len(logged) + 1, n))
  PROVE  Taken' = Taken \o Line(Len(logged) + 1, n)
<1> DEFINE l    == Len(logged) + 1
           text == Text(l, n)
           part == Line(l, n)
           old  == TakenLines(logged)
           new  == TakenLines(logged')
<1>1. /\ Len(logged) \in Nat /\ l \in Nat
      /\ part \in Seq(Wide) /\ old \in Seq(Seq(Wide)) /\ new \in Seq(Seq(Wide))
  <2>1. Len(logged) \in Nat /\ l \in Nat
    BY DEF TypeOK
  <2>2. part \in Seq(Wide)
    BY <2>1, LineIsWide
  <2>3. old \in Seq(Seq(Wide)) /\ new \in Seq(Seq(Wide))
    BY LinesTypes, Zenon DEF TypeOK
  <2> QED
    BY <2>1, <2>2, <2>3
<1>2. part = Append(text, <<l, 0>>)
  BY DEF Line
<1>3. Len(logged') = l /\ logged'[l] = text /\ \A i \in 1 .. Len(logged) : logged'[i] = logged[i]
  <2> HIDE DEF text
  <2>1. logged \in Seq(Seq(Byte)) /\ logged' = Append(logged, text)
    BY DEF TypeOK, text
  <2> QED
    BY <2>1
<1> HIDE DEF text, part
<1>4. /\ Len(old) = Len(logged) /\ Len(new) = l /\ new[l] = part
      /\ \A i \in 1 .. Len(logged) : new[i] = old[i]
  <2>1. Len(old) = Len(logged) /\ Len(new) = l
    BY <1>1, <1>3 DEF TakenLines
  <2>2. new[l] = part
    <3>1. l \in 1 .. Len(logged')
      BY <1>1, <1>3
    <3>2. new[l] = Append(logged'[l], <<l, 0>>)
      BY <3>1, Zenon DEF TakenLines
    <3> QED
      BY <1>2, <1>3, <3>2, Zenon
  <2>3. ASSUME NEW i \in 1 .. Len(logged)
        PROVE  new[i] = old[i]
    <3>1. i \in 1 .. Len(logged')
      BY <1>1, <1>3
    <3>2. new[i] = Append(logged'[i], <<i, 0>>) /\ old[i] = Append(logged[i], <<i, 0>>)
      BY <3>1, Zenon DEF TakenLines
    <3> QED
      BY <1>3, <3>2, Zenon
  <2> QED
    BY <2>1, <2>2, <2>3
<1>5. new = Append(old, part)
  <2> HIDE DEF new, old
  <2>1. /\ Append(old, part) \in Seq(Seq(Wide)) /\ Len(Append(old, part)) = l
        /\ \A i \in 1 .. l : Append(old, part)[i] = IF i = l THEN part ELSE old[i]
    BY <1>1, <1>4
  <2>2. \A i \in 1 .. l : new[i] = Append(old, part)[i]
    BY <1>1, <1>4, <2>1
  <2> QED
    BY <1>1, <1>4, <2>1, <2>2, SeqEqual
<1>6. Taken = FlattenSeq(old) /\ Taken' = FlattenSeq(new)
  BY Zenon DEF Taken, TakenLines
<1> HIDE DEF old, new
<1> QED
  BY <1>1, <1>5, <1>6, FlattenAppend DEF part

\* What has been written is what has been taken, and the rest.
Conserved == Written = Taken \o Rest

LEMMA ConservedIs ==
  ASSUME TypeOK, Conserved
  PROVE  NothingLostInBuffer
<1> DEFINE front == [j \in 1 .. waiting |-> buffer[j - 1]]
           taken == Taken
<1>1. Rest = front \o stream
  BY RestIs, Zenon DEF Rest, TypeOK
<1>2. front \in Seq(Wide) /\ stream \in Seq(Wide)
  <2>1. \A j \in 1 .. waiting : buffer[j - 1] \in Byte
    BY SizesAre DEF TypeOK
  <2>2. front \in Seq(Byte) /\ stream \in Seq(Byte)
    BY <2>1 DEF TypeOK
  <2> QED
    BY <2>2, ByteIsWide
<1>3. taken \in Seq(Wide)
  <2>1. taken = FlattenSeq(TakenLines(logged))
    BY Zenon DEF Taken, TakenLines
  <2> QED
    BY <2>1, LinesTypes, FlattenType DEF TypeOK
<1>4. (taken \o front) \o stream = taken \o (front \o stream)
  <2> HIDE DEF taken, front
  <2> QED
    BY <1>2, <1>3, ConcatAssociative
<1>5. Written = (taken \o front) \o stream
  BY <1>1, <1>4, Zenon DEF Conserved
<1> QED
  BY <1>5, Zenon DEF NothingLostInBuffer

LEMMA TakenIs ==
  ASSUME TypeOK
  PROVE  Taken \in Seq(Wide) /\ Rest \in Seq(Wide)
<1>1. Taken \in Seq(Wide)
  <2>1. Taken = FlattenSeq(TakenLines(logged)) /\ TakenLines(logged) \in Seq(Seq(Wide))
    BY LinesTypes, Zenon DEF Taken, TakenLines, TypeOK
  <2> QED
    BY <2>1, FlattenType
<1>2. Rest \in Seq(Byte)
  BY RestIs, Zenon DEF Rest, TypeOK
<1> QED
  BY <1>1, <1>2, ByteIsWide, Zenon

\* What is written is not taken yet.
LEMMA WroteConserved ==
  ASSUME Place, TypeOK', Conserved, NEW part, Wrote(part), Written' = Written \o part, Taken' = Taken
  PROVE  Conserved'
<1> DEFINE taken == Taken
           rest  == Rest
<1>1. taken \in Seq(Wide) /\ rest \in Seq(Wide) /\ part \in Seq(Wide)
  BY TakenIs, ByteIsWide DEF Place, Wrote
<1>2. (taken \o rest) \o part = taken \o (rest \o part)
  <2> HIDE DEF taken, rest
  <2> QED
    BY <1>1, ConcatAssociative, SMTT(30)
<1>3. Rest' = rest \o part
  BY WroteRest DEF Place
<1> QED
  BY <1>2, <1>3, Zenon DEF Conserved

\* A sequence is a front of it and what is left behind that.
LEMMA FrontIs ==
  ASSUME NEW T, NEW rest \in Seq(T), NEW line \in Seq(T), NEW left \in Seq(T),
         Len(rest) = Len(line) + Len(left),
         \A k \in 1 .. Len(line) : rest[k] = line[k],
         \A k \in 1 .. Len(left) : left[k] = rest[k + Len(line)]
  PROVE  rest = line \o left
<1>1. /\ line \o left \in Seq(T) /\ Len(line \o left) = Len(line) + Len(left)
      /\ \A k \in 1 .. Len(line) + Len(left) :
           (line \o left)[k] = IF k <= Len(line) THEN line[k] ELSE left[k - Len(line)]
  BY ConcatProperties
<1>2. ASSUME NEW k \in 1 .. Len(rest)
      PROVE  rest[k] = (line \o left)[k]
  <2>1. /\ Len(line) \in Nat /\ Len(left) \in Nat /\ k \in 1 .. Len(line) + Len(left)
        /\ (line \o left)[k] = IF k <= Len(line) THEN line[k] ELSE left[k - Len(line)]
    BY <1>1
  <2>2. CASE k <= Len(line)
    <3>1. k \in 1 .. Len(line)
      BY <2>1, <2>2
    <3> QED
      BY <2>1, <2>2, <3>1
  <2>3. CASE ~ (k <= Len(line))
    <3>1. k - Len(line) \in 1 .. Len(left) /\ (k - Len(line)) + Len(line) = k
      BY <2>1, <2>3
    <3>2. left[k - Len(line)] = rest[(k - Len(line)) + Len(line)]
      BY <3>1, Zenon
    <3> QED
      BY <2>1, <2>3, <3>1, <3>2
  <2> QED
    BY <2>2, <2>3
<1> QED
  BY <1>1, <1>2, SeqEqual

\* What is taken is the front of what had not been.
LEMMA ReadLineConserved ==
  ASSUME Place, TypeOK', Conserved, ReadLine, pc' # "crashed"
  PROVE  Conserved'
<1> DEFINE l     == Len(logged) + 1
           taken == Taken
           rest  == Rest
           left  == Rest'
<1>1. PICK eol \in Nat :
        /\ logged' = Append(logged, Text(l, eol))
        /\ Len(rest) = (eol + 1) + Len(left)
        /\ \A k \in 1 .. eol : rest[k] = <<l, k>>
        /\ rest[eol + 1] = <<l, 0>>
        /\ \A k \in 1 .. Len(left) : left[k] = rest[k + (eol + 1)]
        /\ UNCHANGED <<link, wrote, cut>> /\ l <= Len(wrote)
  BY ReadLineRest, Zenon DEF Place
<1> DEFINE line == Line(l, eol)
<1>2. taken \in Seq(Wide) /\ rest \in Seq(Wide)
  BY TakenIs DEF Place
<1>3. left \in Seq(Wide)
  <2>1. left \in Seq(Byte)
    <3>1. /\ buffer' \in [0 .. BufSize - 1 -> Byte] /\ waiting' \in 0 .. BufSize /\ stream' \in Seq(Byte)
          /\ left = RestOf(buffer', waiting', stream')
      BY Zenon DEF Rest, TypeOK
    <3> QED
      BY <3>1, RestIs, Zenon
  <2> QED
    BY <2>1, ByteIsWide, Zenon
<1>4. Written' = Written
  BY <1>1 DEF Written
<1>5. Taken' = taken \o line
  BY <1>1, TakenAppend, Zenon DEF Place
<1>6. l \in Nat
  BY DEF Place, TypeOK
<1>7. line \in Seq(Wide) /\ Len(line) = eol + 1 /\ line[eol + 1] = <<l, 0>> /\ \A k \in 1 .. eol : line[k] = <<l, k>>
  <2>1. line \in Seq(Wide)
    BY <1>6, LineIsWide
  <2>2. Text(l, eol) \in Seq(Wide) /\ Len(Text(l, eol)) = eol /\ \A k \in 1 .. eol : Text(l, eol)[k] = <<l, k>>
    <3>1. \A j \in Nat : <<l, j>> \in Wide
      BY <1>6 DEF Wide
    <3> QED
      BY <3>1 DEF Text
  <2>3. <<l, 0>> \in Wide
    BY <1>6 DEF Wide
  <2> DEFINE text == Text(l, eol)
  <2>4. line = Append(text, <<l, 0>>)
    BY DEF Line
  <2> HIDE DEF line, text
  <2>5. Len(line) = eol + 1 /\ line[eol + 1] = <<l, 0>> /\ \A k \in 1 .. eol : line[k] = text[k]
    <3>1. text \in Seq(Wide) /\ Len(text) = eol
      BY <2>2 DEF text
    <3> QED
      BY <2>3, <2>4, <3>1
  <2> QED
    BY <2>1, <2>2, <2>5 DEF text
<1> HIDE DEF line, rest, left, taken
<1>8. /\ taken \in Seq(Wide) /\ rest \in Seq(Wide) /\ left \in Seq(Wide) /\ line \in Seq(Wide)
      /\ Len(rest) = Len(line) + Len(left)
      /\ \A k \in 1 .. Len(left) : left[k] = rest[k + Len(line)]
  BY <1>1, <1>2, <1>3, <1>7, Zenon
<1>9. ASSUME NEW k \in 1 .. Len(line)
      PROVE  rest[k] = line[k]
  <2>1. k \in 1 .. eol \/ k = eol + 1
    BY <1>7
  <2> QED
    BY <1>1, <1>7, <2>1
<1>10. taken \o rest = (taken \o line) \o left
  <2>1. \A k \in 1 .. Len(line) : rest[k] = line[k]
    BY <1>9
  <2>2. taken \in Seq(Wide) /\ rest \in Seq(Wide) /\ left \in Seq(Wide) /\ line \in Seq(Wide)
    BY <1>8, Zenon
  <2>3. rest = line \o left
    BY <1>8, <2>1, <2>2, FrontIs
  <2>4. (taken \o line) \o left = taken \o (line \o left)
    BY <2>2, ConcatAssociative, SMTT(30)
  <2> QED
    BY <2>3, <2>4
<1>11. Written = taken \o rest
  BY Zenon DEF Conserved, taken, rest
<1> QED
  BY <1>4, <1>5, <1>10, <1>11, Zenon DEF Conserved, left

LEMMA ConservedInit ==
  Init => Conserved
<1> SUFFICES ASSUME Init
             PROVE  Conserved
  OBVIOUS
<1>1. TypeOK
  BY TypeInit
<1>2. logged = <<>> /\ wrote = <<>> /\ cut = 0 /\ waiting = 0 /\ stream = <<>>
  BY DEF Init
<1>3. WrittenLines(wrote) = <<>> /\ TakenLines(logged) = <<>>
  BY <1>2 DEF WrittenLines, TakenLines
<1>4. Taken = <<>>
  BY <1>3, FlattenEmpty, Zenon DEF Taken, TakenLines
<1>5. Written = <<>> \o <<>>
  <2>1. [j \in 1 .. 0 |-> <<Len(wrote) + 1, j>>] = <<>>
    OBVIOUS
  <2> QED
    BY <1>2, <1>3, <2>1, FlattenEmpty, Zenon DEF Written, WrittenLines
<1>6. Rest = <<>>
  <2>1. Rest \in Seq(Byte) /\ Len(Rest) = waiting + Len(stream)
    BY <1>1, RestIs, Zenon DEF Rest, TypeOK
  <2>2. Len(Rest) = 0
    BY <1>2, <2>1
  <2> DEFINE rest == Rest
  <2>3. rest \in Seq(Byte) /\ Len(rest) = 0
    BY <2>1, <2>2
  <2> HIDE DEF rest
  <2>4. rest = <<>>
    BY <2>3
  <2> QED
    BY <2>4 DEF rest
<1> QED
  BY <1>4, <1>5, <1>6, Zenon DEF Conserved

LEMMA ConservedNext ==
  Place /\ Conserved /\ [Next]_vars => Conserved'
<1> SUFFICES ASSUME Place, Conserved, [Next]_vars
             PROVE  Conserved'
  OBVIOUS
<1>1. TypeOK /\ TypeOK' /\ InPlace /\ CutIsLast
  BY TypeNext DEF Place
<1>2. ASSUME NEW n \in Lengths, WriteLine(n)
      PROVE  Conserved'
  <2>1. wrote' = Append(wrote, n) /\ link = "open" /\ UNCHANGED <<logged, cut>>
    BY <1>2 DEF WriteLine, client
  <2>2. cut = 0 /\ cut' = 0
    BY <1>1, <2>1 DEF CutIsLast
  <2>3. Written' = Written \o Line(Len(wrote) + 1, n)
    BY <1>1, <2>1, <2>2, WrittenAppend
  <2>4. Taken' = Taken
    BY <2>1 DEF Taken
  <2> QED
    BY <1>1, <1>2, <2>3, <2>4, WriteLineWrites, WroteConserved
<1>3. ASSUME NEW n \in Lengths, WritePart(n)
      PROVE  Conserved'
  <2>1. wrote' = wrote /\ link = "open" /\ logged' = logged /\ cut' = Room /\ Room \in Nat
    BY <1>1, <1>3, SizesAre DEF WritePart, client, Room, TypeOK
  <2>2. cut = 0
    BY <1>1, <2>1 DEF CutIsLast
  <2>3. Written' = Written \o [j \in 1 .. Room |-> <<Len(wrote) + 1, j>>]
    BY <1>1, <2>1, <2>2, WrittenCut
  <2>4. Taken' = Taken
    BY <2>1 DEF Taken
  <2>5. Written' = Written \o SubSeq(Line(Len(wrote) + 1, n), 1, Room)
    BY <1>1, <1>3, <2>3, WritePartWrites, Zenon
  <2> QED
    BY <1>1, <1>3, <2>4, <2>5, WritePartWrites, WroteConserved
<1>4. ASSUME Rest' = Rest, UNCHANGED <<logged, wrote, cut>>
      PROVE  Conserved'
  <2>1. Written' = Written /\ Taken' = Taken
    BY <1>4 DEF Written, Taken
  <2> QED
    BY <1>4, <2>1 DEF Conserved
<1>5. CASE \/ \E end \in {"fin", "reset"} : DaemonEnds(end)
           \/ Open \/ Wait \/ RecvNothing \/ RecvEnd \/ Timeout \/ UNCHANGED vars
  <2>1. UNCHANGED <<buffer, waiting, logged, stream, wrote, cut>>
    BY <1>5 DEF DaemonEnds, Open, Wait, RecvNothing, RecvEnd, Timeout, client, daemon, vars
  <2>2. Rest' = Rest
    BY <2>1 DEF Rest
  <2> QED
    BY <1>4, <2>1, <2>2
<1>6. CASE Recv
  <2>1. UNCHANGED <<logged, wrote, cut>>
    BY <1>6 DEF Recv, daemon
  <2> QED
    BY <1>1, <1>4, <1>6, <2>1, RecvRest
<1>7. CASE ReadLine
  <2>1. CASE pc' = "crashed"
    <3>1. UNCHANGED <<buffer, waiting, logged, stream, wrote, cut>>
      BY <1>7, <2>1 DEF ReadLine, daemon
    <3>2. Rest' = Rest
      BY <3>1 DEF Rest
    <3> QED
      BY <1>4, <3>1, <3>2
  <2>2. CASE pc' # "crashed"
    BY <1>1, <1>7, <2>2, ReadLineConserved
  <2> QED
    BY <2>1, <2>2
<1> QED
  BY <1>2, <1>3, <1>5, <1>6, <1>7, Zenon DEF Next, Daemon, Thread

\* However recv cuts the stream: what gpsd has written is the lines that have been
\* logged, each whole and in its turn, and then what is in the buffer and on its
\* way.  Nothing is lost, doubled or out of order.
THEOREM NothingLost == Spec => []NothingLostInBuffer
<1>1. Place /\ Conserved => NothingLostInBuffer
  BY ConservedIs DEF Place
<1>2. Init => Place /\ Conserved
  BY PlaceInit, ConservedInit
<1>3. (Place /\ Conserved) /\ [Next]_vars => (Place /\ Conserved)'
  BY PlaceNext, ConservedNext
<1> QED
  BY <1>1, <1>2, <1>3, PTL DEF Spec

-----------------------------------------------------------------------------
(* A text that is logged is the whole line.                                 *)

LoggedWhole ==
  /\ Len(logged) <= Len(wrote)
  /\ \A l \in 1 .. Len(logged) : logged[l] = Text(l, wrote[l])

LEMMA LoggedWholeNext ==
  Place /\ LoggedWhole /\ [Next]_vars => LoggedWhole'
<1> SUFFICES ASSUME Place, LoggedWhole, [Next]_vars
             PROVE  LoggedWhole'
  OBVIOUS
<1>1. TypeOK /\ TypeOK' /\ InPlace
  BY TypeNext DEF Place
<1>2. Len(wrote) \in Nat /\ Len(logged) \in Nat
  BY <1>1 DEF TypeOK
<1>3. CASE UNCHANGED <<logged, wrote>>
  BY <1>3 DEF LoggedWhole
<1>4. ASSUME NEW n \in Lengths, WriteLine(n)
      PROVE  LoggedWhole'
  <2>1. logged' = logged /\ wrote' = Append(wrote, n)
    BY <1>4 DEF WriteLine, client
  <2>2. Len(wrote') = Len(wrote) + 1 /\ \A l \in 1 .. Len(wrote) : wrote'[l] = wrote[l]
    BY <1>1, <2>1 DEF TypeOK
  <2> QED
    BY <1>2, <2>1, <2>2 DEF LoggedWhole
<1>5. ASSUME ReadLine, pc' # "crashed"
      PROVE  LoggedWhole'
  <2> DEFINE k == Len(logged) + 1
  <2>1. PICK eol \in Nat :
          /\ k <= Len(wrote) /\ wrote[k] = eol /\ logged' = Append(logged, Text(k, eol))
          /\ UNCHANGED <<link, wrote, cut>>
    BY <1>1, <1>5, ReadLineRest, Zenon
  <2> DEFINE text == Text(k, eol)
  <2>2. logged' = Append(logged, text)
    BY <2>1
  <2> HIDE DEF text
  <2>3. Len(logged') = k /\ logged'[k] = text /\ \A l \in 1 .. Len(logged) : logged'[l] = logged[l]
    BY <1>1, <2>2 DEF TypeOK
  <2>4. ASSUME NEW l \in 1 .. k
        PROVE  logged'[l] = Text(l, wrote[l])
    <3>1. CASE l = k
      BY <2>1, <2>3, <3>1 DEF text
    <3>2. CASE l # k
      <4>1. l \in 1 .. Len(logged)
        BY <1>2, <3>2
      <4> QED
        BY <2>3, <4>1 DEF LoggedWhole
    <3> QED
      BY <3>1, <3>2
  <2> QED
    BY <2>1, <2>3, <2>4 DEF LoggedWhole
<1>6. CASE ReadLine /\ pc' = "crashed"
  BY <1>3, <1>6 DEF ReadLine, daemon
<1>7. CASE \/ \E n \in Lengths : WritePart(n)
           \/ \E end \in {"fin", "reset"} : DaemonEnds(end)
           \/ Open \/ Wait \/ Recv \/ RecvNothing \/ RecvEnd \/ Timeout \/ UNCHANGED vars
  <2>1. UNCHANGED <<logged, wrote>>
    BY <1>7 DEF WritePart, DaemonEnds, Open, Wait, Recv, RecvNothing, RecvEnd, Timeout, client, daemon, vars
  <2> QED
    BY <1>3, <2>1
<1> QED
  BY <1>4, <1>5, <1>6, <1>7, Zenon DEF Next, Daemon, Thread

\* A text that is given to conditionally_log_fix is a line as gpsd has written
\* it, from its first byte to its last: it is never a part of one, and never two
\* of them in one.
THEOREM LinesAreWhole == Spec => []LoggedWhole
<1>1. Init => LoggedWhole
  <2> SUFFICES ASSUME Init
               PROVE  LoggedWhole
    OBVIOUS
  <2>1. logged = <<>> /\ wrote = <<>>
    BY DEF Init
  <2> QED
    BY <2>1 DEF LoggedWhole
<1> QED
  BY <1>1, PlaceInit, PlaceNext, LoggedWholeNext, PTL DEF Spec
=============================================================================
