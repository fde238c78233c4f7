----------------------------- MODULE LexerProof -----------------------------
(* Proofs about Lexer, for any pieces that a device may send, any size of    *)
(* the buffer and any length of the shortest object.                         *)
EXTENDS Lexer, SequenceTheorems, WellFoundedInduction, TLAPS

-----------------------------------------------------------------------------
(* A sequence of sequences put together, and one more of them.               *)

\* What holds of all smaller numbers and so of the next holds of all numbers:
\* else there is a least one of which it does not.
LEMMA Least ==
  ASSUME NEW S \in SUBSET Nat, S # {}
  PROVE  \E x \in S : \A y \in S : x <= y
<1>1. PICK x \in S : \A y \in S : ~ (<<y, x>> \in OpToRel(<, Nat))
  BY NatLessThanWellFounded, WFMin
<1>2. OpToRel(<, Nat) = { ss \in Nat \X Nat : ss[1] < ss[2] }
  BY Zenon DEF OpToRel
<1>3. \A y \in S : x <= y
  <2> SUFFICES ASSUME NEW y \in S, y < x
               PROVE  FALSE
    OBVIOUS
  <2>1. <<y, x>> \in Nat \X Nat /\ <<y, x>>[1] = y /\ <<y, x>>[2] = x
    OBVIOUS
  <2>2. <<y, x>> \in { ss \in Nat \X Nat : ss[1] < ss[2] }
    BY <2>1
  <2> QED
    BY <1>1, <1>2, <2>2, Zenon
<1> QED
  BY <1>3

\* g[i] is the first i sequences of s put together, for i up to n.
Joins(g, s, n) == g = [i \in 1 .. n |-> IF i = 1 THEN s[i] ELSE g[i - 1] \o s[i]]

LEMMA JoinsExist ==
  ASSUME NEW s, NEW n \in Nat
  PROVE  \E g : Joins(g, s, n)
<1> DEFINE Bad == {m \in Nat : ~ \E g : Joins(g, s, m)}
<1>1. SUFFICES Bad = {}
  OBVIOUS
<1>2. SUFFICES ASSUME Bad # {}
               PROVE  FALSE
  OBVIOUS
<1>3. PICK m \in Bad : \A k \in Bad : m <= k
  <2>1. Bad \in SUBSET Nat
    OBVIOUS
  <2> HIDE DEF Bad
  <2> QED
    BY <1>2, <2>1, Least
<1>4. m # 0
  <2>1. Joins([i \in 1 .. 0 |-> s[i]], s, 0)
    BY DEF Joins
  <2> QED
    BY <2>1
<1>5. m - 1 \in Nat /\ m - 1 \notin Bad
  BY <1>3, <1>4
<1>6. PICK g : Joins(g, s, m - 1)
  BY <1>5
<1> DEFINE h == [i \in 1 .. m |-> IF i < m THEN g[i] ELSE IF m = 1 THEN s[m] ELSE g[m - 1] \o s[m]]
<1>7. Joins(h, s, m)
  <2>1. \A i \in 1 .. m - 1 : g[i] = IF i = 1 THEN s[i] ELSE g[i - 1] \o s[i]
    BY <1>6, Zenon DEF Joins
  <2>2. ASSUME NEW i \in 1 .. m
        PROVE  h[i] = IF i = 1 THEN s[i] ELSE h[i - 1] \o s[i]
    <3>1. CASE i = m
      BY <1>5, <3>1
    <3>2. CASE i < m
      <4>1. i \in 1 .. m - 1 /\ h[i] = g[i]
        BY <1>5, <3>2
      <4>2. i # 1 => h[i - 1] = g[i - 1]
        BY <1>5, <3>2
      <4> QED
        BY <2>1, <4>1, <4>2
    <3> QED
      BY <1>5, <3>1, <3>2
  <2> QED
    BY <2>2 DEF Joins
<1> QED
  BY <1>7

LEMMA JoinsAt ==
  ASSUME NEW g, NEW s, NEW n \in Nat, Joins(g, s, n), NEW i \in 1 .. n
  PROVE  g[i] = IF i = 1 THEN s[i] ELSE g[i - 1] \o s[i]
BY Zenon DEF Joins

\* The first i sequences do not depend on those behind them.
LEMMA JoinsAgree ==
  ASSUME NEW g, NEW h, NEW s, NEW t, NEW n \in Nat, NEW m \in Nat, n <= m,
         Joins(g, s, n), Joins(h, t, m), \A i \in 1 .. n : t[i] = s[i]
  PROVE  \A i \in 1 .. n : g[i] = h[i]
<1> DEFINE Bad == {i \in 1 .. n : g[i] # h[i]}
<1>1. SUFFICES ASSUME Bad # {}
               PROVE  FALSE
  OBVIOUS
<1>2. PICK i \in Bad : \A k \in Bad : i <= k
  <2>1. Bad \in SUBSET Nat
    OBVIOUS
  <2> HIDE DEF Bad
  <2> QED
    BY <1>1, <2>1, Least
<1>3. i \in 1 .. n /\ i \in 1 .. m /\ g[i] # h[i]
  OBVIOUS
<1>4. g[i] = IF i = 1 THEN s[i] ELSE g[i - 1] \o s[i]
  BY <1>3, JoinsAt
<1>5. h[i] = IF i = 1 THEN t[i] ELSE h[i - 1] \o t[i]
  BY <1>3, JoinsAt
<1>6. i # 1 => g[i - 1] = h[i - 1]
  BY <1>2, <1>3
<1> QED
  BY <1>3, <1>4, <1>5, <1>6

LEMMA JoinsType ==
  ASSUME NEW T, NEW s \in Seq(Seq(T)), NEW g, NEW n \in Nat, n <= Len(s), Joins(g, s, n)
  PROVE  \A i \in 1 .. n : g[i] \in Seq(T)
<1> DEFINE Bad == {i \in 1 .. n : g[i] \notin Seq(T)}
<1>1. SUFFICES ASSUME Bad # {}
               PROVE  FALSE
  OBVIOUS
<1>2. PICK i \in Bad : \A k \in Bad : i <= k
  <2>1. Bad \in SUBSET Nat
    OBVIOUS
  <2> HIDE DEF Bad
  <2> QED
    BY <1>1, <2>1, Least
<1>3. i \in 1 .. n /\ g[i] \notin Seq(T) /\ s[i] \in Seq(T)
  OBVIOUS
<1>4. g[i] = IF i = 1 THEN s[i] ELSE g[i - 1] \o s[i]
  BY <1>3, JoinsAt
<1>5. i # 1 => g[i - 1] \in Seq(T)
  BY <1>2, <1>3
<1>6. i # 1 => g[i - 1] \o s[i] \in Seq(T)
  BY <1>3, <1>5
<1> QED
  BY <1>3, <1>4, <1>6

LEMMA FlattenIs ==
  ASSUME NEW T, NEW s \in Seq(T), s # <<>>
  PROVE  \E g : Joins(g, s, Len(s)) /\ FlattenSeq(s) = g[Len(s)]
<1> DEFINE g == CHOOSE f : f = [i \in 1 .. Len(s) |-> IF i = 1 THEN s[i] ELSE f[i - 1] \o s[i]]
<1>1. FlattenSeq(s) = IF Len(s) = 0 THEN s ELSE g[Len(s)]
  BY Zenon DEF FlattenSeq
<1>2. Len(s) \in Nat /\ Len(s) # 0
  OBVIOUS
<1>3. Joins(g, s, Len(s))
  <2>1. \E f : Joins(f, s, Len(s))
    BY <1>2, JoinsExist
  <2> QED
    BY <2>1, Zenon DEF Joins
<1> QED
  BY <1>1, <1>2, <1>3

LEMMA FlattenEmpty ==
  FlattenSeq(<<>>) = <<>>
BY DEF FlattenSeq

LEMMA FlattenType ==
  ASSUME NEW T, NEW s \in Seq(Seq(T))
  PROVE  FlattenSeq(s) \in Seq(T)
<1>1. CASE s = <<>>
  <2>1. FlattenSeq(s) = <<>>
    BY <1>1, FlattenEmpty, Zenon
  <2> QED
    BY <2>1
<1>2. CASE s # <<>>
  <2>1. PICK g : Joins(g, s, Len(s)) /\ FlattenSeq(s) = g[Len(s)]
    BY <1>2, FlattenIs
  <2>2. Len(s) \in Nat /\ Len(s) \in 1 .. Len(s)
    BY <1>2
  <2>3. \A i \in 1 .. Len(s) : g[i] \in Seq(T)
    <3>1. Len(s) <= Len(s)
      BY <2>2
    <3> QED
      BY <2>1, <2>2, <3>1, JoinsType, Zenon
  <2> QED
    BY <2>1, <2>2, <2>3
<1> QED
  BY <1>1, <1>2

LEMMA FlattenAppend ==
  ASSUME NEW T, NEW s \in Seq(Seq(T)), NEW e \in Seq(T)
  PROVE  FlattenSeq(Append(s, e)) = FlattenSeq(s) \o e
<1> DEFINE t == Append(s, e)
           n == Len(s)
<1>1. /\ t \in Seq(Seq(T)) /\ Len(t) = n + 1 /\ t # <<>> /\ n \in Nat
      /\ t[n + 1] = e /\ \A i \in 1 .. n : t[i] = s[i]
  <2>1. /\ t \in Seq(Seq(T)) /\ Len(t) = n + 1 /\ n \in Nat
        /\ t[n + 1] = e /\ \A i \in 1 .. n : t[i] = s[i]
    BY AppendProperties
  <2> HIDE DEF t
  <2>2. t # <<>>
    BY <2>1
  <2> QED
    BY <2>1, <2>2
<1> HIDE DEF t
<1>2. PICK h : Joins(h, t, n + 1) /\ FlattenSeq(t) = h[n + 1]
  BY <1>1, FlattenIs
<1>3. h[n + 1] = IF n + 1 = 1 THEN t[n + 1] ELSE h[n + 1 - 1] \o t[n + 1]
  BY <1>1, <1>2, JoinsAt
<1>4. CASE s = <<>>
  BY <1>1, <1>2, <1>3, <1>4, FlattenEmpty DEF t
<1>5. CASE s # <<>>
  <2>1. PICK g : Joins(g, s, n) /\ FlattenSeq(s) = g[n]
    BY <1>5, FlattenIs
  <2>2. \A i \in 1 .. n : g[i] = h[i]
    <3>1. n \in Nat /\ n + 1 \in Nat /\ n <= n + 1 /\ \A i \in 1 .. n : t[i] = s[i]
      BY <1>1
    <3>2. Joins(g, s, n) /\ Joins(h, t, n + 1)
      BY <1>2, <2>1
    <3> HIDE DEF n
    <3> QED
      BY <3>1, <3>2, JoinsAgree
  <2>3. n # 0 /\ n + 1 - 1 = n /\ n \in 1 .. n
    BY <1>1, <1>5
  <2>4. h[n + 1] = h[n] \o e
    BY <1>1, <1>3, <2>3
  <2> QED
    BY <1>2, <2>1, <2>2, <2>3, <2>4 DEF t
<1> QED
  BY <1>4, <1>5

-----------------------------------------------------------------------------
(* Where nextstate goes.                                                    *)

TextStates ==
  {"GROUND", "COMMENT_BODY", "NMEA_DOLLAR", "NMEA_PUB_LEAD", "NMEA_VENDOR_LEAD", "NMEA_PASHR_A",
   "SIRF_ACK_LEAD_1", "SEATALK_LEAD_1", "NMEA_BANG",
   "AIS_LEAD_1", "AIS_LEAD_2", "NMEA_LEADER_END", "NMEA_CR", "NMEA_RECOGNIZED",
   "GEOSTAR_LEADER_1", "ASTRAL_1"}

LEMMA StatesAre ==
  DOMAIN Moves = TextStates \union InObject \union {"JSON_LEADER"}
BY DEF Moves, TextStates, InObject

\* All moves of f lead into S.
Into(f, S) == \A c \in DOMAIN f : f[c] \in S

LEMMA IntoOne ==
  ASSUME NEW c, NEW s, NEW S, s \in S
  PROVE  Into(One(c, s), S)
BY DEF Into, One, Same

LEMMA IntoSame ==
  ASSUME NEW C, NEW s, NEW S, s \in S
  PROVE  Into(Same(C, s), S)
BY DEF Into, Same

LEMMA IntoEither ==
  ASSUME NEW f, NEW g, NEW S, Into(f, S), Into(g, S)
  PROVE  Into(f ++ g, S)
BY DEF Into, ++

LEMMA IntoNone ==
  ASSUME NEW S
  PROVE  Into(<<>>, S)
BY DEF Into

\* Text leads to text, as long as nothing is pushed back.
LEMMA TextMoves ==
  ASSUME NEW s \in TextStates
  PROVE  Into(Moves[s], TextStates \union {"COMMENT_RECOGNIZED"})
<1> DEFINE T == TextStates \union {"COMMENT_RECOGNIZED"}
<1>1. \A t \in TextStates : t \in T
  OBVIOUS
<1>2. /\ {"COMMENT_BODY", "NMEA_DOLLAR", "NMEA_BANG", "GEOSTAR_LEADER_1", "ASTRAL_1", "NMEA_PUB_LEAD"} \subseteq T
      /\ {"SEATALK_LEAD_1", "NMEA_LEADER_END", "AIS_LEAD_1", "AIS_LEAD_2", "NMEA_CR"} \subseteq T
      /\ {"NMEA_RECOGNIZED", "COMMENT_RECOGNIZED", "NMEA_VENDOR_LEAD"} \subseteq T
      /\ {"NMEA_PASHR_A", "SIRF_ACK_LEAD_1"} \subseteq T
  BY DEF TextStates
<1> SUFFICES Into(Moves[s], T)
  OBVIOUS
<1> HIDE DEF T
<1>3. Into(Leaders, T)
  BY <1>2, IntoOne, IntoEither DEF Leaders
<1>4. CASE s = "GROUND"
  <2>1. Moves[s] = Leaders ++ One("P", "GEOSTAR_LEADER_1") ++ One("A", "ASTRAL_1")
    BY <1>4 DEF Moves
  <2> QED
    BY <1>2, <1>3, <2>1, IntoOne, IntoSame, IntoEither, IntoNone
<1>5. CASE s = "COMMENT_BODY"
  <2>1. Moves[s] = One("\n", "COMMENT_RECOGNIZED") ++ Same(Printable, "COMMENT_BODY")
    BY <1>5 DEF Moves
  <2> QED
    BY <1>2, <1>3, <2>1, IntoOne, IntoSame, IntoEither, IntoNone
<1>6. CASE s = "NMEA_DOLLAR"
  <2>1. Moves[s] = One("G", "NMEA_PUB_LEAD") ++ One("P", "NMEA_VENDOR_LEAD")
               ++ One("I", "SEATALK_LEAD_1") ++ One("A", "SIRF_ACK_LEAD_1")
    BY <1>6 DEF Moves
  <2> QED
    BY <1>2, <1>3, <2>1, IntoOne, IntoSame, IntoEither, IntoNone
<1>7. CASE s = "NMEA_PUB_LEAD"
  <2>1. Moves[s] = Same({"P"}, "NMEA_LEADER_END")
    BY <1>7 DEF Moves
  <2> QED
    BY <1>2, <1>3, <2>1, IntoOne, IntoSame, IntoEither, IntoNone
<1>8. CASE s = "SEATALK_LEAD_1"
  <2>1. Moves[s] = Same({"I"}, "NMEA_LEADER_END")
    BY <1>8 DEF Moves
  <2> QED
    BY <1>2, <1>3, <2>1, IntoOne, IntoSame, IntoEither, IntoNone
<1>9. CASE s = "NMEA_BANG"
  <2>1. Moves[s] = Same({"A"}, "AIS_LEAD_1")
    BY <1>9 DEF Moves
  <2> QED
    BY <1>2, <1>3, <2>1, IntoOne, IntoSame, IntoEither, IntoNone
<1>10. CASE s = "AIS_LEAD_1"
  <2>1. Moves[s] = Same({"I"}, "AIS_LEAD_2")
    BY <1>10 DEF Moves
  <2> QED
    BY <1>2, <1>3, <2>1, IntoOne, IntoSame, IntoEither, IntoNone
<1>11. CASE s = "AIS_LEAD_2"
  <2>1. Moves[s] = Same(Alphas, "NMEA_LEADER_END")
    BY <1>11 DEF Moves
  <2> QED
    BY <1>2, <1>3, <2>1, IntoOne, IntoSame, IntoEither, IntoNone
<1>12. CASE s = "NMEA_LEADER_END"
  <2>1. Moves[s] = One("\r", "NMEA_CR") ++ One("\n", "NMEA_RECOGNIZED")
               ++ Same(Printable \ {"$"}, "NMEA_LEADER_END")
    BY <1>12 DEF Moves
  <2> QED
    BY <1>2, <1>3, <2>1, IntoOne, IntoSame, IntoEither, IntoNone
<1>13. CASE s = "NMEA_CR"
  <2>1. Moves[s] = One("\n", "NMEA_RECOGNIZED") ++ One("\r", "NMEA_CR")
    BY <1>13 DEF Moves
  <2> QED
    BY <1>2, <1>3, <2>1, IntoOne, IntoSame, IntoEither, IntoNone
<1>14. CASE s = "NMEA_RECOGNIZED"
  <2>1. Moves[s] = Leaders
    BY <1>14 DEF Moves
  <2> QED
    BY <1>2, <1>3, <2>1, IntoOne, IntoSame, IntoEither, IntoNone
<1>15. CASE s = "GEOSTAR_LEADER_1"
  <2>1. Moves[s] = <<>>
    BY <1>15 DEF Moves
  <2> QED
    BY <1>2, <1>3, <2>1, IntoOne, IntoSame, IntoEither, IntoNone
<1>16. CASE s = "ASTRAL_1"
  <2>1. Moves[s] = <<>>
    BY <1>16 DEF Moves
  <2> QED
    BY <1>2, <1>3, <2>1, IntoOne, IntoSame, IntoEither, IntoNone
<1>17. CASE s = "NMEA_VENDOR_LEAD"
  <2>1. Moves[s] = One("A", "NMEA_PASHR_A") ++ Same(Alphas, "NMEA_LEADER_END")
    BY <1>17 DEF Moves
  <2> QED
    BY <1>2, <1>3, <2>1, IntoOne, IntoSame, IntoEither, IntoNone
<1>18. CASE s = "NMEA_PASHR_A"
  <2>1. Moves[s] = Same(Alphas, "NMEA_LEADER_END")
    BY <1>18 DEF Moves
  <2> QED
    BY <1>2, <1>3, <2>1, IntoOne, IntoSame, IntoEither, IntoNone
<1>19. CASE s = "SIRF_ACK_LEAD_1"
  <2>1. Moves[s] = Same({"I"}, "AIS_LEAD_2")
    BY <1>19 DEF Moves
  <2> QED
    BY <1>2, <1>3, <2>1, IntoOne, IntoSame, IntoEither, IntoNone
<1> QED
  BY <1>4, <1>5, <1>6, <1>7, <1>8, <1>9, <1>10, <1>11, <1>12, <1>13, <1>14, <1>15, <1>16,
     <1>17, <1>18, <1>19 DEF TextStates

\* The inside of an object is left where its braces are counted, or by a character
\* that is pushed back or unexpected.
LEMMA InsideMoves ==
  ASSUME NEW s \in InObject
  PROVE  Into(Moves[s], InObject \union {"JSON_LEADER", "json_after"})
<1> DEFINE T == InObject \union {"JSON_LEADER", "json_after"}
<1>1. /\ "JSON_STRINGLITERAL" \in T /\ "JSON_END_ATTRIBUTE" \in T /\ "JSON_EXPECT_VALUE" \in T
      /\ "JSON_NUMBER" \in T /\ "JSON_END_VALUE" \in T /\ "JSON_LEADER" \in T /\ "json_after" \in T
  BY DEF InObject
<1> SUFFICES Into(Moves[s], T)
  OBVIOUS
<1> HIDE DEF T
<1>2. CASE s = "JSON_STRINGLITERAL"
  <2>1. Moves[s] = One("\"", "json_after") ++ Same(Chars, "JSON_STRINGLITERAL")
    BY <1>2 DEF Moves
  <2>2. Into(One("\"", "json_after"), T)
    BY <1>1, IntoOne, Zenon
  <2>3. Into(Same(Chars, "JSON_STRINGLITERAL"), T)
    BY <1>1, IntoSame, Zenon
  <2> QED
    BY <2>1, <2>2, <2>3, IntoEither, Zenon
<1>3. CASE s = "JSON_END_ATTRIBUTE"
  <2>1. Moves[s] = Same(Spaces, "JSON_END_ATTRIBUTE") ++ One(":", "JSON_EXPECT_VALUE")
    BY <1>3 DEF Moves
  <2>2. Into(Same(Spaces, "JSON_END_ATTRIBUTE"), T)
    BY <1>1, IntoSame, Zenon
  <2>3. Into(One(":", "JSON_EXPECT_VALUE"), T)
    BY <1>1, IntoOne, Zenon
  <2> QED
    BY <2>1, <2>2, <2>3, IntoEither, Zenon
<1>4. CASE s = "JSON_EXPECT_VALUE"
  <2>1. Moves[s] = Same(Spaces, "JSON_EXPECT_VALUE") ++ One("\"", "JSON_STRINGLITERAL")
               ++ Same(Digits, "JSON_NUMBER")
    BY <1>4 DEF Moves
  <2>2. Into(Same(Spaces, "JSON_EXPECT_VALUE"), T)
    BY <1>1, IntoSame, Zenon
  <2>3. Into(One("\"", "JSON_STRINGLITERAL"), T)
    BY <1>1, IntoOne, Zenon
  <2>4. Into(Same(Digits, "JSON_NUMBER"), T)
    BY <1>1, IntoSame, Zenon
  <2> QED
    BY <2>1, <2>2, <2>3, <2>4, IntoEither
<1>5. CASE s = "JSON_NUMBER"
  <2>1. Moves[s] = Same(Digits, "JSON_NUMBER")
    BY <1>5 DEF Moves
  <2> QED
    BY <1>1, <2>1, IntoOne, IntoSame, IntoEither, IntoNone
<1>6. CASE s = "JSON_END_VALUE"
  <2>1. Moves[s] = Same(Spaces, "JSON_END_VALUE") ++ One(",", "JSON_LEADER")
    BY <1>6 DEF Moves
  <2>2. Into(Same(Spaces, "JSON_END_VALUE"), T)
    BY <1>1, IntoSame, Zenon
  <2>3. Into(One(",", "JSON_LEADER"), T)
    BY <1>1, IntoOne, Zenon
  <2> QED
    BY <2>1, <2>2, <2>3, IntoEither, Zenon
<1> QED
  BY <1>2, <1>3, <1>4, <1>5, <1>6 DEF InObject

LEMMA LeaderMoves ==
  Into(Moves["JSON_LEADER"], {"JSON_LEADER", "JSON_STRINGLITERAL"})
<1>1. Moves["JSON_LEADER"] = Same(Spaces \union {"{", "}", ","}, "JSON_LEADER")
                             ++ One("\"", "JSON_STRINGLITERAL")
  BY DEF Moves
<1> DEFINE T == {"JSON_LEADER", "JSON_STRINGLITERAL"}
<1>2. "JSON_LEADER" \in T /\ "JSON_STRINGLITERAL" \in T
  OBVIOUS
<1> HIDE DEF T
<1>3. Into(Moves["JSON_LEADER"], T)
  BY <1>1, <1>2, IntoOne, IntoSame, IntoEither
<1> QED
  BY <1>3 DEF T

LEMMA OneIs ==
  ASSUME NEW c, NEW t
  PROVE  DOMAIN One(c, t) = {c} /\ One(c, t)[c] = t
BY DEF One, Same

\* The braces, that are told apart here and nowhere below.
Open  == "{"
Close == "}"

LEMMA PushesAre ==
  ASSUME NEW s, NEW c, PushedOn(s, c)
  PROVE  \/ s \in {"GROUND", "NMEA_RECOGNIZED", "JSON_EXPECT_VALUE"} /\ c = Open /\ Pushes[s][c] = "JSON_LEADER"
         \/ s = "JSON_NUMBER" /\ Pushes[s][c] = "JSON_END_VALUE"
         \/ s = "JSON_END_VALUE" /\ c = Close /\ Pushes[s][c] = "JSON_LEADER"
<1>1. s \in DOMAIN Pushes /\ c \in DOMAIN Pushes[s]
  BY DEF PushedOn
<1>2. s \in {"GROUND", "NMEA_RECOGNIZED", "JSON_EXPECT_VALUE", "JSON_NUMBER", "JSON_END_VALUE"}
  BY <1>1, Zenon DEF Pushes
<1>3. ASSUME s \in {"GROUND", "NMEA_RECOGNIZED", "JSON_EXPECT_VALUE"}
      PROVE  c = Open /\ Pushes[s][c] = "JSON_LEADER"
  <2>1. Pushes[s] = One(Open, "JSON_LEADER")
    <3>1. CASE s = "GROUND"
      BY <3>1, Zenon DEF Pushes, Open
    <3>2. CASE s = "NMEA_RECOGNIZED"
      BY <3>2, Zenon DEF Pushes, Open
    <3>3. CASE s = "JSON_EXPECT_VALUE"
      BY <3>3, Zenon DEF Pushes, Open
    <3> QED
      BY <1>3, <3>1, <3>2, <3>3
  <2>2. c = Open
    BY <1>1, <2>1, OneIs
  <2> QED
    BY <2>1, <2>2, OneIs
<1>4. ASSUME s = "JSON_NUMBER"
      PROVE  Pushes[s][c] = "JSON_END_VALUE"
  <2>1. Pushes[s] = Same(Chars \ Digits, "JSON_END_VALUE")
    BY <1>4, Zenon DEF Pushes
  <2> QED
    BY <1>1, <2>1 DEF Same
<1>5. ASSUME s = "JSON_END_VALUE"
      PROVE  c = Close /\ Pushes[s][c] = "JSON_LEADER"
  <2>1. Pushes[s] = One(Close, "JSON_LEADER")
    BY <1>5, Zenon DEF Pushes, Close
  <2>2. c = Close
    BY <1>1, <2>1, OneIs
  <2> QED
    BY <2>1, <2>2, OneIs
<1> QED
  BY <1>2, <1>3, <1>4, <1>5

\* What is pushed back is looked at again on the way down to a state that takes or
\* discards it.
LEMMA PushedDown ==
  ASSUME NEW s \in DOMAIN Moves, NEW c, PushedBack(s, c)
  PROVE  /\ s # "JSON_LEADER" /\ NextState(s, c) \in DOMAIN Moves
         /\ Rank(NextState(s, c)) < Rank(s)
         /\ NextState(s, c) = "JSON_LEADER" => c = Open \/ s \in InObject
         /\ NextState(s, c) \in InObject => s \in InObject
<1>1. ~ Taken(s, c) /\ (PushedOn(s, c) \/ s \in Returning)
  BY DEF PushedBack
<1>2. PICK to : to = NextState(s, c)
  OBVIOUS
<1>3. SUFFICES /\ s # "JSON_LEADER" /\ to \in DOMAIN Moves
               /\ Rank(to) < Rank(s)
               /\ to = "JSON_LEADER" => c = Open \/ s \in InObject
               /\ to \in InObject => s \in InObject
  BY <1>2, Zenon
<1>4. CASE PushedOn(s, c)
  <2>1. to = Pushes[s][c]
    BY <1>1, <1>2, <1>4, Zenon DEF NextState
  <2>2. \/ s \in {"GROUND", "NMEA_RECOGNIZED", "JSON_EXPECT_VALUE"} /\ c = Open /\ to = "JSON_LEADER"
        \/ s = "JSON_NUMBER" /\ to = "JSON_END_VALUE"
        \/ s = "JSON_END_VALUE" /\ c = Close /\ to = "JSON_LEADER"
    BY <1>4, <2>1, PushesAre
  <2>3. to \in {"JSON_LEADER", "JSON_END_VALUE"}
    BY <2>2
  <2>4. to \in DOMAIN Moves
    BY <2>3, StatesAre DEF InObject
  <2>5. s # "JSON_LEADER" /\ Rank(to) < Rank(s)
    BY <2>2 DEF Rank
  <2>6. /\ to = "JSON_LEADER" => c = Open \/ s \in InObject
        /\ to \in InObject => s \in InObject
    BY <2>2 DEF InObject
  <2> QED
    BY <2>4, <2>5, <2>6
<1>5. CASE ~ PushedOn(s, c)
  <2>1. to = "GROUND" /\ s \in Returning
    BY <1>1, <1>2, <1>5, Zenon DEF NextState
  <2>2. "GROUND" \in DOMAIN Moves
    BY StatesAre DEF TextStates
  <2>3. s # "JSON_LEADER" /\ Rank(s) > 1 /\ Rank(to) = 1
    BY <2>1 DEF Rank, Returning
  <2>4. to # "JSON_LEADER" /\ to \notin InObject
    BY <2>1 DEF InObject
  <2> QED
    BY <2>1, <2>2, <2>3, <2>4
<1> QED
  BY <1>4, <1>5

\* Where the machine goes with c, and how deep it is then.
LEMMA NextIs ==
  ASSUME NEW s, NEW c
  PROVE  \/ ~ Taken(s, c) /\ NextState(s, c) = IF PushedOn(s, c) THEN Pushes[s][c] ELSE "GROUND"
         \/ /\ Taken(s, c) /\ s = "JSON_LEADER" /\ c = Close /\ json_depth = 1
            /\ NextState(s, c) = "JSON_RECOGNIZED"
         \/ /\ Taken(s, c) /\ ~ (s = "JSON_LEADER" /\ c = Close /\ json_depth = 1)
            /\ NextState(s, c) = IF Moves[s][c] = "json_after" THEN json_after ELSE Moves[s][c]
BY Zenon DEF NextState, Close

LEMMA DepthIs ==
  ASSUME NEW s, NEW c
  PROVE  \/ ~ (s = "JSON_LEADER" /\ c \in {Open, Close}) /\ Depth(s, c) = json_depth
         \/ s = "JSON_LEADER" /\ c = Open /\ Depth(s, c) = json_depth + 1
         \/ s = "JSON_LEADER" /\ c = Close /\ Depth(s, c) = json_depth - 1
<1>1. Open # Close
  BY Zenon DEF Open, Close
<1>2. Depth(s, c) = IF s # "JSON_LEADER" THEN json_depth
                    ELSE IF c = Open THEN json_depth + 1
                    ELSE IF c = Close THEN json_depth - 1 ELSE json_depth
  BY Zenon DEF Depth, Open, Close
<1> QED
  BY <1>1, <1>2

LEMMA AfterIs ==
  ASSUME NEW s, NEW c
  PROVE  After(s, c) \in {json_after, "JSON_END_ATTRIBUTE", "JSON_END_VALUE"}
BY Zenon DEF After

\* A brace is taken where the braces are counted.
LEMMA BracesTaken ==
  ASSUME NEW c \in {Open, Close}
  PROVE  Taken("JSON_LEADER", c) /\ Moves["JSON_LEADER"][c] = "JSON_LEADER"
<1>1. Moves["JSON_LEADER"] = Same(Spaces \union {Open, Close, ","}, "JSON_LEADER")
                             ++ One("\"", "JSON_STRINGLITERAL")
  BY Zenon DEF Moves, Open, Close
<1> DEFINE f == Same(Spaces \union {Open, Close, ","}, "JSON_LEADER")
           g == One("\"", "JSON_STRINGLITERAL")
<1>2. c \in DOMAIN f /\ f[c] = "JSON_LEADER"
  BY DEF Same
<1>3. Moves["JSON_LEADER"] = f ++ g
  BY <1>1
<1> HIDE DEF f, g
<1>4. c \in DOMAIN (f ++ g) /\ (f ++ g)[c] = f[c]
  BY <1>2 DEF ++
<1> QED
  BY <1>2, <1>3, <1>4, Zenon DEF Taken

-----------------------------------------------------------------------------
(* Type correctness, and with it how deep in an object each state is.       *)

\* In an object, at least one brace is open, but for the moment at which its first
\* brace has been pushed back and is to be looked at again.
Deep ==
  /\ state \in InObject => json_depth >= 1
  /\ state = "JSON_LEADER" => json_depth >= 1 \/ (Looking /\ char = Open)

Steady == TypeOK /\ Deep

\* nextstate, for a character that is pushed back and for one that is not.
LEMMA LookBack ==
  ASSUME Steady, Looking, PushedBack(state, char)
  PROVE  /\ NextState(state, char) \in DOMAIN Moves
         /\ Rank(NextState(state, char)) < Rank(state)
         /\ Depth(state, char) = json_depth
         /\ NextState(state, char) \in InObject => json_depth >= 1
         /\ NextState(state, char) = "JSON_LEADER" => json_depth >= 1 \/ char = Open
<1>1. /\ state \in DOMAIN Moves /\ json_depth \in Nat
      /\ state \in InObject => json_depth >= 1
  BY DEF Steady, TypeOK, Deep
<1>2. /\ state # "JSON_LEADER" /\ NextState(state, char) \in DOMAIN Moves
      /\ Rank(NextState(state, char)) < Rank(state)
      /\ NextState(state, char) = "JSON_LEADER" => char = Open \/ state \in InObject
      /\ NextState(state, char) \in InObject => state \in InObject
  BY <1>1, PushedDown
<1>3. Depth(state, char) = json_depth
  BY <1>2, DepthIs
<1> QED
  BY <1>1, <1>2, <1>3

LEMMA LookOn ==
  ASSUME Steady, Looking, ~ PushedBack(state, char)
  PROVE  /\ NextState(state, char) \in DOMAIN Moves \union {"COMMENT_RECOGNIZED", "JSON_RECOGNIZED"}
         /\ Depth(state, char) \in Nat
         /\ NextState(state, char) \in InObject \union {"JSON_LEADER"} => Depth(state, char) >= 1
<1> DEFINE to == NextState(state, char)
           now == Depth(state, char)
<1>1. /\ state \in DOMAIN Moves /\ json_depth \in Nat
      /\ json_after \in {"GROUND", "JSON_END_ATTRIBUTE", "JSON_END_VALUE"}
      /\ state \in InObject => json_depth >= 1
      /\ state = "JSON_LEADER" => json_depth >= 1 \/ char = Open
  BY DEF Steady, TypeOK, Deep
<1>2. \/ ~ Taken(state, char) /\ to = "GROUND"
      \/ /\ Taken(state, char) /\ state = "JSON_LEADER" /\ char = Close /\ json_depth = 1
         /\ to = "JSON_RECOGNIZED"
      \/ /\ Taken(state, char) /\ ~ (state = "JSON_LEADER" /\ char = Close /\ json_depth = 1)
         /\ to = IF Moves[state][char] = "json_after" THEN json_after ELSE Moves[state][char]
  <2>1. ~ Taken(state, char) => ~ PushedOn(state, char)
    BY Zenon DEF PushedBack
  <2> QED
    BY <2>1, NextIs
<1>3. \/ ~ (state = "JSON_LEADER" /\ char \in {Open, Close}) /\ now = json_depth
      \/ state = "JSON_LEADER" /\ char = Open /\ now = json_depth + 1
      \/ state = "JSON_LEADER" /\ char = Close /\ now = json_depth - 1
  BY DepthIs
<1>4. Taken(state, char) => char \in DOMAIN Moves[state]
  BY DEF Taken
<1>5. Open # Close
  BY Zenon DEF Open, Close
<1> HIDE DEF to, now
<1>6. SUFFICES /\ to \in DOMAIN Moves \union {"COMMENT_RECOGNIZED", "JSON_RECOGNIZED"}
               /\ now \in Nat
               /\ to \in InObject \union {"JSON_LEADER"} => now >= 1
  BY Zenon DEF to, now
<1>7. CASE ~ Taken(state, char)
  <2>1. to = "GROUND"
    BY <1>2, <1>7
  <2>2. char \notin {Open, Close} \/ state # "JSON_LEADER"
    BY <1>7, BracesTaken
  <2>3. now \in Nat
    BY <1>1, <1>3, <2>2
  <2> QED
    BY <2>1, <2>3, StatesAre DEF TextStates, InObject
<1>8. CASE Taken(state, char) /\ state \in TextStates
  <2>1. state # "JSON_LEADER"
    BY <1>8 DEF TextStates
  <2>2. Moves[state][char] \in TextStates \union {"COMMENT_RECOGNIZED"}
    BY <1>4, <1>8, TextMoves DEF Into
  <2>3. "json_after" \notin TextStates \union {"COMMENT_RECOGNIZED"}
    BY DEF TextStates
  <2>4. to \in TextStates \union {"COMMENT_RECOGNIZED"}
    BY <1>2, <1>8, <2>1, <2>2, <2>3
  <2>5. now = json_depth
    BY <1>3, <2>1
  <2>6. to \notin InObject \union {"JSON_LEADER"}
    BY <2>4 DEF TextStates, InObject
  <2> QED
    BY <1>1, <2>4, <2>5, <2>6, StatesAre
<1>9. CASE Taken(state, char) /\ state \in InObject
  <2>1. state # "JSON_LEADER"
    BY <1>9 DEF InObject
  <2>2. Moves[state][char] \in InObject \union {"JSON_LEADER", "json_after"}
    BY <1>4, <1>9, InsideMoves DEF Into
  <2>3. json_after \in InObject \union {"GROUND"}
    BY <1>1 DEF InObject
  <2>4. to \in InObject \union {"JSON_LEADER", "GROUND"}
    BY <1>2, <1>9, <2>1, <2>2, <2>3
  <2>5. now = json_depth /\ json_depth >= 1
    BY <1>1, <1>3, <1>9, <2>1
  <2>6. to \in DOMAIN Moves
    BY <2>4, StatesAre DEF TextStates
  <2> QED
    BY <1>1, <2>5, <2>6
<1>10. CASE Taken(state, char) /\ state = "JSON_LEADER"
  <2>1. Moves[state][char] \in {"JSON_LEADER", "JSON_STRINGLITERAL"}
    BY <1>4, <1>10, LeaderMoves DEF Into
  <2>2. now \in Nat /\ (now = 0 => char = Close /\ json_depth = 1)
    BY <1>1, <1>3, <1>5, <1>10
  <2>3. CASE char = Close /\ json_depth = 1
    <3>1. to = "JSON_RECOGNIZED"
      BY <1>2, <1>10, <2>3
    <3> QED
      BY <2>2, <3>1 DEF InObject
  <2>4. CASE ~ (char = Close /\ json_depth = 1)
    <3>1. to \in {"JSON_LEADER", "JSON_STRINGLITERAL"}
      BY <1>2, <1>10, <2>1, <2>4
    <3>2. to \in DOMAIN Moves
      BY <3>1, StatesAre DEF InObject
    <3> QED
      BY <2>2, <2>4, <3>2
  <2> QED
    BY <2>3, <2>4
<1> QED
  BY <1>1, <1>7, <1>8, <1>9, <1>10, StatesAre

LEMMA AfterType ==
  ASSUME TypeOK, NEW s, NEW c
  PROVE  After(s, c) \in {"GROUND", "JSON_END_ATTRIBUTE", "JSON_END_VALUE"}
BY AfterIs DEF TypeOK

LEMMA GroundIs ==
  /\ "GROUND" \in DOMAIN Moves /\ "NMEA_RECOGNIZED" \in DOMAIN Moves
  /\ "GROUND" # "JSON_LEADER" /\ "NMEA_RECOGNIZED" # "JSON_LEADER"
  /\ "GROUND" \notin InObject /\ "NMEA_RECOGNIZED" \notin InObject
<1>1. "GROUND" \in DOMAIN Moves /\ "NMEA_RECOGNIZED" \in DOMAIN Moves
  BY StatesAre DEF TextStates
<1> QED
  BY <1>1 DEF InObject

LEMMA SteadyPushBack ==
  ASSUME Steady, PushBack
  PROVE  Steady'
<1>1. /\ Looking /\ PushedBack(state, char) /\ state' = NextState(state, char)
      /\ json_depth' = Depth(state, char) /\ json_after' = After(state, char)
      /\ UNCHANGED <<line, inbuffer, inbufptr, pc>>
  BY Zenon DEF PushBack, Look
<1>2. /\ state' \in DOMAIN Moves /\ json_depth' = json_depth
      /\ state' \in InObject => json_depth >= 1
      /\ state' = "JSON_LEADER" => json_depth >= 1 \/ char = Open
  BY <1>1, LookBack
<1>3. TypeOK'
  <2>1. After(state, char) \in {"GROUND", "JSON_END_ATTRIBUTE", "JSON_END_VALUE"}
    BY AfterType DEF Steady
  <2> QED
    BY <1>1, <1>2, <2>1 DEF Steady, TypeOK
<1>4. Looking' /\ char' = char
  BY <1>1 DEF Looking, Buffered, char
<1>5. Deep'
  BY <1>2, <1>4 DEF Deep
<1> QED
  BY <1>3, <1>5 DEF Steady

LEMMA SteadyAdvance ==
  ASSUME Steady, Advance
  PROVE  Steady'
<1>1. /\ Looking /\ ~ PushedBack(state, char) /\ state' = NextState(state, char)
      /\ state' \notin {"COMMENT_RECOGNIZED", "NMEA_RECOGNIZED", "JSON_RECOGNIZED", "GROUND"}
      /\ json_depth' = Depth(state, char) /\ json_after' = After(state, char)
      /\ inbufptr' = inbufptr + 1
      /\ UNCHANGED <<line, inbuffer, pc>>
  BY DEF Advance, Look, Recognized
<1>2. /\ state' \in DOMAIN Moves \union {"COMMENT_RECOGNIZED", "JSON_RECOGNIZED"}
      /\ json_depth' \in Nat
      /\ state' \in InObject \union {"JSON_LEADER"} => json_depth' >= 1
  BY <1>1, LookOn
<1>3. TypeOK'
  <2>1. After(state, char) \in {"GROUND", "JSON_END_ATTRIBUTE", "JSON_END_VALUE"}
    BY AfterType DEF Steady
  <2>2. state' \in DOMAIN Moves
    BY <1>1, <1>2
  <2>3. inbufptr + 1 \in 0 .. Len(inbuffer)
    BY <1>1 DEF Steady, TypeOK, Looking, Buffered
  <2> QED
    BY <1>1, <1>2, <2>1, <2>2, <2>3 DEF Steady, TypeOK
<1>4. Deep'
  BY <1>2 DEF Deep
<1> QED
  BY <1>3, <1>4 DEF Steady

LEMMA SteadyDiscard ==
  ASSUME Steady, Discard
  PROVE  Steady'
<1>1. /\ Looking /\ ~ PushedBack(state, char) /\ state' = "GROUND"
      /\ json_depth' = Depth(state, char) /\ json_after' = After(state, char)
      /\ inbuffer' = Tail(inbuffer) /\ inbufptr' = 0
      /\ UNCHANGED <<line, pc>>
  BY Zenon DEF Discard, Look
<1>2. json_depth' \in Nat
  BY <1>1, LookOn
<1>3. TypeOK'
  <2>1. After(state, char) \in {"GROUND", "JSON_END_ATTRIBUTE", "JSON_END_VALUE"}
    BY AfterType DEF Steady
  <2>2. inbuffer \in Seq(Chars) /\ inbuffer # <<>> /\ Len(inbuffer) <= BufferSize
    BY <1>1 DEF Steady, TypeOK, Looking, Buffered
  <2>3. Tail(inbuffer) \in Seq(Chars) /\ Len(Tail(inbuffer)) = Len(inbuffer) - 1
    BY <2>2
  <2>4. Len(Tail(inbuffer)) <= BufferSize /\ 0 \in 0 .. Len(Tail(inbuffer))
    BY <2>2, <2>3, LexerAssumption
  <2> QED
    BY <1>1, <1>2, <2>1, <2>3, <2>4, GroundIs DEF Steady, TypeOK
<1>4. Deep'
  BY <1>1, GroundIs DEF Deep
<1> QED
  BY <1>3, <1>4 DEF Steady

LEMMA Rest ==
  ASSUME NEW T, NEW b \in Seq(T), NEW k \in 0 .. Len(b)
  PROVE  SubSeq(b, k + 1, Len(b)) \in Seq(T) /\ Len(SubSeq(b, k + 1, Len(b))) = Len(b) - k
OBVIOUS

LEMMA SteadyRecognize ==
  ASSUME Steady, Recognize
  PROVE  Steady'
<1>1. /\ Looking /\ ~ PushedBack(state, char) /\ state' \in {"GROUND", "NMEA_RECOGNIZED"}
      /\ json_depth' = Depth(state, char) /\ json_after' = After(state, char)
      /\ inbuffer' = SubSeq(inbuffer, (inbufptr + 1) + 1, Len(inbuffer)) /\ inbufptr' = 0
      /\ pc' = "idle" /\ UNCHANGED line
  BY DEF Recognize, Look, PacketDiscard
<1>2. json_depth' \in Nat
  BY <1>1, LookOn
<1>3. TypeOK'
  <2>1. After(state, char) \in {"GROUND", "JSON_END_ATTRIBUTE", "JSON_END_VALUE"}
    BY AfterType DEF Steady
  <2>2. inbuffer \in Seq(Chars) /\ inbufptr + 1 \in 0 .. Len(inbuffer) /\ Len(inbuffer) <= BufferSize
    BY <1>1 DEF Steady, TypeOK, Looking, Buffered
  <2>3. inbuffer' \in Seq(Chars) /\ Len(inbuffer') = Len(inbuffer) - (inbufptr + 1)
    BY <1>1, <2>2, Rest
  <2>4. Len(inbuffer') <= BufferSize /\ 0 \in 0 .. Len(inbuffer')
    BY <2>2, <2>3, LexerAssumption
  <2> QED
    BY <1>1, <1>2, <2>1, <2>3, <2>4, GroundIs DEF Steady, TypeOK
<1>4. Deep'
  BY <1>1, GroundIs DEF Deep
<1> QED
  BY <1>3, <1>4 DEF Steady

LEMMA SteadyParsedAll ==
  ASSUME Steady, ParsedAll
  PROVE  Steady'
<1>1. /\ Buffered = 0 /\ pc' = "idle"
      /\ \/ /\ inbuffer' = SubSeq(inbuffer, inbufptr + 1, Len(inbuffer)) /\ inbufptr' = 0
            /\ state' = "GROUND"
         \/ UNCHANGED <<inbuffer, inbufptr, state>>
      /\ UNCHANGED <<line, json_depth, json_after>>
  BY DEF ParsedAll, PacketDiscard
<1>2. TypeOK'
  <2>1. inbuffer \in Seq(Chars) /\ inbufptr \in 0 .. Len(inbuffer) /\ Len(inbuffer) <= BufferSize
    BY DEF Steady, TypeOK
  <2>2. CASE UNCHANGED <<inbuffer, inbufptr, state>>
    BY <1>1, <2>2 DEF Steady, TypeOK
  <2>3. CASE /\ inbuffer' = SubSeq(inbuffer, inbufptr + 1, Len(inbuffer)) /\ inbufptr' = 0
             /\ state' = "GROUND"
    <3>1. inbuffer' \in Seq(Chars) /\ Len(inbuffer') = Len(inbuffer) - inbufptr
      BY <2>1, <2>3, Rest
    <3>2. Len(inbuffer') <= BufferSize /\ 0 \in 0 .. Len(inbuffer')
      BY <2>1, <3>1, LexerAssumption
    <3> QED
      BY <1>1, <2>3, <3>1, <3>2, GroundIs DEF Steady, TypeOK
  <2> QED
    BY <1>1, <2>2, <2>3
<1>3. Deep'
  <2>1. ~ Looking
    BY <1>1 DEF Looking
  <2> QED
    BY <1>1, <2>1, GroundIs DEF Steady, Deep
<1> QED
  BY <1>2, <1>3 DEF Steady

LEMMA SteadyGet ==
  ASSUME Steady, Get
  PROVE  Steady'
<1>1. PICK n \in 0 .. Len(line) :
        /\ n + Len(inbuffer) <= BufferSize
        /\ inbuffer' = inbuffer \o SubSeq(line, 1, n)
        /\ line' = SubSeq(line, n + 1, Len(line))
  BY Zenon DEF Get
<1>2. pc = "idle" /\ pc' = "parse" /\ UNCHANGED <<inbufptr, state, json_depth, json_after>>
  BY DEF Get
<1>3. line \in Seq(Chars) /\ inbuffer \in Seq(Chars) /\ inbufptr \in 0 .. Len(inbuffer)
  BY DEF Steady, TypeOK
<1>4. line' \in Seq(Chars)
  BY <1>1, <1>3, Rest
<1>5. inbuffer' \in Seq(Chars) /\ Len(inbuffer') = Len(inbuffer) + n
  <2>1. SubSeq(line, 1, n) \in Seq(Chars) /\ Len(SubSeq(line, 1, n)) = n
    BY <1>3
  <2> HIDE DEF Chars
  <2> QED
    BY <1>1, <1>3, <2>1, ConcatProperties
<1>6. Len(inbuffer') <= BufferSize /\ inbufptr' \in 0 .. Len(inbuffer')
  BY <1>1, <1>2, <1>3, <1>5, LexerAssumption
<1>7. TypeOK'
  BY <1>2, <1>4, <1>5, <1>6 DEF Steady, TypeOK
<1>8. Deep'
  <2>1. ~ Looking
    BY <1>2 DEF Looking
  <2> QED
    BY <1>2, <2>1 DEF Steady, Deep
<1> QED
  BY <1>7, <1>8 DEF Steady

LEMMA PieceText ==
  ASSUME NEW p \in Pieces
  PROVE  p.text \in Seq(Chars) /\ p.text # <<>>
BY LexerAssumption

\* What a burst puts on the line.
Texts(burst, n) == [k \in 1 .. n |-> burst[k].text]

LEMMA TextsType ==
  ASSUME NEW n \in Nat, NEW burst \in [1 .. n -> Pieces]
  PROVE  Texts(burst, n) \in Seq(Seq(Chars)) /\ Len(Texts(burst, n)) = n
<1>1. \A k \in 1 .. n : burst[k].text \in Seq(Chars)
  BY PieceText
<1> HIDE DEF Chars
<1> QED
  BY <1>1 DEF Texts

LEMMA SteadySend ==
  ASSUME Steady, Send
  PROVE  Steady'
<1>1. PICK n \in 1 .. MaxBurst :
        \E burst \in [1 .. n -> Pieces] : line' = FlattenSeq(Texts(burst, n))
  BY Zenon DEF Send, Texts
<1> PICK burst \in [1 .. n -> Pieces] : line' = FlattenSeq(Texts(burst, n))
  BY <1>1
<1>2. UNCHANGED <<inbuffer, inbufptr, state, json_depth, json_after, pc>>
  BY DEF Send
<1>3. line' \in Seq(Chars)
  <2>1. n \in Nat
    BY LexerAssumption
  <2>2. Texts(burst, n) \in Seq(Seq(Chars))
    BY <2>1, TextsType
  <2> QED
    BY <2>2, FlattenType, Zenon
<1>4. TypeOK'
  BY <1>2, <1>3 DEF Steady, TypeOK
<1>5. Deep'
  BY <1>2 DEF Steady, Deep, Looking, Buffered, char
<1> QED
  BY <1>4, <1>5 DEF Steady

LEMMA SteadyEmptied ==
  ASSUME Steady, Reset \/ Reopen
  PROVE  Steady'
<1>1. /\ state' = "GROUND" /\ inbuffer' = <<>> /\ inbufptr' = 0 /\ json_depth' \in {json_depth, 0}
      /\ line' \in {line, <<>>} /\ pc = "idle" /\ UNCHANGED <<json_after, pc>>
  BY DEF Reset, Reopen, Empty, Flush
<1>2. <<>> \in Seq(Chars) /\ Len(<<>>) = 0 /\ 0 <= BufferSize
  BY LexerAssumption
<1>3. TypeOK'
  <2>1. line' \in Seq(Chars)
    <3>1. line \in Seq(Chars) /\ line' \in {line, <<>>}
      BY <1>1 DEF Steady, TypeOK
    <3> QED
      BY <1>2, <3>1
  <2>2. json_depth' \in Nat
    BY <1>1 DEF Steady, TypeOK
  <2>3. json_after' = json_after /\ pc' = pc
    BY <1>1
  <2> QED
    BY <1>1, <1>2, <2>1, <2>2, <2>3, GroundIs DEF Steady, TypeOK
<1>4. Deep'
  BY <1>1, GroundIs DEF Deep
<1> QED
  BY <1>3, <1>4 DEF Steady

LEMMA SteadyInit == Init => Steady
<1> SUFFICES ASSUME Init PROVE Steady
  OBVIOUS
<1>1. <<>> \in Seq(Chars) /\ Len(<<>>) = 0 /\ 0 <= BufferSize
  BY LexerAssumption
<1>2. TypeOK
  BY <1>1, GroundIs DEF Init, TypeOK
<1>3. Deep
  BY GroundIs DEF Init, Deep
<1> QED
  BY <1>2, <1>3 DEF Steady

LEMMA SteadyNext == Steady /\ [Next]_vars => Steady'
<1> SUFFICES ASSUME Steady, [Next]_vars PROVE Steady'
  OBVIOUS
<1>1. CASE Get
  BY <1>1, SteadyGet
<1>2. CASE Parse
  BY <1>2, SteadyPushBack, SteadyAdvance, SteadyDiscard, SteadyRecognize, SteadyParsedAll DEF Parse
<1>3. CASE Send
  BY <1>3, SteadySend
<1>4. CASE Reset \/ Reopen
  BY <1>4, SteadyEmptied
<1>5. CASE UNCHANGED vars
  BY <1>5 DEF vars, Steady, TypeOK, Deep, Looking, Buffered, char
<1> QED
  BY <1>1, <1>2, <1>3, <1>4, <1>5 DEF Next

LEMMA SteadyAlways == Spec => []Steady
<1> QED
  BY SteadyInit, SteadyNext, PTL DEF Spec

\* The variables keep their types, whatever is sent and however the reads cut it; above
\* all json_depth, which '}' counts down without a look at it, is never negative:
\* wherever a '}' is counted, a '{' has been counted before.
THEOREM TypeCorrect == Spec => []TypeOK
<1>1. Steady => TypeOK
  BY DEF Steady
<1> QED
  BY <1>1, SteadyAlways, PTL

\* In the middle of a JSON object there is an open brace, also after a broken object,
\* a reset or a packet that was too long.
THEOREM DepthIsCounted == Spec => []DepthCounted
<1>1. Steady => DepthCounted
  BY Zenon DEF Steady, Deep, DepthCounted, Open
<1> QED
  BY <1>1, SteadyAlways, PTL

-----------------------------------------------------------------------------
(* The reads of packet_get have room, and packet_parse comes to an end.      *)

Roomy == Steady /\ ReadHasRoom

LEMMA RoomyNext == Roomy /\ [Next]_vars => Roomy'
<1> SUFFICES ASSUME Roomy, [Next]_vars PROVE ReadHasRoom'
  BY SteadyNext DEF Roomy
<1>1. /\ inbuffer \in Seq(Chars) /\ Len(inbuffer) <= BufferSize /\ inbufptr \in 0 .. Len(inbuffer)
      /\ BufferSize \in Nat \ {0} /\ Len(<<>>) = 0
  BY LexerAssumption DEF Roomy, Steady, TypeOK
<1>2. CASE Get
  BY <1>2 DEF Get, ReadHasRoom
<1>3. CASE PushBack
  <2>1. pc' = "parse"
    BY <1>3 DEF PushBack, Looking
  <2> QED
    BY <2>1 DEF ReadHasRoom
<1>4. CASE Advance
  <2>1. pc' = "parse"
    BY <1>4 DEF Advance, Looking
  <2> QED
    BY <2>1 DEF ReadHasRoom
<1>5. CASE Discard
  <2>1. pc' = "parse"
    BY <1>5 DEF Discard, Looking
  <2> QED
    BY <2>1 DEF ReadHasRoom
<1>6. CASE Recognize
  <2>1. Looking /\ inbuffer' = SubSeq(inbuffer, (inbufptr + 1) + 1, Len(inbuffer))
    BY <1>6 DEF Recognize, PacketDiscard
  <2>2. inbufptr + 1 \in 0 .. Len(inbuffer)
    BY <1>1, <2>1 DEF Looking, Buffered
  <2>3. Len(inbuffer') = Len(inbuffer) - (inbufptr + 1)
    BY <1>1, <2>1, <2>2, Rest
  <2> QED
    BY <1>1, <2>3 DEF ReadHasRoom
<1>7. CASE ParsedAll
  <2>1. CASE Len(inbuffer) = BufferSize
    <3>1. Buffered = 0 /\ inbuffer' = SubSeq(inbuffer, inbufptr + 1, Len(inbuffer))
      BY <1>7, <2>1 DEF ParsedAll, PacketDiscard
    <3>2. Len(inbuffer') = 0
      BY <1>1, <3>1, Rest DEF Buffered
    <3> QED
      BY <1>1, <3>2 DEF ReadHasRoom
  <2>2. CASE Len(inbuffer) # BufferSize
    <3>1. inbuffer' = inbuffer
      BY <1>7, <2>2 DEF ParsedAll
    <3> QED
      BY <1>1, <2>2, <3>1 DEF ReadHasRoom
  <2> QED
    BY <2>1, <2>2
<1>8. CASE Send
  BY <1>8 DEF Send, Roomy, ReadHasRoom, Buffered
<1>9. CASE Reset \/ Reopen
  <2>1. inbuffer' = <<>>
    BY <1>9 DEF Reset, Reopen, Empty
  <2> QED
    BY <1>1, <2>1 DEF ReadHasRoom
<1>10. CASE UNCHANGED vars
  BY <1>10 DEF vars, Roomy, ReadHasRoom, Buffered
<1> QED
  BY <1>2, <1>3, <1>4, <1>5, <1>6, <1>7, <1>8, <1>9, <1>10 DEF Next, Parse

\* A full buffer is discarded when it has been looked at to its end, so that no read
\* that is needed has no room and is taken for the end of the device.
THEOREM ReadsHaveRoom == Spec => []ReadHasRoom
<1>1. Init => Roomy
  <2> SUFFICES ASSUME Init PROVE ReadHasRoom
    BY SteadyInit DEF Roomy
  <2>1. Len(<<>>) = 0 /\ BufferSize \in Nat \ {0}
    BY LexerAssumption
  <2> QED
    BY <2>1 DEF Init, ReadHasRoom
<1>2. Roomy => ReadHasRoom
  BY DEF Roomy
<1> QED
  BY <1>1, <1>2, RoomyNext, PTL DEF Spec

\* A turn of the loop of packet_parse.
Nearer ==
  \/ Len(inbuffer') < Len(inbuffer)
  \/ /\ Len(inbuffer') = Len(inbuffer)
     /\ \/ Buffered' < Buffered
        \/ Buffered' = Buffered /\ (pc' = "idle" \/ Rank(state') < Rank(state))

LEMMA ParseNearer ==
  ASSUME Steady, Parse
  PROVE  Nearer
<1>1. inbuffer \in Seq(Chars) /\ inbufptr \in 0 .. Len(inbuffer)
  BY DEF Steady, TypeOK
<1>2. CASE PushBack
  <2>1. Looking /\ PushedBack(state, char) /\ state' = NextState(state, char)
    BY <1>2, Zenon DEF PushBack
  <2>2. Rank(state') < Rank(state)
    BY <2>1, LookBack
  <2>3. inbuffer' = inbuffer /\ inbufptr' = inbufptr
    BY <1>2 DEF PushBack
  <2> QED
    BY <2>2, <2>3 DEF Nearer, Buffered
<1>3. CASE Advance
  <2>1. inbuffer' = inbuffer /\ inbufptr' = inbufptr + 1
    BY <1>3 DEF Advance
  <2> QED
    BY <1>1, <2>1 DEF Nearer, Buffered
<1>4. CASE Discard
  <2>1. Looking /\ inbuffer' = Tail(inbuffer)
    BY <1>4 DEF Discard
  <2>2. inbuffer # <<>>
    BY <1>1, <2>1 DEF Looking, Buffered
  <2>3. Len(inbuffer') = Len(inbuffer) - 1
    BY <1>1, <2>1, <2>2
  <2> QED
    BY <1>1, <2>3 DEF Nearer
<1>5. CASE Recognize
  <2>1. Looking /\ inbuffer' = SubSeq(inbuffer, (inbufptr + 1) + 1, Len(inbuffer))
    BY <1>5 DEF Recognize, PacketDiscard
  <2>2. inbufptr + 1 \in 0 .. Len(inbuffer)
    BY <1>1, <2>1 DEF Looking, Buffered
  <2>3. Len(inbuffer') = Len(inbuffer) - (inbufptr + 1)
    BY <1>1, <2>1, <2>2, Rest
  <2> QED
    BY <1>1, <2>3 DEF Nearer
<1>6. CASE ParsedAll
  <2>1. Buffered = 0 /\ pc' = "idle"
    BY <1>6 DEF ParsedAll
  <2>2. CASE UNCHANGED <<inbuffer, inbufptr>>
    BY <2>1, <2>2 DEF Nearer, Buffered
  <2>3. CASE inbuffer' = SubSeq(inbuffer, inbufptr + 1, Len(inbuffer)) /\ Len(inbuffer) = BufferSize
    <3>1. Len(inbuffer') = Len(inbuffer) - inbufptr /\ Len(inbuffer) > 0 /\ inbufptr = Len(inbuffer)
      BY <1>1, <2>1, <2>3, Rest, LexerAssumption DEF Buffered
    <3> QED
      BY <1>1, <3>1 DEF Nearer
  <2> QED
    BY <1>6, <2>2, <2>3 DEF ParsedAll, PacketDiscard
<1> QED
  BY <1>2, <1>3, <1>4, <1>5, <1>6 DEF Parse

\* packet_parse returns, whatever is in the buffer: each turn of its loop is nearer to
\* the end, and each of the measures it goes down by is a natural number.
THEOREM PacketParseEnds == Spec => ParseEnds
<1>1. Steady /\ [Next]_vars => [Parse => Nearer]_vars
  BY ParseNearer
<1> QED
  BY <1>1, SteadyAlways, PTL DEF Spec, ParseEnds, Nearer

-----------------------------------------------------------------------------
(* What is delivered are parts of what was sent, one behind the other.       *)

LEMMA AppendBehind ==
  ASSUME NEW T, NEW s \in Seq(T), NEW v \in Seq(T), NEW e \in T
  PROVE  s \o Append(v, e) = Append(s \o v, e)
<1>1. Append(v, e) = v \o <<e>> /\ Append(s \o v, e) = (s \o v) \o <<e>> /\ <<e>> \in Seq(T)
  OBVIOUS
<1>2. (s \o v) \o <<e>> = s \o (v \o <<e>>)
  BY <1>1, ConcatAssociative
<1> QED
  BY <1>1, <1>2, Zenon

LEMMA FlattenConcat ==
  ASSUME NEW T, NEW s \in Seq(Seq(T)), NEW t \in Seq(Seq(T))
  PROVE  FlattenSeq(s \o t) = FlattenSeq(s) \o FlattenSeq(t)
<1> DEFINE U == Seq(T)
           u(n) == SubSeq(t, 1, n)
           Bad == {n \in 0 .. Len(t) : FlattenSeq(s \o u(n)) # FlattenSeq(s) \o FlattenSeq(u(n))}
<1>1. ASSUME NEW n \in 0 .. Len(t)
      PROVE  u(n) \in Seq(U) /\ Len(u(n)) = n /\ \A i \in 1 .. n : u(n)[i] = t[i]
  BY <1>1
<1>2. u(Len(t)) = t
  BY <1>1
<1>3. SUFFICES ASSUME Bad # {}
               PROVE  FALSE
  <2>1. Len(t) \in 0 .. Len(t)
    OBVIOUS
  <2>2. Len(t) \notin Bad => FlattenSeq(s \o u(Len(t))) = FlattenSeq(s) \o FlattenSeq(u(Len(t)))
    BY <2>1
  <2> HIDE DEF Bad, u
  <2> QED
    BY <1>2, <2>2
<1>4. PICK n \in Bad : \A k \in Bad : n <= k
  <2>1. Bad \in SUBSET Nat
    OBVIOUS
  <2> HIDE DEF Bad
  <2> QED
    BY <1>3, <2>1, Least
<1>5. n \in 0 .. Len(t) /\ FlattenSeq(s \o u(n)) # FlattenSeq(s) \o FlattenSeq(u(n))
  OBVIOUS
<1>6. FlattenSeq(s) \in U
  BY FlattenType
<1>7. CASE n = 0
  <2>1. u(0) = <<>>
    BY <1>1
  <2>2. s \o u(0) = s /\ FlattenSeq(u(0)) = <<>>
    <3>1. s \o <<>> = s
      OBVIOUS
    <3> HIDE DEF u
    <3> QED
      BY <2>1, <3>1, FlattenEmpty
  <2>3. FlattenSeq(s) \o <<>> = FlattenSeq(s)
    BY <1>6
  <2> QED
    BY <1>5, <1>7, <2>2, <2>3
<1>8. CASE n # 0
  <2>1. n - 1 \in 0 .. Len(t) /\ n - 1 \notin Bad /\ t[n] \in U
    <3>1. n - 1 \in 0 .. Len(t) /\ t[n] \in U
      BY <1>5, <1>8
    <3>2. n - 1 \notin Bad
      <4>1. ~ (n <= n - 1)
        BY <1>5
      <4> HIDE DEF Bad
      <4> QED
        BY <1>4, <4>1
    <3> QED
      BY <3>1, <3>2
  <2> DEFINE v == u(n - 1)
             e == t[n]
  <2>2. v \in Seq(U) /\ Len(v) = n - 1
    BY <1>1, <2>1
  <2>3. FlattenSeq(s \o v) = FlattenSeq(s) \o FlattenSeq(v)
    BY <2>1
  <2>4. u(n) = Append(v, e)
    <3>1. Append(v, e) \in Seq(U) /\ Len(Append(v, e)) = n
      BY <1>5, <2>1, <2>2
    <3>2. \A i \in 1 .. n : Append(v, e)[i] = t[i]
      BY <1>1, <2>1, <2>2
    <3> QED
      BY <1>1, <1>5, <3>1, <3>2, SeqEqual
  <2> HIDE DEF v, e, u
  <2>5. e \in U
    BY <2>1 DEF e
  <2>6. s \o Append(v, e) = Append(s \o v, e)
    <3>1. s \in Seq(U)
      OBVIOUS
    <3> HIDE DEF U
    <3> QED
      BY <2>2, <2>5, <3>1, AppendBehind, SMTT(30)
  <2>7. s \o v \in Seq(U)
    BY <2>2
  <2>8. FlattenSeq(Append(s \o v, e)) = FlattenSeq(s \o v) \o e
    BY <2>5, <2>7, FlattenAppend
  <2>9. FlattenSeq(Append(v, e)) = FlattenSeq(v) \o e
    BY <2>2, <2>5, FlattenAppend
  <2>10. FlattenSeq(v) \in U
    BY <2>2, FlattenType
  <2>11. (FlattenSeq(s) \o FlattenSeq(v)) \o e = FlattenSeq(s) \o (FlattenSeq(v) \o e)
    BY <1>6, <2>5, <2>10, ConcatAssociative, SMTT(30)
  <2> QED
    BY <1>5, <2>3, <2>4, <2>6, <2>8, <2>9, <2>11
<1> QED
  BY <1>5, <1>7, <1>8

\* What stands in a text at at stands there also when more follows.
LEMMA PartOfMore ==
  ASSUME NEW T, NEW g \in Seq(T), NEW h \in Seq(T), NEW at \in Nat, NEW n \in Nat, at + n <= Len(g)
  PROVE  /\ at + n <= Len(g \o h)
         /\ SubSeq(g \o h, at + 1, at + n) = SubSeq(g, at + 1, at + n)
<1>1. g \o h \in Seq(T) /\ Len(g \o h) = Len(g) + Len(h)
  BY ConcatProperties
<1>2. CASE n = 0
  BY <1>1, <1>2
<1>3. CASE n # 0
  BY <1>1, <1>3, SubSeqOfConcat1
<1> QED
  BY <1>2, <1>3

\* The packets ds stand in g where at says, each behind those before it.
InPlaces(at, ds, g) ==
  \A k \in 1 .. Len(ds) :
    /\ at[k] + Len(ds[k][2]) <= Len(g)
    /\ ds[k][2] = SubSeq(g, at[k] + 1, at[k] + Len(ds[k][2]))
    /\ \A j \in 1 .. k - 1 : at[j] + Len(ds[j][2]) <= at[k]

Types == {"COMMENT", "JSON", "BAD", "AIVDM", "NMEA"}
Deliveries == Seq(Types \X Seq(Chars))

LEMMA InPlacesMore ==
  ASSUME NEW ds \in Deliveries, NEW at \in [1 .. Len(ds) -> Nat], NEW g \in Seq(Chars),
         NEW h \in Seq(Chars), InPlaces(at, ds, g)
  PROVE  InPlaces(at, ds, g \o h)
<1> SUFFICES ASSUME NEW k \in 1 .. Len(ds)
             PROVE  /\ at[k] + Len(ds[k][2]) <= Len(g \o h)
                    /\ ds[k][2] = SubSeq(g \o h, at[k] + 1, at[k] + Len(ds[k][2]))
                    /\ \A j \in 1 .. k - 1 : at[j] + Len(ds[j][2]) <= at[k]
  BY DEF InPlaces
<1>1. /\ at[k] + Len(ds[k][2]) <= Len(g)
      /\ ds[k][2] = SubSeq(g, at[k] + 1, at[k] + Len(ds[k][2]))
      /\ \A j \in 1 .. k - 1 : at[j] + Len(ds[j][2]) <= at[k]
  BY Zenon DEF InPlaces
<1>2. PICK n \in Nat : n = Len(ds[k][2])
  <2>1. ds[k] \in Types \X Seq(Chars)
    BY DEF Deliveries
  <2>2. ds[k][2] \in Seq(Chars)
    BY <2>1
  <2> QED
    BY <2>2
<1>3. PICK a \in Nat : a = at[k]
  OBVIOUS
<1>4. a + n <= Len(g)
  BY <1>1, <1>2, <1>3
<1>5. a + n <= Len(g \o h) /\ SubSeq(g \o h, a + 1, a + n) = SubSeq(g, a + 1, a + n)
  BY <1>4, PartOfMore
<1> QED
  BY <1>1, <1>2, <1>3, <1>5, Zenon

\* One packet more, that stands behind all of g.
LEMMA InPlacesAdd ==
  ASSUME NEW ds \in Deliveries, NEW at \in [1 .. Len(ds) -> Nat], NEW g \in Seq(Chars),
         InPlaces(at, ds, g), NEW type \in Types, NEW text \in Seq(Chars)
  PROVE  /\ Append(ds, <<type, text>>) \in Deliveries
         /\ \E to \in [1 .. Len(Append(ds, <<type, text>>)) -> Nat] :
              InPlaces(to, Append(ds, <<type, text>>), g \o text)
<1> DEFINE d == <<type, text>>
           es == Append(ds, d)
           to == [k \in 1 .. Len(ds) + 1 |-> IF k <= Len(ds) THEN at[k] ELSE Len(g)]
<1>1. d \in Types \X Seq(Chars) /\ d[2] = text
  OBVIOUS
<1>2. /\ es \in Deliveries /\ Len(es) = Len(ds) + 1 /\ Len(ds) \in Nat /\ Len(g) \in Nat
      /\ es[Len(ds) + 1] = d /\ \A k \in 1 .. Len(ds) : es[k] = ds[k]
  <2> HIDE DEF d
  <2> QED
    BY <1>1, AppendProperties DEF Deliveries
<1>3. to \in [1 .. Len(es) -> Nat]
  BY <1>2
<1>4. InPlaces(at, ds, g \o text)
  BY InPlacesMore
<1>5. /\ to[Len(ds) + 1] = Len(g)
      /\ \A k \in 1 .. Len(ds) : to[k] = at[k]
  BY <1>2
<1>6. g \o text \in Seq(Chars) /\ Len(g \o text) = Len(g) + Len(text) /\ Len(text) \in Nat
  <2> HIDE DEF Chars
  <2> QED
    BY ConcatProperties
<1> HIDE DEF d, es, to
<1>7. InPlaces(to, es, g \o text)
  <2> SUFFICES ASSUME NEW k \in 1 .. Len(es)
               PROVE  /\ to[k] + Len(es[k][2]) <= Len(g \o text)
                      /\ es[k][2] = SubSeq(g \o text, to[k] + 1, to[k] + Len(es[k][2]))
                      /\ \A j \in 1 .. k - 1 : to[j] + Len(es[j][2]) <= to[k]
    BY DEF InPlaces
  <2>1. CASE k \in 1 .. Len(ds)
    <3>1. /\ at[k] + Len(ds[k][2]) <= Len(g \o text)
          /\ ds[k][2] = SubSeq(g \o text, at[k] + 1, at[k] + Len(ds[k][2]))
          /\ \A j \in 1 .. k - 1 : at[j] + Len(ds[j][2]) <= at[k]
      BY <1>4, <2>1, Zenon DEF InPlaces
    <3>2. to[k] = at[k] /\ es[k] = ds[k]
      BY <1>2, <1>5, <2>1
    <3>3. ASSUME NEW j \in 1 .. k - 1
          PROVE  to[j] = at[j] /\ es[j] = ds[j]
      BY <1>2, <1>5, <2>1
    <3> QED
      BY <3>1, <3>2, <3>3, Zenon
  <2>2. CASE k = Len(ds) + 1
    <3>1. to[k] = Len(g) /\ es[k][2] = text
      BY <1>1, <1>2, <1>5, <2>2
    <3>2. SubSeq(g \o text, Len(g) + 1, Len(g) + Len(text)) = text
      <4>1. CASE text = <<>>
        BY <1>2, <1>6, <4>1
      <4>2. CASE text # <<>>
        BY <1>2, <1>6, <4>2, SubSeqOfConcat2
      <4> QED
        BY <4>1, <4>2
    <3>3. \A j \in 1 .. k - 1 : to[j] + Len(es[j][2]) <= to[k]
      <4> SUFFICES ASSUME NEW j \in 1 .. k - 1
                   PROVE  to[j] + Len(es[j][2]) <= to[k]
        OBVIOUS
      <4>1. j \in 1 .. Len(ds)
        BY <1>2, <2>2
      <4>2. at[j] + Len(ds[j][2]) <= Len(g)
        BY <4>1, Zenon DEF InPlaces
      <4> QED
        BY <1>2, <1>5, <3>1, <4>1, <4>2
    <3>4. to[k] + Len(es[k][2]) <= Len(g \o text)
      BY <1>2, <1>6, <3>1
    <3>5. es[k][2] = SubSeq(g \o text, to[k] + 1, to[k] + Len(es[k][2]))
      BY <3>1, <3>2
    <3> QED
      BY <3>3, <3>4, <3>5
  <2>3. k \in 1 .. Len(ds) \/ k = Len(ds) + 1
    BY <1>2
  <2> QED
    BY <2>1, <2>2, <2>3, Zenon
<1> QED
  BY <1>2, <1>3, <1>7 DEF es, d

Sendable == Pieces \union {Mark("reset"), Mark("init")}

TextsOf(s) == [k \in DOMAIN s |-> s[k].text]

\* All that has been sent, with a mark for each time the line was flushed.
Stream == FlattenSeq(TextsOf(sent))

\* The packets delivered stand in what has been sent, one behind the other.
DeliveredInOrder ==
  \E at \in [1 .. Len(delivered) -> Nat] : InPlaces(at, delivered, Stream)

\* g is what the lexer has taken out of the buffer or thrown away.
Gone(g) ==
  /\ g \in Seq(Chars) /\ Stream = g \o (inbuffer \o line)
  /\ \E at \in [1 .. Len(delivered) -> Nat] : InPlaces(at, delivered, g)

Accounted ==
  /\ sent \in Seq(Sendable) /\ delivered \in Deliveries
  /\ \E g : Gone(g)

LEMMA SendableText ==
  ASSUME NEW p \in Sendable
  PROVE  p.text \in Seq(Chars)
<1>1. CASE p \in Pieces
  BY <1>1, PieceText
<1>2. CASE p \in {Mark("reset"), Mark("init")}
  <2>1. p.text = <<"~">>
    BY <1>2 DEF Mark
  <2>2. "~" \in Chars
    BY DEF Chars
  <2> HIDE DEF Chars
  <2> QED
    BY <2>1, <2>2
<1> QED
  BY <1>1, <1>2 DEF Sendable

LEMMA TextsOfType ==
  ASSUME NEW s \in Seq(Sendable)
  PROVE  /\ TextsOf(s) \in Seq(Seq(Chars)) /\ Len(TextsOf(s)) = Len(s)
         /\ \A i \in 1 .. Len(s) : TextsOf(s)[i] = s[i].text
<1>1. \A k \in 1 .. Len(s) : s[k].text \in Seq(Chars)
  BY SendableText
<1> HIDE DEF Chars, Sendable
<1> QED
  BY <1>1 DEF TextsOf

LEMMA ConcatIs ==
  ASSUME NEW T, NEW a \in Seq(T), NEW b \in Seq(T), NEW c \in Seq(T), Len(c) = Len(a) + Len(b),
         \A i \in 1 .. Len(a) : c[i] = a[i], \A i \in 1 .. Len(b) : c[Len(a) + i] = b[i]
  PROVE  c = a \o b
<1>1. /\ a \o b \in Seq(T) /\ Len(a \o b) = Len(a) + Len(b)
      /\ \A i \in 1 .. Len(a) : (a \o b)[i] = a[i]
      /\ \A i \in 1 .. Len(b) : (a \o b)[Len(a) + i] = b[i]
  BY ConcatProperties
<1>2. ASSUME NEW i \in 1 .. Len(c)
      PROVE  c[i] = (a \o b)[i]
  <2>1. CASE i \in 1 .. Len(a)
    BY <1>1, <2>1
  <2>2. CASE i \notin 1 .. Len(a)
    <3>1. i - Len(a) \in 1 .. Len(b) /\ i = Len(a) + (i - Len(a))
      BY <2>2
    <3> QED
      BY <1>1, <3>1
  <2> QED
    BY <2>1, <2>2
<1> QED
  BY <1>1, <1>2, SeqEqual

LEMMA TextsOfMore ==
  ASSUME NEW s \in Seq(Sendable), NEW t \in Seq(Sendable)
  PROVE  /\ s \o t \in Seq(Sendable)
         /\ FlattenSeq(TextsOf(s \o t)) = FlattenSeq(TextsOf(s)) \o FlattenSeq(TextsOf(t))
<1> DEFINE st == s \o t
           U == Seq(Chars)
           a == TextsOf(s)
           b == TextsOf(t)
           c == TextsOf(st)
<1>1. /\ st \in Seq(Sendable) /\ Len(st) = Len(s) + Len(t)
      /\ \A i \in 1 .. Len(s) : st[i] = s[i]
      /\ \A i \in 1 .. Len(t) : st[Len(s) + i] = t[i]
  <2> HIDE DEF Sendable
  <2> QED
    BY ConcatProperties
<1> HIDE DEF st
<1>2. a \in Seq(U) /\ Len(a) = Len(s) /\ \A i \in 1 .. Len(s) : a[i] = s[i].text
  BY TextsOfType, Zenon
<1>3. b \in Seq(U) /\ Len(b) = Len(t) /\ \A i \in 1 .. Len(t) : b[i] = t[i].text
  BY TextsOfType, Zenon
<1>4. c \in Seq(U) /\ Len(c) = Len(st) /\ \A i \in 1 .. Len(st) : c[i] = st[i].text
  BY <1>1, TextsOfType, Zenon
<1>5. Len(s) \in Nat /\ Len(t) \in Nat
  OBVIOUS
<1> HIDE DEF U, a, b, c
<1>6. \A i \in 1 .. Len(a) : c[i] = a[i]
  BY <1>1, <1>2, <1>4, <1>5
<1>7. \A i \in 1 .. Len(b) : c[Len(a) + i] = b[i]
  <2> SUFFICES ASSUME NEW i \in 1 .. Len(t)
               PROVE  c[Len(s) + i] = b[i]
    BY <1>2, <1>3
  <2>1. Len(s) + i \in 1 .. Len(st) /\ st[Len(s) + i] = t[i]
    BY <1>1, <1>5
  <2>2. c[Len(s) + i] = st[Len(s) + i].text /\ b[i] = t[i].text
    BY <1>3, <1>4, <2>1
  <2> QED
    BY <2>1, <2>2
<1>8. c = a \o b
  <2>1. a \in Seq(U) /\ b \in Seq(U) /\ c \in Seq(U) /\ Len(c) = Len(a) + Len(b)
    BY <1>1, <1>2, <1>3, <1>4
  <2> QED
    BY <1>6, <1>7, <2>1, ConcatIs
<1>9. FlattenSeq(a \o b) = FlattenSeq(a) \o FlattenSeq(b)
  BY <1>2, <1>3, FlattenConcat DEF U
<1> QED
  BY <1>1, <1>8, <1>9, Zenon DEF st, a, b, c

\* The first k bytes of a buffer, and what is left of it.
LEMMA CutBuffer ==
  ASSUME NEW T, NEW b \in Seq(T), NEW l \in Seq(T), NEW k \in 0 .. Len(b)
  PROVE  /\ SubSeq(b, 1, k) \in Seq(T)
         /\ b \o l = SubSeq(b, 1, k) \o (SubSeq(b, k + 1, Len(b)) \o l)
<1> DEFINE x == SubSeq(b, 1, k)
           y == SubSeq(b, k + 1, Len(b))
<1>1. x \in Seq(T) /\ y \in Seq(T)
  OBVIOUS
<1>2. x \o y = b
  <2>1. SubSeq(b, 1, Len(b)) = b
    OBVIOUS
  <2>2. 1 \in 1 .. Len(b) + 1 /\ k \in 1 - 1 .. Len(b) /\ Len(b) \in k .. Len(b)
    OBVIOUS
  <2>3. SubSeq(b, 1, k) \o SubSeq(b, k + 1, Len(b)) = SubSeq(b, 1, Len(b))
    BY <2>2, ConcatAdjacentSubSeq, Zenon
  <2> QED
    BY <2>1, <2>3
<1> HIDE DEF x, y
<1>3. (x \o y) \o l = x \o (y \o l)
  BY <1>1, ConcatAssociative
<1> QED
  BY <1>1, <1>2, <1>3 DEF x, y

LEMMA Regroup ==
  ASSUME NEW T, NEW g \in Seq(T), NEW h \in Seq(T), NEW r \in Seq(T)
  PROVE  g \o h \in Seq(T) /\ g \o (h \o r) = (g \o h) \o r
BY ConcatAssociative, ConcatProperties

\* A step takes h out of the buffer and delivers nothing.
LEMMA GoneWith ==
  ASSUME TypeOK, TypeOK', NEW g, Gone(g), delivered \in Deliveries, NEW h \in Seq(Chars),
         inbuffer \o line = h \o (inbuffer' \o line'), UNCHANGED <<sent, delivered>>
  PROVE  Gone(g \o h)'
<1>1. g \in Seq(Chars) /\ Stream = g \o (inbuffer \o line)
  BY Zenon DEF Gone
<1>2. PICK at \in [1 .. Len(delivered) -> Nat] : InPlaces(at, delivered, g)
  BY Zenon DEF Gone
<1>3. InPlaces(at, delivered, g \o h)
  BY <1>1, <1>2, InPlacesMore
<1>4. inbuffer' \o line' \in Seq(Chars)
  <2>1. inbuffer' \in Seq(Chars) /\ line' \in Seq(Chars)
    BY DEF TypeOK
  <2> HIDE DEF Chars
  <2> QED
    BY <2>1, ConcatProperties
<1>5. g \o h \in Seq(Chars) /\ Stream = (g \o h) \o (inbuffer' \o line')
  <2> DEFINE r == inbuffer' \o line'
  <2>1. r \in Seq(Chars) /\ Stream = g \o (h \o r)
    BY <1>1, <1>4
  <2> HIDE DEF r
  <2>2. g \o h \in Seq(Chars) /\ g \o (h \o r) = (g \o h) \o r
    BY <1>1, <2>1, Regroup
  <2> QED
    BY <2>1, <2>2 DEF r
<1>6. Stream' = Stream
  BY DEF Stream
<1> QED
  BY <1>2, <1>3, <1>5, <1>6 DEF Gone

LEMMA AccountedParse ==
  ASSUME Steady, Accounted, Parse
  PROVE  Accounted'
<1>1. PICK g : Gone(g)
  BY DEF Accounted
<1>2. TypeOK /\ TypeOK'
  <2>1. [Next]_vars
    BY Zenon DEF Next
  <2> QED
    BY <2>1, SteadyNext DEF Steady
<1>3. sent \in Seq(Sendable) /\ delivered \in Deliveries
  BY DEF Accounted
<1>4. /\ inbuffer \in Seq(Chars) /\ line \in Seq(Chars) /\ inbufptr \in 0 .. Len(inbuffer)
      /\ Looking => inbufptr + 1 \in 0 .. Len(inbuffer)
  BY <1>2 DEF TypeOK, Looking, Buffered
<1>5. UNCHANGED <<sent, line>>
  BY DEF Parse, PushBack, Advance, Discard, Recognize, ParsedAll, Look
<1>6. ASSUME UNCHANGED delivered, NEW k \in 0 .. Len(inbuffer),
             inbuffer' = SubSeq(inbuffer, k + 1, Len(inbuffer))
      PROVE  Accounted'
  <2>1. PICK h : h \in Seq(Chars) /\ inbuffer \o line = h \o (inbuffer' \o line')
    <3>1. /\ SubSeq(inbuffer, 1, k) \in Seq(Chars)
          /\ inbuffer \o line = SubSeq(inbuffer, 1, k) \o (SubSeq(inbuffer, k + 1, Len(inbuffer)) \o line)
      <4>1. inbuffer \in Seq(Chars) /\ line \in Seq(Chars)
        BY <1>4
      <4> QED
        BY <4>1, CutBuffer, ZenonT(30)
    <3> QED
      BY <1>5, <1>6, <3>1, Zenon
  <2>2. Gone(g \o h)'
    BY <1>1, <1>2, <1>3, <1>5, <1>6, <2>1, GoneWith
  <2> QED
    BY <1>3, <1>5, <1>6, <2>2 DEF Accounted
<1>7. CASE PushBack \/ Advance
  <2>1. inbuffer' = SubSeq(inbuffer, 0 + 1, Len(inbuffer))
    <3>1. inbuffer' = inbuffer
      BY <1>7 DEF PushBack, Advance
    <3>2. SubSeq(inbuffer, 0 + 1, Len(inbuffer)) = inbuffer
      BY <1>4
    <3> QED
      BY <3>1, <3>2
  <2>2. 0 \in 0 .. Len(inbuffer) /\ UNCHANGED delivered
    BY <1>4, <1>7 DEF PushBack, Advance
  <2> QED
    BY <1>6, <2>1, <2>2
<1>8. CASE Discard
  <2>1. Looking /\ inbuffer' = Tail(inbuffer) /\ UNCHANGED delivered
    BY <1>8 DEF Discard
  <2>2. 1 \in 0 .. Len(inbuffer)
    BY <1>4, <2>1
  <2>3. Tail(inbuffer) = SubSeq(inbuffer, 1 + 1, Len(inbuffer))
    BY <1>4, <2>2
  <2> QED
    BY <1>6, <2>1, <2>2, <2>3
<1>9. CASE ParsedAll
  <2>1. CASE UNCHANGED inbuffer
    <3>1. SubSeq(inbuffer, 0 + 1, Len(inbuffer)) = inbuffer /\ 0 \in 0 .. Len(inbuffer)
      BY <1>4
    <3>2. UNCHANGED delivered
      BY <1>9 DEF ParsedAll
    <3> QED
      BY <1>6, <2>1, <3>1, <3>2
  <2>2. CASE inbuffer' = SubSeq(inbuffer, inbufptr + 1, Len(inbuffer))
    <3>1. UNCHANGED delivered
      BY <1>9 DEF ParsedAll
    <3> QED
      BY <1>4, <1>6, <2>2, <3>1
  <2> QED
    BY <1>9, <2>1, <2>2 DEF ParsedAll, PacketDiscard
<1>10. CASE Recognize
  <2>1. PICK text, type :
          /\ text = SubSeq(inbuffer, 1, inbufptr + 1)
          /\ type = PacketType(NextState(state, char), text)
          /\ delivered' \in {delivered, Append(delivered, <<type, text>>)}
    BY <1>10, Zenon DEF Recognize
  <2>2. /\ inbuffer' = SubSeq(inbuffer, (inbufptr + 1) + 1, Len(inbuffer))
        /\ inbufptr + 1 \in 0 .. Len(inbuffer)
    BY <1>4, <1>10 DEF Recognize, PacketDiscard
  <2>3. type \in Types
    BY <2>1, Zenon DEF PacketType, Types
  <2>4. CASE UNCHANGED delivered
    BY <1>6, <2>2, <2>4
  <2>5. CASE delivered' = Append(delivered, <<type, text>>)
    <3>1. text \in Seq(Chars) /\ inbuffer \o line = text \o (inbuffer' \o line')
      <4>1. inbuffer \in Seq(Chars) /\ line \in Seq(Chars)
        BY <1>4
      <4>2. /\ SubSeq(inbuffer, 1, inbufptr + 1) \in Seq(Chars)
            /\ inbuffer \o line = SubSeq(inbuffer, 1, inbufptr + 1)
                                  \o (SubSeq(inbuffer, (inbufptr + 1) + 1, Len(inbuffer)) \o line)
        BY <2>2, <4>1, CutBuffer, ZenonT(30)
      <4> QED
        BY <1>5, <2>1, <2>2, <4>2, Zenon
    <3>2. g \in Seq(Chars) /\ Stream = g \o (inbuffer \o line)
      BY <1>1, Zenon DEF Gone
    <3>3. PICK at \in [1 .. Len(delivered) -> Nat] : InPlaces(at, delivered, g)
      BY <1>1, Zenon DEF Gone
    <3>4. /\ delivered' \in Deliveries
          /\ \E to \in [1 .. Len(delivered') -> Nat] : InPlaces(to, delivered', g \o text)
      BY <1>3, <2>3, <2>5, <3>1, <3>2, <3>3, InPlacesAdd, Zenon
    <3>5. g \o text \in Seq(Chars) /\ Stream = (g \o text) \o (inbuffer' \o line')
      <4> DEFINE r == inbuffer' \o line'
      <4>1. r \in Seq(Chars)
        <5>1. inbuffer' \in Seq(Chars) /\ line' \in Seq(Chars)
          BY <1>2 DEF TypeOK
        <5> HIDE DEF Chars
        <5> QED
          BY <5>1, ConcatProperties
      <4>2. Stream = g \o (text \o r)
        BY <3>1, <3>2
      <4> HIDE DEF r
      <4>3. g \in Seq(Chars) /\ text \in Seq(Chars)
        BY <3>1, <3>2
      <4>4. g \o text \in Seq(Chars) /\ g \o (text \o r) = (g \o text) \o r
        BY <4>1, <4>3, Regroup
      <4> QED
        BY <4>2, <4>4 DEF r
    <3>6. Stream' = Stream
      BY <1>5 DEF Stream
    <3>7. Gone(g \o text)'
      BY <3>4, <3>5, <3>6, Zenon DEF Gone
    <3> QED
      BY <1>3, <1>5, <3>4, <3>7 DEF Accounted
  <2> QED
    BY <2>1, <2>4, <2>5
<1> QED
  BY <1>7, <1>8, <1>9, <1>10 DEF Parse

LEMMA AccountedGet ==
  ASSUME Steady, Accounted, Get
  PROVE  Accounted'
<1>1. PICK g : Gone(g)
  BY DEF Accounted
<1>2. TypeOK /\ TypeOK' /\ delivered \in Deliveries /\ UNCHANGED <<sent, delivered>>
  BY SteadyGet DEF Steady, Accounted, Get
<1>3. PICK n \in 0 .. Len(line) :
        inbuffer' = inbuffer \o SubSeq(line, 1, n) /\ line' = SubSeq(line, n + 1, Len(line))
  BY Zenon DEF Get
<1>4. inbuffer \in Seq(Chars) /\ line \in Seq(Chars)
  BY <1>2 DEF TypeOK
<1>5. inbuffer' \o line' = inbuffer \o line
  <2> DEFINE x == SubSeq(line, 1, n)
             y == SubSeq(line, n + 1, Len(line))
  <2>1. x \in Seq(Chars) /\ y \in Seq(Chars)
    BY <1>4
  <2>2. x \o y = line
    <3>1. SubSeq(line, 1, Len(line)) = line
      BY <1>4
    <3>2. 1 \in 1 .. Len(line) + 1 /\ n \in 1 - 1 .. Len(line) /\ Len(line) \in n .. Len(line)
      BY <1>4
    <3>3. SubSeq(line, 1, n) \o SubSeq(line, n + 1, Len(line)) = SubSeq(line, 1, Len(line))
      BY <1>4, <3>2, ConcatAdjacentSubSeq, Zenon
    <3> QED
      BY <3>1, <3>3
  <2>3. inbuffer' = inbuffer \o x /\ line' = y
    BY <1>3
  <2> HIDE DEF x, y
  <2>4. (inbuffer \o x) \o y = inbuffer \o (x \o y)
    <3>1. inbuffer \in Seq(Chars)
      BY <1>4
    <3> QED
      BY <2>1, <3>1, Regroup, SMTT(30)
  <2> QED
    BY <2>2, <2>3, <2>4
<1>6. <<>> \in Seq(Chars) /\ inbuffer \o line = <<>> \o (inbuffer' \o line')
  <2>1. inbuffer \o line \in Seq(Chars)
    BY <1>4, ConcatProperties
  <2>2. <<>> \in Seq(Chars) /\ <<>> \o (inbuffer \o line) = inbuffer \o line
    BY <2>1
  <2> QED
    BY <1>5, <2>2
<1>7. Gone(g \o <<>>)'
  BY <1>1, <1>2, <1>6, GoneWith
<1> QED
  BY <1>2, <1>7 DEF Accounted

\* More is sent when the line is empty.
LEMMA AccountedSend ==
  ASSUME Steady, Accounted, Send
  PROVE  Accounted'
<1>1. PICK g : Gone(g)
  BY DEF Accounted
<1>2. PICK n \in 1 .. MaxBurst :
        \E burst \in [1 .. n -> Pieces] : sent' = sent \o burst /\ line' = FlattenSeq(Texts(burst, n))
  BY Zenon DEF Send, Texts
<1> PICK burst \in [1 .. n -> Pieces] : sent' = sent \o burst /\ line' = FlattenSeq(Texts(burst, n))
  BY <1>2
<1>3. line = <<>> /\ UNCHANGED <<inbuffer, delivered>>
  BY DEF Send
<1>4. sent \in Seq(Sendable) /\ delivered \in Deliveries /\ inbuffer \in Seq(Chars)
  BY DEF Accounted, Steady, TypeOK
<1>5. burst \in Seq(Sendable) /\ TextsOf(burst) = Texts(burst, n)
  <2>1. n \in Nat /\ DOMAIN burst = 1 .. n
    BY LexerAssumption
  <2>2. burst \in Seq(Pieces)
    BY <2>1
  <2>3. burst \in Seq(Sendable)
    BY <2>1, <2>2 DEF Sendable
  <2> QED
    BY <2>1, <2>3 DEF TextsOf, Texts
<1>6. /\ sent' \in Seq(Sendable) /\ line' \in Seq(Chars)
      /\ Stream' = Stream \o line'
  <2>1. /\ sent \o burst \in Seq(Sendable)
        /\ FlattenSeq(TextsOf(sent \o burst)) = FlattenSeq(TextsOf(sent)) \o FlattenSeq(TextsOf(burst))
    BY <1>4, <1>5, TextsOfMore
  <2>2. line' \in Seq(Chars)
    BY SteadySend DEF Steady, TypeOK
  <2> QED
    BY <1>5, <2>1, <2>2 DEF Stream
<1>7. g \in Seq(Chars) /\ Stream = g \o (inbuffer \o line)
  BY <1>1, Zenon DEF Gone
<1>8. Stream' = g \o (inbuffer' \o line')
  <2>1. inbuffer \o <<>> = inbuffer
    BY <1>4
  <2>2. Stream = g \o inbuffer
    BY <1>3, <1>7, <2>1
  <2>3. (g \o inbuffer) \o line' = g \o (inbuffer \o line')
    <3>1. g \in Seq(Chars) /\ inbuffer \in Seq(Chars) /\ line' \in Seq(Chars)
      BY <1>4, <1>6, <1>7
    <3> QED
      BY <3>1, Regroup, SMTT(30)
  <2> QED
    BY <1>3, <1>6, <2>2, <2>3
<1>9. Gone(g)'
  <2>1. \E at \in [1 .. Len(delivered) -> Nat] : InPlaces(at, delivered, g)
    BY <1>1, Zenon DEF Gone
  <2> QED
    BY <1>3, <1>7, <1>8, <2>1 DEF Gone
<1> QED
  BY <1>3, <1>4, <1>6, <1>9 DEF Accounted

\* What is gone stays, when more is behind it.
LEMMA GoneOn ==
  ASSUME Accounted, NEW g, Gone(g), NEW h \in Seq(Chars), g \o h \in Seq(Chars),
         Stream' = (g \o h) \o (inbuffer' \o line'), UNCHANGED delivered
  PROVE  Gone(g \o h)'
<1>1. g \in Seq(Chars) /\ delivered \in Deliveries
  BY Zenon DEF Accounted, Gone
<1>2. PICK at \in [1 .. Len(delivered) -> Nat] : InPlaces(at, delivered, g)
  BY Zenon DEF Gone
<1>3. InPlaces(at, delivered, g \o h)
  BY <1>1, <1>2, InPlacesMore
<1> QED
  BY <1>2, <1>3 DEF Gone

\* What is in the buffer when the lexer is reset is thrown away.
LEMMA AccountedEmptied ==
  ASSUME Steady, Accounted, Empty, UNCHANGED <<line, sent, delivered>>
  PROVE  Accounted'
<1>1. PICK g : Gone(g)
  BY DEF Accounted
<1>2. inbuffer' = <<>> /\ inbuffer \in Seq(Chars) /\ line \in Seq(Chars)
  BY DEF Empty, Steady, TypeOK
<1>3. g \in Seq(Chars) /\ Stream = g \o (inbuffer \o line) /\ Stream' = Stream
  BY <1>1, Zenon DEF Gone, Stream
<1>4. g \o inbuffer \in Seq(Chars) /\ Stream' = (g \o inbuffer) \o (inbuffer' \o line')
  <2>1. (g \o inbuffer) \o line = g \o (inbuffer \o line)
    BY <1>2, <1>3, Regroup, SMTT(30)
  <2>2. <<>> \o line = line
    BY <1>2
  <2> QED
    BY <1>2, <1>3, <2>1, <2>2, ConcatProperties
<1>5. PICK h : h = inbuffer
  OBVIOUS
<1>6. Gone(g \o h)'
  BY <1>1, <1>2, <1>4, <1>5, GoneOn
<1> QED
  BY <1>6 DEF Accounted

\* And what is on the line, when it is flushed.
LEMMA AccountedFlushed ==
  ASSUME Steady, Accounted, NEW what \in {"reset", "init"}, Empty, Flush(what), UNCHANGED delivered
  PROVE  Accounted'
<1> DEFINE p == Mark(what)
<1>1. PICK g : Gone(g)
  BY DEF Accounted
<1>2. p \in Sendable /\ p.text = <<"~">> /\ sent' = Append(sent, p)
  BY DEF Flush, Sendable, Mark
<1>3. line' = <<>> /\ inbuffer' = <<>>
  BY DEF Empty, Flush
<1>4. sent \in Seq(Sendable) /\ delivered \in Deliveries /\ inbuffer \in Seq(Chars) /\ line \in Seq(Chars)
  BY DEF Accounted, Steady, TypeOK
<1>5. p.text \in Seq(Chars)
  BY <1>2, SendableText
<1> HIDE DEF p
<1>6. sent' \in Seq(Sendable) /\ Stream' = Stream \o p.text
  <2>1. <<p>> \in Seq(Sendable) /\ sent' = sent \o <<p>>
    <3> HIDE DEF Sendable
    <3> QED
      BY <1>2, <1>4, AppendIsConcat
  <2>2. /\ sent' \in Seq(Sendable)
        /\ FlattenSeq(TextsOf(sent')) = FlattenSeq(TextsOf(sent)) \o FlattenSeq(TextsOf(<<p>>))
    BY <1>4, <2>1, TextsOfMore
  <2>3. TextsOf(<<p>>) = Append(<<>>, p.text)
    BY DEF TextsOf
  <2>4. FlattenSeq(Append(<<>>, p.text)) = FlattenSeq(<<>>) \o p.text
    <3>1. <<>> \in Seq(Seq(Chars))
      OBVIOUS
    <3> QED
      BY <1>5, <3>1, FlattenAppend, Zenon
  <2>5. <<>> \o p.text = p.text
    BY <1>5
  <2> QED
    BY <2>2, <2>3, <2>4, <2>5, FlattenEmpty DEF Stream
<1>7. PICK t : t \in Seq(Chars) /\ g \in Seq(Chars) /\ Stream = g \o t
  <2>1. inbuffer \o line \in Seq(Chars)
    BY <1>4, ConcatProperties
  <2>2. g \in Seq(Chars) /\ Stream = g \o (inbuffer \o line)
    BY <1>1, Zenon DEF Gone
  <2> QED
    BY <2>1, <2>2
<1>8. PICK r : r = p.text /\ r \in Seq(Chars)
  BY <1>5
<1>9. t \o r \in Seq(Chars) /\ (g \o t) \o r = g \o (t \o r)
  <2>1. g \in Seq(Chars) /\ t \in Seq(Chars) /\ r \in Seq(Chars)
    BY <1>7, <1>8
  <2> QED
    BY <2>1, ConcatProperties, Regroup, SMTT(30)
<1>10. g \o (t \o r) \in Seq(Chars) /\ Stream' = g \o (t \o r)
  BY <1>6, <1>7, <1>8, <1>9, ConcatProperties
<1>11. Stream' = (g \o (t \o r)) \o (inbuffer' \o line')
  <2>1. (g \o (t \o r)) \o (<<>> \o <<>>) = g \o (t \o r)
    BY <1>10
  <2> QED
    BY <1>3, <1>10, <2>1
<1>12. Gone(g \o (t \o r))'
  BY <1>1, <1>9, <1>10, <1>11, GoneOn
<1> QED
  BY <1>4, <1>6, <1>12 DEF Accounted

LEMMA AccountedAlways == Spec => [](Steady /\ Accounted)
<1>1. Init => Steady /\ Accounted
  <2> SUFFICES ASSUME Init PROVE Accounted
    BY SteadyInit
  <2>1. line = <<>> /\ inbuffer = <<>> /\ sent = <<>> /\ delivered = <<>>
    BY DEF Init
  <2>2. <<>> \in Seq(Sendable) /\ <<>> \in Deliveries /\ <<>> \in Seq(Chars)
    BY DEF Deliveries
  <2>3. Stream = <<>>
    <3>1. TextsOf(<<>>) = <<>>
      BY DEF TextsOf
    <3> QED
      BY <2>1, <3>1, FlattenEmpty DEF Stream
  <2>4. <<>> \o (<<>> \o <<>>) = <<>>
    OBVIOUS
  <2>5. \E at \in [1 .. Len(<<>>) -> Nat] : InPlaces(at, <<>>, <<>>)
    <3>1. Len(<<>>) = 0 /\ [k \in 1 .. 0 |-> 0] \in [1 .. 0 -> Nat]
      OBVIOUS
    <3>2. \A at : InPlaces(at, <<>>, <<>>)
      BY <3>1 DEF InPlaces
    <3> QED
      BY <3>1, <3>2
  <2>6. Gone(<<>>)
    BY <2>1, <2>2, <2>3, <2>4, <2>5 DEF Gone
  <2> QED
    BY <2>1, <2>2, <2>6 DEF Accounted
<1>2. Steady /\ Accounted /\ [Next]_vars => (Steady /\ Accounted)'
  <2> SUFFICES ASSUME Steady, Accounted, [Next]_vars PROVE Accounted'
    BY SteadyNext
  <2>1. CASE UNCHANGED vars
    BY <2>1 DEF vars, Accounted, Gone, Stream
  <2> QED
    BY <2>1, AccountedGet, AccountedParse, AccountedSend, AccountedEmptied, AccountedFlushed
       DEF Next, Reset, Reopen
<1> QED
  BY <1>1, <1>2, PTL DEF Spec

\* Whatever is sent and however the reads cut it, each packet that is delivered is a
\* part of what was sent, behind the packets delivered before it: none is made up, put
\* together from two places, delivered twice or out of its turn, good or bad.
THEOREM DeliveriesInOrder == Spec => []DeliveredInOrder
<1>1. Steady /\ Accounted => DeliveredInOrder
  <2> SUFFICES ASSUME Steady, Accounted PROVE DeliveredInOrder
    OBVIOUS
  <2>1. PICK g : Gone(g)
    BY DEF Accounted
  <2>2. g \in Seq(Chars) /\ Stream = g \o (inbuffer \o line)
    BY <2>1, Zenon DEF Gone
  <2>3. PICK at \in [1 .. Len(delivered) -> Nat] : InPlaces(at, delivered, g)
    BY <2>1, Zenon DEF Gone
  <2>4. inbuffer \o line \in Seq(Chars)
    <3>1. inbuffer \in Seq(Chars) /\ line \in Seq(Chars)
      BY DEF Steady, TypeOK
    <3> HIDE DEF Chars
    <3> QED
      BY <3>1, ConcatProperties
  <2>5. InPlaces(at, delivered, g \o (inbuffer \o line))
    BY <2>2, <2>3, <2>4, InPlacesMore DEF Accounted
  <2> QED
    BY <2>2, <2>5, Zenon DEF DeliveredInOrder
<1> QED
  BY <1>1, AccountedAlways, PTL
=============================================================================
