------------------------------- MODULE Lexer -------------------------------
(***************************************************************************)
(* packet.c of gpsd: packet_get reads what a device has sent into           *)
(* inbuffer, nextstate walks over it one character at a time, and           *)
(* packet_parse takes out a packet when a state of recognition is reached,  *)
(* or the first character when the machine falls back to the ground state,  *)
(* after which everything behind that character is read again.              *)
(*                                                                         *)
(* Of the states those of text are here: comments, NMEA and AIS sentences,  *)
(* JSON.  Left out, as no character leads to them, are the other talkers of *)
(* NMEA, $Ack and $PASHR; in JSON, brackets (as braces in the code), true,  *)
(* false and null (JSON_SPECIAL, left like JSON_NUMBER) and the backslash   *)
(* in a string (JSON_STRING_SOLIDUS).  Of the binary protocols there are    *)
(* only the first states that a letter of a sentence leads to, and no run   *)
(* of letters is taken for an RTCM2 preamble.  A character is a string; the *)
(* two hexadecimal digits of a checksum are one character, and no two       *)
(* bodies have the same checksum.                                           *)
(***************************************************************************)
EXTENDS Naturals, Sequences, SequencesExt

CONSTANTS
  Pieces,        \* what a device may send: texts, with what is said of them
  BufferSize,    \* sizeof(inbuffer) = sizeof(outbuffer)
  MinObject,     \* the shortest JSON object that is taken, 11 in the code
  MaxPieces,     \* the pieces sent are so many
  MaxBurst       \* and so many of them are on the line at once

\* What is said of a text: it is a whole packet; it is a sentence that was cut, in the
\* payload ("open"), or behind a character that the lexer pushes back from without a
\* discard ("clip"); it is a broken JSON object ("broken"), cut in a string ("quote").
\* None of all is noise.
Traits == {"whole", "open", "clip", "broken", "quote"}

Alphas == {"G", "P", "I", "A", "V", "x"}
Digits == {"1", "2", "3"}
Spaces == {"\r", "\n"}
Printable == Alphas \union Digits \union {"#", "$", "!", "*", "{", "}", "\"", ":", ","}
Chars == Printable \union Spaces \union {"~"}

ASSUME LexerAssumption ==
  /\ \A p \in Pieces : p.is \in SUBSET Traits /\ p.text \in Seq(Chars) /\ p.text # <<>>
  /\ BufferSize \in Nat \ {0} /\ MinObject \in Nat
  /\ MaxPieces \in Nat /\ MaxBurst \in Nat

VARIABLES
  line,          \* sent by the device and not yet read
  inbuffer,      \* inbuflen is its length
  inbufptr,      \* how many of its characters have been looked at
  state, json_depth, json_after,
  pc,            \* "idle": between two calls of packet_get, "parse": in packet_parse
  sent,          \* all pieces sent, and when the line was flushed: history
  thrown,        \* the pieces of them that a reset has thrown away: history
  delivered      \* all packets accepted: history

vars == <<line, inbuffer, inbufptr, state, json_depth, json_after, pc, sent, thrown, delivered>>

-----------------------------------------------------------------------------
(* nextstate *)

Same(S, s) == [c \in S |-> s]
One(c, s)  == Same({c}, s)

\* As f leads, and where it does not as g does.
f ++ g == [c \in DOMAIN f \union DOMAIN g |-> IF c \in DOMAIN f THEN f[c] ELSE g[c]]

\* The states a character that is taken leads to.
Leaders == One("#", "COMMENT_BODY") ++ One("$", "NMEA_DOLLAR") ++ One("!", "NMEA_BANG")

Moves ==
  [GROUND        |-> Leaders ++ One("P", "GEOSTAR_LEADER_1") ++ One("A", "ASTRAL_1"),
   COMMENT_BODY  |-> One("\n", "COMMENT_RECOGNIZED") ++ Same(Printable, "COMMENT_BODY"),
   NMEA_DOLLAR   |-> One("G", "NMEA_PUB_LEAD") ++ One("P", "NMEA_VENDOR_LEAD")
                     ++ One("I", "SEATALK_LEAD_1") ++ One("A", "SIRF_ACK_LEAD_1"),
   NMEA_PUB_LEAD  |-> Same({"P"}, "NMEA_LEADER_END"),
   NMEA_VENDOR_LEAD |-> One("A", "NMEA_PASHR_A") ++ Same(Alphas, "NMEA_LEADER_END"),
   NMEA_PASHR_A   |-> Same(Alphas, "NMEA_LEADER_END"),   \* 'S' is not in Chars
   SIRF_ACK_LEAD_1 |-> Same({"I"}, "AIS_LEAD_2"),        \* nor is 'c'
   SEATALK_LEAD_1 |-> Same({"I"}, "NMEA_LEADER_END"),
   NMEA_BANG     |-> Same({"A"}, "AIS_LEAD_1"),
   AIS_LEAD_1    |-> Same({"I"}, "AIS_LEAD_2"),
   AIS_LEAD_2    |-> Same(Alphas, "NMEA_LEADER_END"),
   NMEA_LEADER_END |-> One("\r", "NMEA_CR") ++ One("\n", "NMEA_RECOGNIZED")
                       ++ Same(Printable \ {"$"}, "NMEA_LEADER_END"),
   NMEA_CR       |-> One("\n", "NMEA_RECOGNIZED") ++ One("\r", "NMEA_CR"),
   NMEA_RECOGNIZED  |-> Leaders,
   GEOSTAR_LEADER_1 |-> <<>>,   \* 'S' leads on, and is not in Chars
   ASTRAL_1      |-> <<>>,
   JSON_LEADER   |-> Same(Spaces \union {"{", "}", ","}, "JSON_LEADER")
                     ++ One("\"", "JSON_STRINGLITERAL"),
   JSON_STRINGLITERAL |-> One("\"", "json_after") ++ Same(Chars, "JSON_STRINGLITERAL"),
   JSON_END_ATTRIBUTE |-> Same(Spaces, "JSON_END_ATTRIBUTE") ++ One(":", "JSON_EXPECT_VALUE"),
   JSON_EXPECT_VALUE  |-> Same(Spaces, "JSON_EXPECT_VALUE") ++ One("\"", "JSON_STRINGLITERAL")
                          ++ Same(Digits, "JSON_NUMBER"),
   JSON_NUMBER    |-> Same(Digits, "JSON_NUMBER"),
   JSON_END_VALUE |-> Same(Spaces, "JSON_END_VALUE") ++ One(",", "JSON_LEADER")]

\* The states that push a character back, and the one they go on in.
Pushes ==
  [GROUND             |-> One("{", "JSON_LEADER"),
   NMEA_RECOGNIZED    |-> One("{", "JSON_LEADER"),
   JSON_EXPECT_VALUE  |-> One("{", "JSON_LEADER"),
   JSON_NUMBER        |-> Same(Chars \ Digits, "JSON_END_VALUE"),
   JSON_END_VALUE     |-> One("}", "JSON_LEADER")]


\* Any other character is unexpected.  These states push it back with
\* "return character_pushback(lexer, GROUND_STATE)", which packet_parse takes for a
\* mere change of state: what has been read so far stays in front.  The others go
\* to the ground state and return true, and packet_parse discards a character.
Returning ==
  {"COMMENT_BODY", "NMEA_BANG", "AIS_LEAD_1", "AIS_LEAD_2", "NMEA_RECOGNIZED",
   "SEATALK_LEAD_1", "SIRF_ACK_LEAD_1", "GEOSTAR_LEADER_1", "JSON_END_ATTRIBUTE",
   "JSON_EXPECT_VALUE", "JSON_END_VALUE"}

Taken(s, c) == c \in DOMAIN Moves[s]
PushedOn(s, c) == s \in DOMAIN Pushes /\ c \in DOMAIN Pushes[s]
PushedBack(s, c) == ~Taken(s, c) /\ (PushedOn(s, c) \/ s \in Returning)

Depth(s, c) ==
  IF s # "JSON_LEADER" THEN json_depth
  ELSE IF c = "{" THEN json_depth + 1
  ELSE IF c = "}" THEN json_depth - 1 ELSE json_depth

\* Where the machine goes with c.
NextState(s, c) ==
  IF Taken(s, c) THEN
    LET to == Moves[s][c] IN
    IF s = "JSON_LEADER" /\ c = "}" /\ json_depth = 1 THEN "JSON_RECOGNIZED"
    ELSE IF to = "json_after" THEN json_after ELSE to
  ELSE IF PushedOn(s, c) THEN Pushes[s][c] ELSE "GROUND"

After(s, c) ==
  IF c # "\"" THEN json_after
  ELSE IF s = "JSON_LEADER" THEN "JSON_END_ATTRIBUTE"
  ELSE IF s = "JSON_EXPECT_VALUE" THEN "JSON_END_VALUE" ELSE json_after

-----------------------------------------------------------------------------
(* packet_parse *)

char == inbuffer[inbufptr + 1]
Buffered == Len(inbuffer) - inbufptr

\* The body of a text is what stands between its first character and the '*' of a
\* checksum, which is looked for from the end, past white space and digits.
StarOf(text) ==
  LET Skipped(k) == \A j \in k .. Len(text) : text[j] \in Spaces \union Digits \union {"A"}
      end == CHOOSE k \in 1 .. Len(text) : ~Skipped(k) /\ (k = Len(text) \/ Skipped(k + 1))
  IN  IF text[end] = "*" THEN end ELSE 0

Checksum(text) == SubSeq(text, 2, StarOf(text) + 1)

\* No checksum, or that of a sentence that some device sends.
ChecksumOk(text) ==
  StarOf(text) = 0 \/ \E p \in Pieces : "whole" \in p.is /\ StarOf(p.text) # 0
                                     /\ Checksum(p.text) = Checksum(text)

PacketType(s, text) ==
  IF s = "COMMENT_RECOGNIZED" THEN "COMMENT"
  ELSE IF s = "JSON_RECOGNIZED" THEN IF Len(text) >= MinObject THEN "JSON" ELSE "BAD"
  ELSE IF ~ChecksumOk(text) THEN "BAD"
  ELSE IF IsPrefix(<<"!", "A", "I", "V">>, text) THEN "AIVDM" ELSE "NMEA"

Recognized == {"COMMENT_RECOGNIZED", "NMEA_RECOGNIZED", "JSON_RECOGNIZED"}

\* One character is looked at, and the machine goes to s.
Look(s) ==
  /\ s = NextState(state, char)
  /\ json_depth' = Depth(state, char)
  /\ json_after' = After(state, char)
  /\ UNCHANGED <<line, sent, thrown>>

Looking == pc = "parse" /\ Buffered > 0

\* The character is pushed back, and looked at again in the new state.
PushBack ==
  /\ Looking /\ PushedBack(state, char)
  /\ state' = NextState(state, char)
  /\ Look(state')
  /\ UNCHANGED <<inbuffer, inbufptr, pc, delivered>>

Advance ==
  /\ Looking /\ ~PushedBack(state, char)
  /\ state' = NextState(state, char) /\ state' \notin Recognized \union {"GROUND"}
  /\ Look(state')
  /\ inbufptr' = inbufptr + 1
  /\ UNCHANGED <<inbuffer, pc, delivered>>

\* character_discard, and all that is left is looked at again.
Discard ==
  /\ Looking /\ ~PushedBack(state, char)
  /\ Look("GROUND")
  /\ state' = "GROUND"
  /\ inbuffer' = Tail(inbuffer)
  /\ inbufptr' = 0
  /\ UNCHANGED <<pc, delivered>>

\* packet_discard: everything up to k characters is gone.
PacketDiscard(k) ==
  /\ inbuffer' = SubSeq(inbuffer, k + 1, Len(inbuffer))
  /\ inbufptr' = 0

\* A packet is accepted, unless it fills outbuffer, and packet_parse returns.
Recognize ==
  LET s    == NextState(state, char)
      text == SubSeq(inbuffer, 1, inbufptr + 1)
      type == PacketType(s, text)
  IN
  /\ Looking /\ ~PushedBack(state, char) /\ s \in Recognized
  /\ Look(s)
  /\ delivered' = IF Len(text) < BufferSize THEN Append(delivered, <<type, text>>) ELSE delivered
  /\ state' = IF s = "NMEA_RECOGNIZED" /\ type # "BAD" THEN s ELSE "GROUND"
  /\ PacketDiscard(inbufptr + 1)
  /\ pc' = "idle"

-----------------------------------------------------------------------------
(* packet_get and its callers *)

\* A read of as many characters as there are and fit, possibly fewer, possibly none
\* when an earlier read has left some.  A read of none is the end of the file to the
\* caller, and changes nothing when none is left.
Get ==
  /\ pc = "idle"
  /\ \E n \in 0 .. Len(line) :
       /\ n + Len(inbuffer) <= BufferSize
       /\ n = 0 => Buffered > 0
       /\ inbuffer' = inbuffer \o SubSeq(line, 1, n)
       /\ line' = SubSeq(line, n + 1, Len(line))
  /\ pc' = "parse"
  /\ UNCHANGED <<inbufptr, state, json_depth, json_after, sent, thrown, delivered>>

\* Mutant: a full buffer is kept.
ParsedAllKeeps ==
  /\ pc = "parse" /\ Buffered = 0
  /\ pc' = "idle"
  /\ UNCHANGED <<line, inbuffer, inbufptr, state, json_depth, json_after, sent, thrown, delivered>>

\* The loop of packet_parse has come to the end of the buffer, and a full buffer is
\* discarded.
ParsedAll ==
  /\ pc = "parse" /\ Buffered = 0
  /\ pc' = "idle"
  /\ IF Len(inbuffer) = BufferSize
     THEN PacketDiscard(inbufptr) /\ state' = "GROUND"
     ELSE UNCHANGED <<inbuffer, inbufptr, state>>
  /\ UNCHANGED <<line, json_depth, json_after, sent, thrown, delivered>>

\* The device sends a few pieces, one right after the other.
Send ==
  /\ line = <<>>
  /\ \E n \in 1 .. MaxBurst : \E burst \in [1 .. n -> Pieces] :
       /\ Len(sent) + n <= MaxPieces
       /\ sent' = sent \o burst
       /\ line' = FlattenSeq([k \in 1 .. n |-> burst[k].text])
  /\ UNCHANGED <<inbuffer, inbufptr, state, json_depth, json_after, pc, thrown, delivered>>

Quiet == pc = "idle" /\ line = <<>> /\ Buffered = 0

Mark(what) == [text |-> <<"~">>, is |-> {what}]

\* How much has been sent from the i-th piece on.
Onward(i) == Len(FlattenSeq([k \in 1 .. Len(sent) - i + 1 |-> sent[i + k - 1].text]))

\* The pieces that have not been read to their end, when the buffer is thrown away and
\* so much is left on the line.
Hit(left) == {i \in DOMAIN sent : /\ Onward(i + 1) < Len(inbuffer) + Len(line)
                                 /\ Onward(i) > left}

Empty ==
  /\ state' = "GROUND" /\ inbuffer' = <<>> /\ inbufptr' = 0
  /\ thrown' = thrown \union Hit(Len(line'))

Flush(what) == Len(sent) < MaxPieces /\ line' = <<>> /\ sent' = Append(sent, Mark(what))

\* packet_reset, when gpsd_set_speed tries another speed: between two packets of the
\* buffer, in the middle of one, or when there is none.  A speed that is another one
\* flushes the line.
Reset ==
  /\ pc = "idle"
  /\ Flush("reset") \/ UNCHANGED <<line, sent>>
  /\ Empty
  /\ UNCHANGED <<json_depth, json_after, pc, delivered>>

\* lexer_init, when gpsd_clear gets a device ready that has been opened again.
Reopen ==
  /\ pc = "idle"
  /\ Flush("init")
  /\ Empty
  /\ json_depth' = 0
  /\ UNCHANGED <<json_after, pc, delivered>>

Init ==
  /\ line = <<>> /\ inbuffer = <<>> /\ inbufptr = 0
  /\ state = "GROUND" /\ json_depth = 0 /\ json_after = "GROUND"
  /\ pc = "idle" /\ sent = <<>> /\ thrown = {} /\ delivered = <<>>

Parse == PushBack \/ Advance \/ Discard \/ Recognize \/ ParsedAll
Next == Get \/ Parse \/ Send \/ Reset \/ Reopen

Spec == Init /\ [][Next]_vars

\* packet_parse is a loop of one thread, and gpsd polls a device that has sent
\* something.
FairSpec == Spec /\ WF_vars(Parse) /\ WF_vars(Get)

-----------------------------------------------------------------------------
(* What the lexer promises *)

TypeOK ==
  /\ line \in Seq(Chars) /\ inbuffer \in Seq(Chars) /\ Len(inbuffer) <= BufferSize
  /\ inbufptr \in 0 .. Len(inbuffer)
  /\ state \in DOMAIN Moves /\ json_depth \in Nat
  /\ json_after \in {"GROUND", "JSON_END_ATTRIBUTE", "JSON_END_VALUE"}
  /\ pc \in {"idle", "parse"}

Whole == {p \in Pieces : "whole" \in p.is}

\* The payload of a sentence that has been cut goes on where the i-th piece begins.
InPayload(i) ==
  \E j \in 1 .. i - 1 :
    /\ "open" \in sent[j].is
    /\ \A k \in j + 1 .. i - 1 : \A m \in DOMAIN sent[k].text :
         sent[k].text[m] \notin Spaces \union {"$", "~"}

\* The line has been flushed between the j-th piece and the i-th.
Flushed(j, i, how) == \E k \in j + 1 .. i - 1 : sent[k].is \intersect how # {}

\* A string that has been cut goes on where the i-th piece begins: no other string has
\* begun in between, with the character that ends it.
InString(i) ==
  \E j \in 1 .. i - 1 :
    /\ "quote" \in sent[j].is /\ ~Flushed(j, i, {"reset", "init"})
    /\ \A k \in j + 1 .. i - 1 : \A m \in DOMAIN sent[k].text : sent[k].text[m] # "\""

\* A JSON object has been broken, or thrown away, since the device was opened.
Broken(i) ==
  \E j \in 1 .. i - 1 :
    /\ "broken" \in sent[j].is \/ (j \in thrown /\ Head(sent[j].text) = "{")
    /\ ~Flushed(j, i, {"init"})

\* Nothing before the i-th piece, and no reset, stands in its way.
Clear(i) ==
  LET first == Head(sent[i].text) IN
  /\ i \notin thrown
  /\ i > 1 => "clip" \notin sent[i - 1].is
  /\ first # "$" => ~InPayload(i)
  /\ ~InString(i)
  /\ first = "{" => ~Broken(i)

\* The i-th piece is a packet that the lexer finds without fail.
Findable(i) == sent[i] \in Whole /\ Clear(i)

\* What is taken out of a piece: an object ends with its brace, anything else with
\* its line.
Packet(p) == IF Head(p.text) = "{" THEN Front(p.text) ELSE p.text

Found ==
  LET Wanted(d) == d[1] # "BAD" /\ \E p \in Whole : Packet(p) = d[2]
  IN  [k \in DOMAIN SelectSeq(delivered, Wanted) |-> SelectSeq(delivered, Wanted)[k][2]]


\* A read of packet_get has room: packet_parse leaves characters to be looked at, for
\* which no read is needed, or a buffer that is not full.  A read without room would
\* be taken for the end of the device.
ReadHasRoom == pc = "idle" => Buffered > 0 \/ Len(inbuffer) < BufferSize

\* The states behind the first brace of a JSON object.
InObject ==
  {"JSON_STRINGLITERAL", "JSON_END_ATTRIBUTE", "JSON_EXPECT_VALUE", "JSON_NUMBER",
   "JSON_END_VALUE"}

\* '}' counts json_depth down without a look at it, and json_depth outlives resets and
\* broken objects.  Still there is an open brace in the middle of an object, and where
\* braces are counted, but for the moment in which the first is still to be counted.
DepthCounted ==
  /\ state \in InObject => json_depth >= 1
  /\ state = "JSON_LEADER" => json_depth >= 1 \/ (Looking /\ char = "{")

\* Each push back of a character leads further down.
Rank(s) ==
  IF s = "JSON_LEADER" THEN 0
  ELSE IF s = "GROUND" THEN 1
  ELSE IF s = "JSON_NUMBER" THEN 3 ELSE 2

\* Each turn of the loop of packet_parse shortens the buffer; or it leaves less to be
\* looked at; or it has the character pushed back, to a state from which it is pushed
\* back less often: no two states push a character to one another without an end.
ParseEnds ==
  [][Parse =>
       \/ Len(inbuffer') < Len(inbuffer)
       \/ /\ Len(inbuffer') = Len(inbuffer)
          /\ \/ Buffered' < Buffered
             \/ Buffered' = Buffered /\ (pc' = "idle" \/ Rank(state') < Rank(state))]_vars

\* All that a device sends is read and looked at in the end: packet_parse returns, and
\* the buffer never stays so full that a read has no room.
InputIsConsumed == line # <<>> ~> line = <<>> /\ Buffered = 0
=============================================================================
