----------------------------- MODULE GpsClient -----------------------------
(***************************************************************************)
(* The GPS thread of bbridge and the library it runs: libgps reads what     *)
(* gpsd writes into a buffer, cuts it into lines and hands each line to     *)
(* conditionally_log_fix (libgps_sock.c, gpxlogger.c).  gpsd's socket is    *)
(* the environment, written to as gpsd.c does.                              *)
(***************************************************************************)
EXTENDS Integers, Sequences, SequencesExt

CONSTANTS
  BufSize,       \* the 2 * GPS_JSON_RESPONSE_MAX bytes of the buffer
  Lengths,       \* lengths of the texts of gpsd's lines
  SockBuf,       \* bytes that the two sockets hold
  MaxLine        \* bound on the lines gpsd writes

ASSUME LinesFit == Lengths \subseteq Nat \ {0} /\ \A n \in Lengths : n < BufSize
ASSUME SizesAreNat == {BufSize, SockBuf, MaxLine} \subseteq Nat

VARIABLES
  pc,            \* where the thread is
  buffer,        \* privdata: the buffer, from 0 as in the code,
  waiting,       \* and the number of bytes in it
  logged,        \* history: the texts given to conditionally_log_fix
  link,          \* the connection as the client will find it
  stream,        \* bytes on their way
  wrote,         \* history: lengths of the lines gpsd has written whole
  cut,           \* history: bytes of the line it has written a part of
  ragged         \* history: a recv left off in a line, with room in the buffer

client == <<pc, buffer, waiting, logged, ragged>>
daemon == <<wrote, cut>>
vars   == <<client, link, stream, daemon>>

\* A byte is known by its line and its place; place 0 is the newline.
Nul     == <<0, 1>>
Newline(c) == c[2] = 0

Text(l, n) == [j \in 1 .. n |-> <<l, j>>]
Line(l, n) == Append(Text(l, n), <<l, 0>>)

\* malloc leaves in the buffer what was there.
Init ==
  /\ pc = "open"
  /\ buffer \in [0 .. BufSize - 1 -> {Nul, <<0, 0>>}] /\ waiting = 0
  /\ logged = <<>> /\ ragged = FALSE
  /\ link = "none" /\ stream = <<>>
  /\ wrote = <<>> /\ cut = 0

-----------------------------------------------------------------------------
(* gpsd.  A message for which there is no room at all is dropped.           *)

Room == SockBuf - Len(stream)

\* throttled_write, the whole message.
WriteLine(n) ==
  /\ link = "open" /\ Len(wrote) < MaxLine
  /\ n + 1 <= Room
  /\ stream' = stream \o Line(Len(wrote) + 1, n)
  /\ wrote' = Append(wrote, n)
  /\ UNCHANGED <<client, link, cut>>

\* A short write: gpsd detaches the client.
WritePart(n) ==
  /\ link = "open" /\ Len(wrote) < MaxLine
  /\ 0 < Room /\ Room < n + 1
  /\ stream' = stream \o SubSeq(Line(Len(wrote) + 1, n), 1, Room)
  /\ cut' = Room
  /\ link' = "fin"
  /\ UNCHANGED <<client, wrote>>

\* gpsd ends, or has detached the client for another reason.
DaemonEnds(end) ==
  /\ link = "open"
  /\ link' = end
  /\ UNCHANGED <<client, stream, daemon>>

Daemon == \/ \E n \in Lengths : WriteLine(n) \/ WritePart(n)
          \/ \E end \in {"fin", "reset"} : DaemonEnds(end)

-----------------------------------------------------------------------------
(* The thread.                                                              *)

At(l) == pc = l

\* gps_open and gps_stream.
Open ==
  /\ At("open")
  /\ \/ pc' = "wait" /\ link' = "open"
     \/ pc' = "ended" /\ UNCHANGED link
  /\ UNCHANGED <<buffer, waiting, logged, ragged, stream, daemon>>

\* Mutant: the buffer is not looked at.
WaitForSocket ==
  /\ At("wait")
  /\ stream # <<>> \/ link # "open"
  /\ pc' = "read"
  /\ UNCHANGED <<buffer, waiting, logged, ragged, link, stream, daemon>>

\* gps_waiting: there is something in the buffer, or select says so.
Wait ==
  /\ At("wait")
  /\ waiting > 0 \/ stream # <<>> \/ link # "open"
  /\ pc' = "read"
  /\ UNCHANGED <<buffer, waiting, logged, ragged, link, stream, daemon>>

\* Five seconds without data: gps_mainloop returns, get_gpsd exits.
Timeout ==
  /\ At("wait")
  /\ waiting = 0 /\ stream = <<>> /\ link = "open"
  /\ pc' = "ended"
  /\ link' = "closed"
  /\ UNCHANGED <<buffer, waiting, logged, ragged, stream, daemon>>

\* The scan stops at a newline or at the first byte that is not waiting, and
\* takes that one for the end of a line if it is a newline.
ScanStops(b, w) == { k \in 0 .. w : k < BufSize /\ Newline(b[k]) }

HasLine(b, w) == ScanStops(b, w) # {}

\* Mutant: the bytes that are moved are one too few.
RemainderShort(len) == [k \in 0 .. BufSize - 1 |->
  IF k < waiting - len - 1 THEN buffer[k + len]
  ELSE IF k = len - 1 THEN Nul ELSE buffer[k]]

\* Mutant: the newline is left where it was.
RemainderKeepsNewline(len) == [k \in 0 .. BufSize - 1 |->
  IF k < waiting - len THEN buffer[k + len] ELSE buffer[k]]

\* The newline is overwritten, and what follows the line is moved to the front.
Remainder(len) == [k \in 0 .. BufSize - 1 |->
  IF k < waiting - len THEN buffer[k + len]
  ELSE IF k = len - 1 THEN Nul ELSE buffer[k]]

\* A line: gps_unpack, then the hook, which stores the position and sleeps.
\* A newline that is not waiting makes the length of the move negative.
ReadLine ==
  /\ At("read") /\ HasLine(buffer, waiting)
  /\ LET eol == CHOOSE k \in ScanStops(buffer, waiting) :
                  \A j \in ScanStops(buffer, waiting) : k <= j
     IN IF eol = waiting
        THEN /\ pc' = "crashed"
             /\ UNCHANGED <<buffer, waiting, logged>>
        ELSE /\ logged' = Append(logged, [j \in 1 .. eol |-> buffer[j - 1]])
             /\ buffer' = Remainder(eol + 1)
             /\ waiting' = waiting - (eol + 1)
             /\ pc' = "wait"
  /\ UNCHANGED <<ragged, link, stream, daemon>>

Receiving == At("read") /\ ~HasLine(buffer, waiting)

\* recv returns n bytes, and the buffer is scanned again.
Recv ==
  /\ Receiving
  /\ \E n \in 1 .. BufSize - waiting :
       /\ n <= Len(stream)
       /\ buffer' = [k \in 0 .. BufSize - 1 |->
                       IF waiting <= k /\ k < waiting + n THEN stream[k - waiting + 1] ELSE buffer[k]]
       /\ waiting' = waiting + n
       /\ stream' = SubSeq(stream, n + 1, Len(stream))
       /\ ragged' = (ragged \/ (~Newline(stream[n]) /\ waiting + n < BufSize))
       /\ pc' = IF HasLine(buffer', waiting') THEN "read" ELSE "wait"
  /\ UNCHANGED <<logged, link, daemon>>

\* The socket does not block.  With a part of a line in the buffer select was not
\* asked, and nothing need have arrived yet.
RecvNothing ==
  /\ Receiving /\ waiting > 0
  /\ stream # <<>> \/ link = "open"
  /\ pc' = "wait"
  /\ UNCHANGED <<buffer, waiting, logged, ragged, link, stream, daemon>>

\* Mutant: the end of the connection is not told from an empty socket.
RecvEndIgnored ==
  /\ Receiving
  /\ stream = <<>> /\ link \in {"fin", "reset"}
  /\ link' = "fin"
  /\ pc' = "wait"
  /\ UNCHANGED <<buffer, waiting, logged, ragged, stream, daemon>>

\* recv returns 0, or -1 once and then 0: the end, if nothing is waiting.
RecvEnd ==
  /\ Receiving
  /\ stream = <<>> /\ link \in {"fin", "reset"}
  /\ link' = "fin"
  /\ pc' = IF waiting = 0 THEN "ended" ELSE "wait"
  /\ UNCHANGED <<buffer, waiting, logged, ragged, stream, daemon>>

Thread == Open \/ Wait \/ ReadLine \/ Recv \/ RecvNothing \/ RecvEnd

Next == Daemon \/ Thread \/ Timeout

Spec == Init /\ [][Next]_vars

\* The thread runs, and what is on its way arrives; five seconds need never pass
\* without data.
FairSpec == Spec /\ WF_vars(Thread) /\ SF_vars(Recv)

-----------------------------------------------------------------------------
(* Properties.                                                             *)

Byte == (0 .. MaxLine) \X Nat

\* The variables keep to their domains: waiting never goes below zero or past
\* the buffer.
TypeOK ==
  /\ pc \in {"open", "wait", "read", "ended", "crashed"}
  /\ buffer \in [0 .. BufSize - 1 -> Byte] /\ waiting \in 0 .. BufSize
  /\ logged \in Seq(Seq(Byte)) /\ ragged \in BOOLEAN
  /\ link \in {"none", "open", "fin", "reset", "closed"}
  /\ stream \in Seq(Byte) /\ Len(stream) <= SockBuf
  /\ wrote \in Seq(Lengths) /\ cut \in Nat

Written == FlattenSeq([l \in 1 .. Len(wrote) |-> Line(l, wrote[l])])
             \o [j \in 1 .. cut |-> <<Len(wrote) + 1, j>>]

Taken == FlattenSeq([l \in 1 .. Len(logged) |-> Append(logged[l], <<l, 0>>)])

\* However recv cuts the stream: the lines that have been logged are the first
\* that gpsd wrote, each whole, and what is in the buffer and on its way is all
\* that follows them.
NothingLostInBuffer ==
  Written = Taken \o [j \in 1 .. waiting |-> buffer[j - 1]] \o stream

\* The thread survives as long as every recv returns whole lines or fills the
\* buffer, and the memory malloc returned did not begin with a newline.  A newline
\* of an earlier line stays behind what is waiting, and a recv that leaves off
\* just before it is taken for the end of a line.
SurvivesWholeReads == pc = "crashed" => ragged \/ (logged = <<>> /\ waiting = 0)

\* When gpsd is gone the thread ends the process, unless gpsd has left a part of
\* a line: then gps_read returns 0 for ever, and the position is never again
\* brought up to date.
EndNoticed == link \in {"fin", "reset"} ~> pc \in {"ended", "crashed"} \/ cut > 0

\* Every line that has been written whole is logged, also when gpsd ends after it.
LinesAreLogged ==
  \A n \in 1 .. MaxLine : Len(wrote) >= n ~> Len(logged) >= n \/ pc = "crashed"
=============================================================================
