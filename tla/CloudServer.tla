---------------------------- MODULE CloudServer ----------------------------
(***************************************************************************)
(* cloudServer: one thread accepts a bridge's connection, reads data sets   *)
(* from it until it ends, and for each of them writes a file that a script  *)
(* inserts into the database (server2.c, insert.sh).  The bridges and the   *)
(* network are the environment.                                             *)
(*                                                                          *)
(* Data sets are numbered in the order they are written.  A connection      *)
(* carries consecutive ones, so that it is the interval of the sets that    *)
(* have been written to it and not been read.                               *)
(***************************************************************************)
EXTENDS Integers, Sequences, FiniteSets

CONSTANTS
  SetSize,       \* bytes of a flat data set, 184
  PayloadMax,    \* maxPayloadSize, 512
  Backlog,       \* the 5 of listen
  SockBuf,       \* data sets that fit into a socket
  MaxConn,       \* bound on the connections
  MaxSet         \* bound on the data sets written

ASSUME SetFits == SetSize \in Nat \ {0} /\ PayloadMax \in Nat /\ SetSize <= PayloadMax
ASSUME LimitsAreNat == Backlog \in Nat /\ SockBuf \in Nat /\ MaxConn \in Nat /\ MaxSet \in Nat

VARIABLES
  written,       \* data sets written by bridges so far
  conn,          \* the connections, in the order they were made
  up,            \* a bridge runs and holds the last connection
  accepted,      \* connections accepted; the last of them is being read
  spc,           \* where the server is
  off,           \* bytes of the first unread data set that have been read
  wsn,           \* the data set in hand, 0 for none
  llist_dataset, \* the data sets handled, the latest first
  file,          \* rawData.sql: the data sets its rows are of
  db,            \* the data sets inserted
  crowd,         \* history: the most data sets a read has found
  faulty         \* history: the network or an insert has failed

bridge == <<written, up>>
server == <<accepted, spc, off, wsn, llist_dataset, file, db, crowd>>
vars   == <<bridge, conn, server, faulty>>

\* end: "open"; "fin", the bridge has closed; "reset", the next read fails once;
\* "silent", the bridge is gone and nothing has told the server; "half", the
\* server is gone and the bridge has not been told.
Connection(head, tail, end) == [head |-> head, tail |-> tail, end |-> end]

Unread(c) == c.tail - c.head + 1

Init ==
  /\ written = 0 /\ conn = <<>> /\ up = FALSE
  /\ accepted = 0 /\ spc = "accept" /\ off = 0 /\ wsn = 0
  /\ llist_dataset = <<>> /\ file = <<>> /\ db = <<>>
  /\ crowd = 0 /\ faulty = FALSE

-----------------------------------------------------------------------------
(* The bridge's side (cloud.c) and the network.                             *)

Link == conn[Len(conn)]

SetLink(c) == conn' = [conn EXCEPT ![Len(conn)] = c]

\* initiate_connection_2_cloud: the kernel completes a connection as long as
\* there is room in the queue of those not accepted yet.
Connect ==
  /\ ~up /\ spc # "dead"
  /\ Len(conn) < MaxConn /\ Len(conn) - accepted <= Backlog
  /\ conn' = Append(conn, Connection(written + 1, written, "open"))
  /\ up' = TRUE
  /\ UNCHANGED <<written, server, faulty>>

\* write blocks while the socket is full.
Write ==
  /\ up /\ Link.end = "open" /\ Unread(Link) < SockBuf
  /\ written < MaxSet /\ written' = written + 1
  /\ SetLink([Link EXCEPT !.tail = written + 1])
  /\ UNCHANGED <<up, server, faulty>>

\* A write that the kernel takes and that arrives nowhere; a server that is gone
\* answers it with a reset.
WriteLost ==
  /\ up /\ Link.end \in {"half", "silent"}
  /\ written < MaxSet /\ written' = written + 1
  /\ SetLink([Link EXCEPT !.end = IF @ = "half" THEN "reset" ELSE @])
  /\ faulty' = TRUE
  /\ UNCHANGED <<up, server>>

\* A write would fail.
Broken == up /\ Link.end \in {"reset", "fin", "silent"}

\* The bridge's process ends, by itself or because a write has failed.
BridgeEnds ==
  /\ up /\ up' = FALSE
  /\ SetLink([Link EXCEPT !.end = IF @ \in {"open", "half"} THEN "fin" ELSE @])
  /\ UNCHANGED <<written, server, faulty>>

\* The connection is cut, with or without a reset; what had not arrived is lost.
Cut(end) ==
  /\ up /\ Link.end = "open"
  /\ \E t \in Link.head - (IF off = 0 \/ accepted < Len(conn) THEN 1 ELSE 0) .. Link.tail :
       SetLink([Link EXCEPT !.tail = t, !.end = end])
  /\ faulty' = TRUE
  /\ UNCHANGED <<bridge, server>>

Environment ==
  Connect \/ Write \/ WriteLost \/ BridgeEnds \/ \E end \in {"reset", "silent"} : Cut(end)

-----------------------------------------------------------------------------
(* The server, the loop of main.                                            *)

At(l) == spc = l

Cur == conn[accepted]

Least(a, b) == IF a < b THEN a ELSE b
Most(a, b)  == IF a < b THEN b ELSE a

Accept ==
  /\ At("accept") /\ accepted < Len(conn)
  /\ accepted' = accepted + 1
  /\ spc' = "read"
  /\ UNCHANGED <<bridge, conn, off, wsn, llist_dataset, file, db, crowd, faulty>>

\* Bytes that have arrived and not been read.
Waiting == Unread(Cur) * SetSize - off

\* Mutant: the buffer holds one data set and a terminating zero.
ReadLimitOne == SetSize + 1

ReadLimit == PayloadMax

\* Where a read leaves off, counted from the start of the first unread set.
Upto == off + Least(ReadLimit, Waiting)

\* The connection after a read of n whole sets.
Consumed(n) == [conn EXCEPT ![accepted].head = @ + n]

\* roll_wsn_data, print_sensor_payload, add_rolled_wsn_data_to_ll: the data set
\* at the start of the buffer; what follows it in the buffer is not looked at.
HandleFirst ==
  /\ wsn' = Cur.head
  /\ llist_dataset' = <<wsn'>> \o llist_dataset
  /\ spc' = "file"
  /\ conn' = Consumed(Upto \div SetSize)

\* The buffer starts in the middle of a data set, and number_of_nodes is what
\* lies there: the bytes of a reading.  Zero makes a data set without rows,
\* anything else runs past the buffer.
HandleNoRows ==
  /\ wsn' = 0
  /\ llist_dataset' = <<0>> \o llist_dataset
  /\ spc' = "file"
  /\ conn' = Consumed(Upto \div SetSize)

\* The kernel resets the connections of a process that ends with data unread or
\* not accepted, and closes the others.
HandleCrashes ==
  /\ spc' = "dead"
  /\ conn' = [k \in DOMAIN conn |->
                [Consumed(Upto \div SetSize)[k] EXCEPT
                   !.end = IF @ # "open" THEN @
                           ELSE IF k > accepted \/ Upto < off + Waiting THEN "reset" ELSE "half"]]
  /\ UNCHANGED <<wsn, llist_dataset>>

Read ==
  /\ At("read") /\ Waiting > 0
  /\ off' = Upto % SetSize
  /\ crowd' = Most(crowd, Unread(Cur))
  /\ IF off = 0 THEN HandleFirst ELSE HandleNoRows \/ HandleCrashes
  /\ UNCHANGED <<bridge, accepted, file, db, faulty>>

\* Mutant: the end of a connection is taken for an error and read again.
ReadEndGoesOn ==
  /\ At("read") /\ Waiting = 0 /\ Cur.end = "fin"
  /\ UNCHANGED vars

\* Mutant: a bridge that has closed is left at once, with data sets unread.
ReadEndAtOnce ==
  /\ At("read") /\ off = 0 /\ Cur.end = "fin"
  /\ spc' = "accept"
  /\ UNCHANGED <<bridge, conn, accepted, off, wsn, llist_dataset, file, db, crowd, faulty>>

\* read returns 0: the connection is closed.
ReadEnd ==
  /\ At("read") /\ Waiting = 0 /\ Cur.end = "fin"
  /\ spc' = "accept"
  /\ UNCHANGED <<bridge, conn, accepted, off, wsn, llist_dataset, file, db, crowd, faulty>>

\* read returns -1, and the loop goes on.
ReadError ==
  /\ At("read") /\ Waiting = 0 /\ Cur.end = "reset"
  /\ conn' = [conn EXCEPT ![accepted].end = "fin"]
  /\ UNCHANGED <<bridge, server, faulty>>

Rows(n) == IF n = 0 THEN <<>> ELSE <<n>>

\* Mutant: the file is appended to.
PrepFileAppends ==
  /\ At("file")
  /\ file' = file \o Rows(wsn)
  /\ spc' = "insert"
  /\ UNCHANGED <<bridge, conn, accepted, off, wsn, llist_dataset, db, crowd, faulty>>

\* prep_raw_data_file: fopen truncates, and a row is written for each reading.
PrepFile ==
  /\ At("file")
  /\ file' = Rows(wsn)
  /\ spc' = "insert"
  /\ UNCHANGED <<bridge, conn, accepted, off, wsn, llist_dataset, db, crowd, faulty>>

\* system("./insert.sh"), whose result nobody looks at, and free(wsn).
Insert ==
  /\ At("insert")
  /\ \/ db' = db \o file /\ UNCHANGED faulty
     \/ db' = db /\ faulty' = TRUE
  /\ wsn' = 0
  /\ spc' = "read"
  /\ UNCHANGED <<bridge, conn, accepted, off, llist_dataset, file, crowd>>

Server == Accept \/ Read \/ ReadEnd \/ ReadError \/ PrepFile \/ Insert

Next == Environment \/ Server

Spec == Init /\ [][Next]_vars

\* The server runs and insert.sh comes back; bridges and network owe nothing.
FairSpec == Spec /\ WF_vars(Server)

-----------------------------------------------------------------------------
(* Properties.                                                             *)

Ends == {"open", "fin", "reset", "silent", "half"}

\* The variables keep to their domains; among them, the bytes read of a set are
\* fewer than the set has, and a file has the rows of one set or none.
TypeOK ==
  /\ written \in Nat /\ up \in BOOLEAN /\ faulty \in BOOLEAN
  /\ conn \in Seq([head : Nat \ {0}, tail : Nat, end : Ends])
  /\ up => conn # <<>>
  /\ accepted \in 0 .. Len(conn)
  /\ spc \in {"accept", "read", "file", "insert", "dead"}
  /\ spc # "accept" => accepted > 0
  /\ off \in 0 .. SetSize - 1
  /\ wsn \in Nat /\ crowd \in Nat
  /\ llist_dataset \in Seq(Nat)
  /\ file \in Seq(Nat \ {0}) /\ Len(file) <= 1
  /\ db \in Seq(Nat \ {0})

InHand == IF spc \in {"file", "insert"} THEN 1 ELSE 0

UnreadSets == UNION { conn[k].head .. conn[k].tail : k \in DOMAIN conn }

\* The bridges never wait for an answer, so nothing but time keeps two data sets
\* from being read at once.  As long as none are, and neither the network nor an
\* insert fails, the database holds the first sets written, the one in hand is
\* the next, and the rest are still to be read: none is lost, doubled or
\* overtaken, across any number of bridge restarts.
NothingSkipped ==
  ~faulty /\ crowd <= 1 =>
    /\ \A k \in 1 .. Len(db) : db[k] = k
    /\ InHand = 1 => wsn = Len(db) + 1
    /\ UnreadSets = Len(db) + InHand + 1 .. written

\* The buffer holds PayloadMax \div SetSize data sets, two with the sizes of the
\* code.  As long as a read never finds more, reads begin where data sets begin,
\* and the server survives; sets are lost then, but none is misread.
FramingKept == crowd * SetSize <= PayloadMax => off = 0 /\ spc # "dead"

\* What is stored is stored in the order it was written and once, whatever
\* crowds, fails or is restarted.
J == INSTANCE Journal WITH offered <- written, stored <- db
ImplementsJournal == J!Spec

\* A new connection is accepted once the earlier ones have ended, unless one of
\* them went away without a sign: then the server reads it for ever.
ConnectionServed ==
  \A k \in 1 .. MaxConn :
    Len(conn) >= k ~> \/ accepted >= k
                      \/ spc = "dead"
                      \/ \E i \in DOMAIN conn : i < k /\ conn[i].end = "silent"

\* A data set that is not read together with another is stored in the end,
\* unless something fails.
WrittenIsStored ==
  \A n \in 1 .. MaxSet :
    written >= n ~> (\E k \in 1 .. Len(db) : db[k] = n) \/ faulty \/ crowd > 1
=============================================================================
