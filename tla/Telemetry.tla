----------------------------- MODULE Telemetry -----------------------------
(***************************************************************************)
(* bbridge and cloudServer put together: the coordinator of Coordinator is  *)
(* the bridge that CloudServer leaves to its environment.  The data set     *)
(* that is written n-th is sent[n].                                         *)
(***************************************************************************)
EXTENDS Coordinator

CONSTANTS SetSize, PayloadMax, Backlog, SockBuf, MaxConn

ASSUME SetFits == SetSize \in Nat \ {0} /\ PayloadMax \in Nat /\ SetSize <= PayloadMax
ASSUME LimitsAreNat == Backlog \in Nat /\ SockBuf \in Nat /\ MaxConn \in Nat

VARIABLES conn, accepted, spc, off, handled, llist_dataset, file, db, crowd, faulty

cloud == <<conn, accepted, spc, off, handled, llist_dataset, file, db, crowd, faulty>>

\* The bridge holds a connection from connect to its end.
Cloud == INSTANCE CloudServer
           WITH wsn <- handled, written <- Len(sent), up <- alive /\ pc # "connect",
                MaxSet <- MaxRound

TInit == Init /\ Cloud!Init

-----------------------------------------------------------------------------
(* Steps of both programs together.                                         *)

\* Steps of the bridge that do not concern the cloud.
Aside ==
  /\ \/ WriteLat \/ WriteLon \/ Network \/ Restart
     \/ Ask \/ Recv \/ Timeout \/ ReadLat \/ ReadLon \/ Record \/ SendLcd \/ NextRound
  /\ UNCHANGED cloud

ConnectCloud == Connected /\ Cloud!Connect

\* Mutant: a write that fails is not looked at.
SendIgnoresErrors ==
  /\ SendCloud
  /\ \/ Cloud!Write \/ Cloud!WriteLost
     \/ Cloud!Broken /\ UNCHANGED cloud

Send == SendCloud /\ (Cloud!Write \/ Cloud!WriteLost)

SendFails == WriteFails /\ Cloud!Broken /\ Cloud!BridgeEnds

\* exit in the GPS thread: the kernel closes the connection, if there is one.
Exit ==
  /\ GpsEnds
  /\ IF pc = "connect" THEN UNCHANGED cloud ELSE Cloud!BridgeEnds

Outage == UNCHANGED vars /\ \E end \in {"reset", "silent"} : Cloud!Cut(end)

Serve == UNCHANGED vars /\ Cloud!Server

TNext == Aside \/ ConnectCloud \/ Send \/ SendFails \/ Exit \/ Outage \/ Serve

tvars == <<vars, cloud>>

\* The coordinator's thread and the server keep running; a write on a connection
\* that is lost comes back when TCP gives up.
Turn == \/ (Ask \/ Recv \/ Timeout \/ ReadLat \/ ReadLon \/ Record \/ SendLcd \/ NextRound)
             /\ UNCHANGED cloud
        \/ Send \/ SendFails

\* No datagram is under way for ever.
Passing == Network /\ UNCHANGED cloud

TSpec == TInit /\ [][TNext]_tvars /\ WF_tvars(Turn) /\ WF_tvars(Serve) /\ WF_tvars(Passing)

-----------------------------------------------------------------------------
(* Properties.                                                             *)

\* The bridge is one that the server's model allows for.
IsABridge == Cloud!Spec

\* The rows that one insert adds are the readings of one round, a later one than
\* those before; each is its node's answer to that round's request, or missing.
\* Rounds may be missing, but neither late answers, nor what is left of an
\* earlier process or connection, reach the database under another round.
DatabaseIsInRounds ==
  \A k \in 1 .. Len(db) :
    LET d == sent[db[k]]
    IN /\ k > 1 => sent[db[k - 1]].round < d.round
       /\ \A j \in 1 .. NumberOfNodes :
            d.readings[j].from # None =>
              d.readings[j].from = d.readings[j].label /\ d.readings[j].asked = d.round

\* Rounds go on, the display is served, as long as the server can be: they stop
\* only when the process ends, or when a write waits for a server that reads a
\* connection which is gone for ever.
RoundsGoOn ==
  (alive /\ pc = "ask") ~>
    \/ pc = "sleep" \/ ~alive
    \/ spc = "read" /\ conn[accepted].end = "silent" /\ accepted < Len(conn)
=============================================================================
