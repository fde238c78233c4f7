---------------------------- MODULE Coordinator ----------------------------
(***************************************************************************)
(* bbridge: every round the coordinator asks each sensor node for its      *)
(* readings over UDP, adds the position that the GPS thread keeps, records *)
(* the data set in a bounded history and sends flat copies of it to the    *)
(* cloud and to the display (coordinator.c, sensorNode.c, gpxlogger.c,     *)
(* cloud.c, lcd.c).  All lists belong to the coordinator's thread; the     *)
(* front is index 1.                                                       *)
(***************************************************************************)
EXTENDS Integers, Sequences, SequencesExt

CONSTANTS
  Addresses,     \* ipv6_addresses_G, a sequence
  NumberOfNodes, \* the 2 written to every data set
  HistoryLimit,  \* the 20 of record_a_set_of_wsn_data
  Ports,         \* the ephemeral ports the kernel binds UDP sockets to
  PortReuse,     \* may a port be given out while an answer to it is under way?
  None,          \* no address, no socket, no data
  Restarts,      \* is the program started again after it has ended?
  MaxRound,      \* bound on the rounds
  MaxFix         \* bound on the fixes of the GPS

Nodes == { Addresses[k] : k \in 1 .. Len(Addresses) }

\* ipv6_addresses_G names every node once, and as many as a data set says.
ASSUME NodesAreKnown ==
  /\ Addresses \in Seq(Nodes) /\ NumberOfNodes = Len(Addresses) /\ NumberOfNodes > 0
  /\ \A k, l \in 1 .. Len(Addresses) : Addresses[k] = Addresses[l] => k = l
ASSUME HistoryHoldsOne == HistoryLimit \in Nat /\ HistoryLimit > 1
ASSUME NoneIsNothing == None \notin Ports /\ None \notin Nodes
ASSUME BoundsAreNat ==
  MaxRound \in Nat /\ MaxRound > 0 /\ MaxFix \in Nat /\ {PortReuse, Restarts} \subseteq BOOLEAN

VARIABLES
  alive,         \* the process runs
  first,         \* history: the round the process began with
  latG, lonG,    \* old_lat_G, old_lon_G: the number of the fix they hold
  pc,            \* where the coordinator is
  round,         \* history: the number of the round
  i,             \* the loop counter of prep_a_set_of_wsn_data
  port, inbox,   \* the port of the open UDP socket and what it has received
  net,           \* requests and answers under way, with the port they came from
  readings,      \* llist_wsn of the data set that is being collected
  lat,           \* its latitude
  wsn,           \* the data set, once it is complete
  hist,          \* ll_wsn_data_history
  sent, lcd      \* history: what the cloud and the display have been sent

process == <<alive, first>>
gps     == <<latG, lonG>>
socket  == <<port, inbox, net>>
set     == <<readings, lat, wsn>>
outputs == <<hist, sent, lcd>>
vars    == <<process, gps, pc, round, i, socket, set, outputs>>

\* get_node_data_at_index: an index equal to the size wraps around.
Get(l, k) == IF l = <<>> \/ Len(l) < k THEN None
             ELSE IF Len(l) = k THEN l[1] ELSE l[k + 1]

\* get_wsn_info pushes the addresses in front of each other.
NodeProps == Reverse(Addresses)

\* A record of the data set: the address written by append_node_id and, as
\* history, the node that answered, the round it was asked in and the last fix
\* when it answered.  A failed recvfrom leaves the record zeroed.
Reading(label, from, asked, fix) == [label |-> label, from |-> from, asked |-> asked, fix |-> fix]

Init ==
  /\ alive = TRUE /\ first = 1
  /\ latG = 0 /\ lonG = 0
  /\ pc = "connect" /\ round = 1 /\ i = 0
  /\ port = None /\ inbox = <<>> /\ net = {}
  /\ readings = <<>> /\ lat = 0 /\ wsn = None
  /\ hist = <<>> /\ sent = <<>> /\ lcd = None

-----------------------------------------------------------------------------
(* The GPS thread.  A double is stored and loaded whole on the boards used; *)
(* the two stores are not one step.                                         *)

WriteLat ==
  /\ alive /\ latG = lonG /\ latG < MaxFix
  /\ latG' = latG + 1
  /\ UNCHANGED <<process, lonG, pc, round, i, socket, set, outputs>>

WriteLon ==
  /\ alive /\ lonG < latG
  /\ lonG' = latG
  /\ UNCHANGED <<process, latG, pc, round, i, socket, set, outputs>>

\* gps_open fails, or gps_mainloop returns after five seconds without data:
\* the thread calls exit.
GpsEnds ==
  /\ alive /\ latG = lonG
  /\ alive' = FALSE
  /\ UNCHANGED <<first, gps, pc, round, i, socket, set, outputs>>

-----------------------------------------------------------------------------
(* The network to the sensor nodes.                                         *)

\* A node answers, early or late; a datagram to a closed port is dropped.
Deliver(m) ==
  /\ alive
  /\ net' = net \ {m}
  /\ inbox' = IF m.port = port THEN Append(inbox, [from |-> m.node, asked |-> m.round, fix |-> lonG])
                               ELSE inbox
  /\ UNCHANGED <<process, gps, pc, round, i, port, set, outputs>>

\* A request or its answer is lost.
Lose(m) ==
  /\ alive
  /\ net' = net \ {m}
  /\ UNCHANGED <<process, gps, pc, round, i, port, inbox, set, outputs>>

-----------------------------------------------------------------------------
(* The coordinator.                                                         *)

At(l) == alive /\ pc = l

\* initiate_connection_2_cloud tries until it succeeds.
Connected ==
  /\ At("connect")
  /\ pc' = "ask"
  /\ UNCHANGED <<process, gps, round, i, socket, set, outputs>>

Free(p) == PortReuse \/ \A m \in net : m.port # p

\* Mutant: one socket is kept for all requests.
AskOnOneSocket ==
  /\ At("ask")
  /\ port' = CHOOSE p \in Ports : TRUE
  /\ inbox' = <<>>
  /\ net' = net \union {[node |-> Get(NodeProps, i), port |-> port', round |-> round]}
  /\ pc' = "recv"
  /\ UNCHANGED <<process, gps, round, i, set, outputs>>

\* get_data_from_sensor: a new socket, bound by sendto.
Ask ==
  /\ At("ask")
  /\ \E p \in Ports :
       /\ Free(p)
       /\ port' = p
       /\ net' = net \union {[node |-> Get(NodeProps, i), port |-> p, round |-> round]}
  /\ inbox' = <<>>
  /\ pc' = "recv"
  /\ UNCHANGED <<process, gps, round, i, set, outputs>>

\* The record goes into the list, the socket is closed.
Take(r) ==
  /\ readings' = <<r>> \o readings
  /\ port' = None /\ inbox' = <<>>
  /\ i' = i + 1
  /\ pc' = IF i + 1 < Len(NodeProps) THEN "ask" ELSE "lat"
  /\ UNCHANGED <<process, gps, round, net, lat, wsn, outputs>>

\* recvfrom takes the first datagram, whoever has sent it.
Recv ==
  /\ At("recv")
  /\ inbox # <<>>
  /\ LET m == Head(inbox) IN Take(Reading(Get(NodeProps, i), m.from, m.asked, m.fix))

\* Mutant: no SO_RCVTIMEO.
TimeoutNever ==
  /\ At("recv")
  /\ inbox # <<>>
  /\ Take(Reading(Get(NodeProps, i), None, 0, 0))

\* Mutant: a node that does not answer is left out.
TimeoutSkips ==
  /\ At("recv")
  /\ inbox = <<>>
  /\ port' = None
  /\ i' = i + 1
  /\ pc' = IF i + 1 < Len(NodeProps) THEN "ask" ELSE "lat"
  /\ UNCHANGED <<process, gps, round, inbox, net, set, outputs>>

\* 400 ms have passed.
Timeout ==
  /\ At("recv")
  /\ inbox = <<>>
  /\ Take(Reading(Get(NodeProps, i), None, 0, 0))

ReadLat ==
  /\ At("lat")
  /\ lat' = latG
  /\ pc' = "lon"
  /\ UNCHANGED <<process, gps, round, i, socket, readings, wsn, outputs>>

\* Mutant: the position was taken when the previous data set was recorded.
ReadLonStale ==
  /\ At("lon")
  /\ wsn' = [round |-> round, lat |-> lat, lon |-> IF hist = <<>> THEN 0 ELSE hist[1].lon,
             readings |-> readings]
  /\ pc' = "record"
  /\ UNCHANGED <<process, gps, round, i, socket, readings, lat, outputs>>

ReadLon ==
  /\ At("lon")
  /\ wsn' = [round |-> round, lat |-> lat, lon |-> lonG, readings |-> readings]
  /\ pc' = "record"
  /\ UNCHANGED <<process, gps, round, i, socket, readings, lat, outputs>>

\* record_a_set_of_wsn_data: the oldest set is freed when there are too many.
Record ==
  /\ At("record")
  /\ LET h == <<wsn>> \o hist
     IN hist' = IF HistoryLimit <= Len(h) THEN Front(h) ELSE h
  /\ pc' = "cloud"
  /\ UNCHANGED <<process, gps, round, i, socket, set, sent, lcd>>

\* unroll_wsn_data and unroll_wsn_data_lcd: NumberOfNodes records by index.
Flat(w) == [round |-> w.round, lat |-> w.lat, lon |-> w.lon,
            readings |-> [k \in 1 .. NumberOfNodes |-> Get(w.readings, k - 1)]]

\* Mutant: the oldest set of the history is sent.
SendOldest ==
  /\ At("cloud")
  /\ sent' = Append(sent, Flat(Last(hist)))
  /\ pc' = "lcd"
  /\ UNCHANGED <<process, gps, round, i, socket, set, hist, lcd>>

SendCloud ==
  /\ At("cloud")
  /\ sent' = Append(sent, Flat(wsn))
  /\ pc' = "lcd"
  /\ UNCHANGED <<process, gps, round, i, socket, set, hist, lcd>>

\* The connection is gone: error() exits, or SIGPIPE ends the process first.
WriteFails ==
  /\ At("cloud")
  /\ alive' = FALSE
  /\ UNCHANGED <<first, gps, pc, round, i, socket, set, outputs>>

SendLcd ==
  /\ At("lcd")
  /\ lcd' = Flat(wsn)
  /\ pc' = "sleep"
  /\ UNCHANGED <<process, gps, round, i, socket, set, hist, sent>>

NextRound ==
  /\ At("sleep")
  /\ round < MaxRound
  /\ round' = round + 1
  /\ i' = 0 /\ readings' = <<>> /\ lat' = 0 /\ wsn' = None
  /\ pc' = "ask"
  /\ UNCHANGED <<process, gps, socket, outputs>>

\* Mutant: the history is kept in a file.
RestartWithHistory ==
  /\ Restarts /\ ~alive /\ round < MaxRound
  /\ alive' = TRUE
  /\ round' = round + 1 /\ first' = round + 1
  /\ latG' = 0 /\ lonG' = 0
  /\ pc' = "connect" /\ i' = 0
  /\ port' = None /\ inbox' = <<>>
  /\ readings' = <<>> /\ lat' = 0 /\ wsn' = None
  /\ UNCHANGED <<net, outputs>>

\* The program is started again by hand: it begins with nothing, while answers
\* to the process before may still be under way.
Restart ==
  /\ Restarts /\ ~alive /\ round < MaxRound
  /\ alive' = TRUE
  /\ round' = round + 1 /\ first' = round + 1
  /\ latG' = 0 /\ lonG' = 0
  /\ pc' = "connect" /\ i' = 0
  /\ port' = None /\ inbox' = <<>>
  /\ readings' = <<>> /\ lat' = 0 /\ wsn' = None
  /\ hist' = <<>>
  /\ UNCHANGED <<net, sent, lcd>>

Round == \/ Ask \/ Recv \/ Timeout \/ ReadLat \/ ReadLon
         \/ Record \/ SendCloud \/ WriteFails \/ SendLcd \/ NextRound

Network == \E m \in net : Deliver(m) \/ Lose(m)

Next == WriteLat \/ WriteLon \/ GpsEnds \/ Network \/ Connected \/ Round \/ Restart

Spec == Init /\ [][Next]_vars

-----------------------------------------------------------------------------
(* Properties.                                                             *)

Recorded == [label : Nodes, from : Nodes \union {None}, asked : 0 .. MaxRound, fix : 0 .. MaxFix]
DataSets == [round : 1 .. MaxRound, lat : 0 .. MaxFix, lon : 0 .. MaxFix, readings : Seq(Recorded)]

\* The variables keep to their domains; in particular every record of a flat
\* copy exists.
TypeOK ==
  /\ alive \in BOOLEAN /\ first \in 1 .. round
  /\ latG \in 0 .. MaxFix /\ lonG \in 0 .. MaxFix
  /\ pc \in {"connect", "ask", "recv", "lat", "lon", "record", "cloud", "lcd", "sleep"}
  /\ round \in 1 .. MaxRound /\ i \in 0 .. Len(Addresses)
  /\ port \in Ports \union {None}
  /\ inbox \in Seq([from : Nodes, asked : 1 .. MaxRound, fix : 0 .. MaxFix])
  /\ net \subseteq [node : Nodes, port : Ports, round : 1 .. MaxRound]
  /\ readings \in Seq(Recorded)
  /\ lat \in 0 .. MaxFix
  /\ wsn \in DataSets \union {None}
  /\ hist \in Seq(DataSets)
  /\ sent \in Seq(DataSets)
  /\ lcd \in DataSets \union {None}

Least(a, b) == IF a < b THEN a ELSE b

\* The rounds of this process whose data set has been recorded.
Taken == (IF pc \in {"cloud", "lcd", "sleep"} THEN round ELSE round - 1) - first + 1

\* The history holds the latest HistoryLimit - 1 data sets of this process, the
\* newest first, and the one in use has not been freed.
HistoryIsLatest ==
  /\ Len(hist) = Least(Taken, HistoryLimit - 1)
  /\ \A k \in 1 .. Len(hist) : hist[k].round = first + Taken - k
  /\ pc \in {"cloud", "lcd", "sleep"} => hist # <<>> /\ hist[1] = wsn

\* Whatever nodes answered, in time, late or not at all, a flat copy has
\* exactly one record for every node.
OneReadingPerNode ==
  \A k \in 1 .. Len(sent) :
    LET r == sent[k].readings
    IN /\ \A j \in 1 .. NumberOfNodes : r[j] \in Recorded
       /\ \A n \in Nodes : \E j \in 1 .. NumberOfNodes :
            \A l \in 1 .. NumberOfNodes : r[l].label = n <=> l = j

\* The cloud is sent every round's set once, in order, and the display the same;
\* only a set whose process ended in its round is missing.
SentAsCollected ==
  /\ \A k \in 1 .. Len(sent) - 1 : sent[k].round < sent[k + 1].round
  /\ { sent[k].round : k \in 1 .. Len(sent) } \intersect (first .. MaxRound) =
       first .. IF pc \in {"lcd", "sleep"} THEN round ELSE round - 1
  /\ pc = "sleep" => lcd = Last(sent)

\* The position of a data set may be put together from two fixes, since nothing
\* protects the GPS thread's variables, but both are at least as recent as every
\* reading in it and as the position the process sent before, and the longitude
\* is at most one fix behind the latitude.
PositionIsRecent ==
  \A k \in 1 .. Len(sent) :
    /\ \A j \in 1 .. NumberOfNodes :
         sent[k].readings[j].fix <= Least(sent[k].lat, sent[k].lon)
    /\ sent[k].lon >= sent[k].lat - 1
    /\ k > 1 /\ sent[k - 1].round >= first =>
         sent[k - 1].lat <= sent[k].lat /\ sent[k - 1].lon <= sent[k].lon
=============================================================================
