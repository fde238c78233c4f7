----------------------------- MODULE GpsdProof -----------------------------
(* Proofs about Gpsd, for any numbers of clients, devices and descriptors,   *)
(* any paths, requests, reads, signals and timeouts.                         *)
EXTENDS Gpsd, FiniteSetTheorems, WellFoundedInduction, TLAPS

-----------------------------------------------------------------------------
(* The inductive invariant, part by part.                                   *)

\* An open descriptor has one owner, which has it as what it is; what is closed
\* has nothing to read.
Owners ==
  /\ \A s \in Slots : Active(s) <=> sub[s].fd # None
  /\ \A s \in Slots : sub[s].fd # None => file[sub[s].fd] = "client"
  /\ \A s, t \in Slots : sub[s].fd # None /\ sub[s].fd = sub[t].fd => s = t
  /\ \A f \in Fds : file[f] = "client" => \E s \in Slots : sub[s].fd = f
  /\ \A d \in Devices :
       dev[d].fd # None => dev[d].path \in Paths /\ file[dev[d].fd] = dev[d].path
  /\ \A d, e \in Devices : dev[d].fd # None /\ dev[d].fd = dev[e].fd => d = e
  /\ \A f \in Fds : file[f] \in Paths => \E d \in Devices : dev[d].fd = f
  /\ \A f \in Fds : file[f] = "control" <=> cfd = f
  /\ \A f \in Fds : file[f] = "none" => input[f] = "none"

\* Who is waited for, and what the sets of this round still say about those who
\* have not been visited in it.
Waits ==
  /\ \A s \in Slots : sub[s].fd # None => sub[s].fd \in all_fds
  /\ \A d \in Devices : dev[d].fd # None /\ dev[d].reawake = None => dev[d].fd \in all_fds
  /\ \A d \in Devices :
       at <= PollPlace(d) /\ dev[d].fd # None /\ dev[d].fd \in rfds => dev[d].fd \in all_fds
  /\ \A s \in Slots :
       at <= HearPlace(s) /\ sub[s].fd # None /\ sub[s].fd \in rfds => Ready(sub[s].fd)

\* A device of which a packet was read is read again before anything else.
Multipoll ==
  fragments > 0 =>
    /\ pc = "round" /\ at \in Devices
    /\ Allocated(at) /\ IsOpen(at) /\ dev[at].fd \in rfds

\* What each stage of the loop may rely on.
Stages ==
  /\ cfd # None <=> pc = "control"
  /\ pc \notin {"round", "awaken"} => at = 1
  /\ pc = "awaken" => todo # {}
  /\ rfds # {} => pc \in {"control", "round", "awaken"}
  /\ Multipoll

Sound == TypeOK /\ Owners /\ Waits /\ Stages

-----------------------------------------------------------------------------
(* Least elements, and descriptors that are free.                           *)

LEMMA LeastExists ==
  ASSUME NEW S \in SUBSET Nat, S # {}
  PROVE  Min(S) \in S /\ \A y \in S : Min(S) <= y
<1>1. PICK x \in S : \A y \in S : ~ (<<y, x>> \in OpToRel(<, Nat))
  BY NatLessThanWellFounded, WFMin
<1>2. OpToRel(<, Nat) = { ss \in Nat \X Nat : ss[1] < ss[2] }
  BY Zenon DEF OpToRel
<1>3. \A y \in S : x <= y
  <2> SUFFICES ASSUME NEW y \in S, y < x
               PROVE  FALSE
    OBVIOUS
  <2>1. <<y, x>> \in Nat \X Nat /\ <<y, x>>[1] = y /\ <<y, x>>[2] = x
    OBVIOUS
  <2>2. <<y, x>> \in { ss \in Nat \X Nat : ss[1] < ss[2] }
    BY <2>1
  <2> QED
    BY <1>1, <1>2, <2>2, Zenon
<1> QED
  BY <1>3 DEF Min

\* The places where a descriptor may be held: the control connection, the
\* clients, the devices.
Holders == 0 .. MaxClients + MaxDevices

\* If one of them holds none, there is a descriptor that nobody holds.
LEMMA OneIsFree ==
  ASSUME NEW h \in [Holders -> Fds \cup {None}], NEW m \in Holders, h[m] = None
  PROVE  \E f \in Fds : \A n \in Holders : h[n] # f
<1> DEFINE Full == MaxClients + MaxDevices
<1>0. Full \in Nat /\ MaxFd \in Nat /\ Full < MaxFd /\ Holders = 0 .. Full
  BY Counts, DescriptorsSuffice DEF Holders
<1> HIDE DEF Full
<1> SUFFICES ASSUME \A f \in Fds : \E n \in Holders : h[n] = f
             PROVE  FALSE
  OBVIOUS
<1> DEFINE own == [f \in Fds |-> CHOOSE n \in Holders : h[n] = f]
           Rest == Holders \ {m}
<1>1. \A f \in Fds : own[f] \in Holders /\ h[own[f]] = f
  OBVIOUS
<1>2. \A f \in Fds : f # None
  BY DEF Fds, None
<1>3. own \in [Fds -> Rest]
  <2>1. \A f \in Fds : own[f] \in Rest
    BY <1>1, <1>2
  <2> QED
    BY <2>1
<1>4. IsFiniteSet(Holders) /\ Cardinality(Holders) = Full + 1
  BY <1>0, FS_Interval
<1>5. IsFiniteSet(Rest) /\ Cardinality(Rest) = Full
  <2>1. IsFiniteSet(Holders \ {m}) /\ Cardinality(Holders \ {m}) = Cardinality(Holders) - 1
    BY <1>4, FS_RemoveElement
  <2>2. Cardinality(Holders) - 1 = Full
    BY <1>0, <1>4
  <2> QED
    BY <2>1, <2>2
<1>6. IsFiniteSet(Fds) /\ Cardinality(Fds) = MaxFd
  <2>1. 1 \in Int /\ MaxFd \in Int
    BY <1>0
  <2>2. /\ IsFiniteSet(1 .. MaxFd)
        /\ Cardinality(1 .. MaxFd) = IF 1 > MaxFd THEN 0 ELSE (MaxFd - 1) + 1
    BY <2>1, FS_Interval, Zenon
  <2> QED
    BY <1>0, <2>1, <2>2 DEF Fds
<1> HIDE DEF own, Rest
<1>7. \E f, g \in Fds : f # g /\ own[f] = own[g]
  BY <1>0, <1>3, <1>5, <1>6, FS_PigeonHole
<1> QED
  BY <1>1, <1>7

-----------------------------------------------------------------------------
(* The records of clients and devices.                                      *)

Client == [fd : Fds \cup {None}, active : Ages, watcher : BOOLEAN, devpath : Paths \cup {""}]
Device == [path : Paths \cup {""}, fd : Fds \cup {None}, typed : BOOLEAN,
           releasetime : Ages, opentime : Ages, reawake : {None, 0, 1}, zerokill : BOOLEAN]

\* The greatest of the three timeouts is one of them.
LEMMA AgesAre ==
  /\ Old \in Nat /\ None \in Ages /\ 0 \in Ages
  /\ \A t \in Ages : Older(t) \in Ages /\ (Older(t) = None <=> t = None)
<1> DEFINE S == {CommandTimeout, ReleaseTimeout, Reconnect}
<1>1. S \subseteq Nat
  BY Times
<1>2. \E x \in S : \A y \in S : x >= y
  BY Times
<1>3. Max(S) \in S
  BY <1>2 DEF Max
<1>4. Old \in Nat /\ Old > 0
  BY <1>1, <1>3 DEF Old
<1> HIDE DEF S
<1> QED
  BY <1>4 DEF Ages, Older, None

\* One field of a device after the other.
LEMMA SetFd ==
  ASSUME NEW r \in Device, NEW f \in Fds \cup {None}
  PROVE  /\ [r EXCEPT !.fd = f] \in Device
         /\ [r EXCEPT !.fd = f].fd = f
         /\ [r EXCEPT !.fd = f].path = r.path
         /\ [r EXCEPT !.fd = f].reawake = r.reawake
BY DEF Device

LEMMA SetPath ==
  ASSUME NEW r \in Device, NEW p \in Paths \cup {""}
  PROVE  /\ [r EXCEPT !.path = p] \in Device
         /\ [r EXCEPT !.path = p].fd = r.fd
         /\ [r EXCEPT !.path = p].path = p
         /\ [r EXCEPT !.path = p].reawake = r.reawake
BY DEF Device

LEMMA SetTyped ==
  ASSUME NEW r \in Device, NEW b \in BOOLEAN
  PROVE  /\ [r EXCEPT !.typed = b] \in Device
         /\ [r EXCEPT !.typed = b].fd = r.fd
         /\ [r EXCEPT !.typed = b].path = r.path
         /\ [r EXCEPT !.typed = b].reawake = r.reawake
BY DEF Device

LEMMA SetReleasetime ==
  ASSUME NEW r \in Device, NEW t \in Ages
  PROVE  /\ [r EXCEPT !.releasetime = t] \in Device
         /\ [r EXCEPT !.releasetime = t].fd = r.fd
         /\ [r EXCEPT !.releasetime = t].path = r.path
         /\ [r EXCEPT !.releasetime = t].reawake = r.reawake
BY DEF Device

LEMMA SetOpentime ==
  ASSUME NEW r \in Device, NEW t \in Ages
  PROVE  /\ [r EXCEPT !.opentime = t] \in Device
         /\ [r EXCEPT !.opentime = t].fd = r.fd
         /\ [r EXCEPT !.opentime = t].path = r.path
         /\ [r EXCEPT !.opentime = t].reawake = r.reawake
BY DEF Device

LEMMA SetReawake ==
  ASSUME NEW r \in Device, NEW n \in {None, 0, 1}
  PROVE  /\ [r EXCEPT !.reawake = n] \in Device
         /\ [r EXCEPT !.reawake = n].fd = r.fd
         /\ [r EXCEPT !.reawake = n].path = r.path
         /\ [r EXCEPT !.reawake = n].reawake = n
BY DEF Device

LEMMA SetZerokill ==
  ASSUME NEW r \in Device, NEW b \in BOOLEAN
  PROVE  /\ [r EXCEPT !.zerokill = b] \in Device
         /\ [r EXCEPT !.zerokill = b].fd = r.fd
         /\ [r EXCEPT !.zerokill = b].path = r.path
         /\ [r EXCEPT !.zerokill = b].reawake = r.reawake
BY DEF Device

\* And of a client.
LEMMA SetClientFd ==
  ASSUME NEW r \in Client, NEW f \in Fds \cup {None}
  PROVE  /\ [r EXCEPT !.fd = f] \in Client
         /\ [r EXCEPT !.fd = f].fd = f
         /\ [r EXCEPT !.fd = f].active = r.active
         /\ [r EXCEPT !.fd = f].watcher = r.watcher
         /\ [r EXCEPT !.fd = f].devpath = r.devpath
BY DEF Client

LEMMA SetActive ==
  ASSUME NEW r \in Client, NEW t \in Ages
  PROVE  /\ [r EXCEPT !.active = t] \in Client
         /\ [r EXCEPT !.active = t].fd = r.fd
         /\ [r EXCEPT !.active = t].active = t
         /\ [r EXCEPT !.active = t].watcher = r.watcher
         /\ [r EXCEPT !.active = t].devpath = r.devpath
BY DEF Client

LEMMA SetWatcher ==
  ASSUME NEW r \in Client, NEW b \in BOOLEAN
  PROVE  /\ [r EXCEPT !.watcher = b] \in Client
         /\ [r EXCEPT !.watcher = b].fd = r.fd
         /\ [r EXCEPT !.watcher = b].active = r.active
         /\ [r EXCEPT !.watcher = b].watcher = b
         /\ [r EXCEPT !.watcher = b].devpath = r.devpath
BY DEF Client

LEMMA SetDevpath ==
  ASSUME NEW r \in Client, NEW p \in Paths \cup {""}
  PROVE  /\ [r EXCEPT !.devpath = p] \in Client
         /\ [r EXCEPT !.devpath = p].fd = r.fd
         /\ [r EXCEPT !.devpath = p].active = r.active
         /\ [r EXCEPT !.devpath = p].watcher = r.watcher
         /\ [r EXCEPT !.devpath = p].devpath = p
BY DEF Client

\* A device that is opened, added, put aside or taken up, has been read, or is
\* some time older.
LEMMA DeviceActivated ==
  ASSUME NEW r \in Device, NEW f \in Fds
  PROVE  /\ Activated(r, f) \in Device
         /\ Activated(r, f).fd = f /\ Activated(r, f).path = r.path
         /\ Activated(r, f).reawake = r.reawake
<1> DEFINE q1 == [r EXCEPT !.fd = f]
           q2 == [q1 EXCEPT !.typed = FALSE]
           q3 == [q2 EXCEPT !.releasetime = None]
           q4 == [q3 EXCEPT !.opentime = 0]
<1>1. Activated(r, f) = q4
  BY DEF Activated
<1>2. q1 \in Device /\ q1.fd = f /\ q1.path = r.path /\ q1.reawake = r.reawake
  BY SetFd
<1> HIDE DEF q1
<1>3. q2 \in Device /\ q2.fd = f /\ q2.path = r.path /\ q2.reawake = r.reawake
  BY <1>2, SetTyped
<1> HIDE DEF q2
<1>4. q3 \in Device /\ q3.fd = f /\ q3.path = r.path /\ q3.reawake = r.reawake
  BY <1>3, AgesAre, SetReleasetime
<1> HIDE DEF q3
<1>5. q4 \in Device /\ q4.fd = f /\ q4.path = r.path /\ q4.reawake = r.reawake
  BY <1>4, AgesAre, SetOpentime
<1> QED
  BY <1>1, <1>5, Zenon

Added(r, p) == [r EXCEPT !.path = p, !.fd = None, !.typed = FALSE,
                         !.reawake = None, !.zerokill = FALSE]

LEMMA DeviceAdded ==
  ASSUME NEW r \in Device, NEW p \in Paths
  PROVE  Added(r, p) \in Device /\ Added(r, p).fd = None /\ Added(r, p).path = p
<1> DEFINE q1 == [r EXCEPT !.path = p]
           q2 == [q1 EXCEPT !.fd = None]
           q3 == [q2 EXCEPT !.typed = FALSE]
           q4 == [q3 EXCEPT !.reawake = None]
           q5 == [q4 EXCEPT !.zerokill = FALSE]
<1>1. Added(r, p) = q5
  BY DEF Added
<1>2. q1 \in Device /\ q1.path = p
  BY SetPath
<1> HIDE DEF q1
<1>3. q2 \in Device /\ q2.fd = None /\ q2.path = p
  BY <1>2, SetFd
<1> HIDE DEF q2
<1>4. q3 \in Device /\ q3.fd = None /\ q3.path = p
  BY <1>3, SetTyped
<1> HIDE DEF q3
<1>5. q4 \in Device /\ q4.fd = None /\ q4.path = p
  BY <1>4, SetReawake
<1> HIDE DEF q4
<1>6. q5 \in Device /\ q5.fd = None /\ q5.path = p
  BY <1>5, SetZerokill
<1> QED
  BY <1>1, <1>6, Zenon

LEMMA DeviceRead ==
  ASSUME NEW r \in Device, NEW b \in BOOLEAN
  PROVE  LET q == [r EXCEPT !.typed = b, !.zerokill = FALSE, !.reawake = None]
         IN  q \in Device /\ q.fd = r.fd /\ q.path = r.path
<1> DEFINE q1 == [r EXCEPT !.typed = b]
           q2 == [q1 EXCEPT !.zerokill = FALSE]
           q3 == [q2 EXCEPT !.reawake = None]
<1>1. q1 \in Device /\ q1.fd = r.fd /\ q1.path = r.path
  BY SetTyped
<1> HIDE DEF q1
<1>2. q2 \in Device /\ q2.fd = r.fd /\ q2.path = r.path
  BY <1>1, SetZerokill
<1> HIDE DEF q2
<1>3. q3 \in Device /\ q3.fd = r.fd /\ q3.path = r.path
  BY <1>2, SetReawake
<1> QED
  BY <1>3, Zenon DEF q1, q2

LEMMA DeviceReawoken ==
  ASSUME NEW r \in Device
  PROVE  LET q == [r EXCEPT !.reawake = None, !.zerokill = TRUE]
         IN  q \in Device /\ q.fd = r.fd /\ q.path = r.path
<1> DEFINE q1 == [r EXCEPT !.reawake = None]
           q2 == [q1 EXCEPT !.zerokill = TRUE]
<1>1. q1 \in Device /\ q1.fd = r.fd /\ q1.path = r.path
  BY SetReawake
<1> HIDE DEF q1
<1>2. q2 \in Device /\ q2.fd = r.fd /\ q2.path = r.path
  BY <1>1, SetZerokill
<1> QED
  BY <1>2, Zenon DEF q1

Aged(r) == [r EXCEPT !.releasetime = Older(@), !.opentime = Older(@),
                     !.reawake = IF @ > 0 THEN @ - 1 ELSE @]

LEMMA DeviceAged ==
  ASSUME NEW r \in Device
  PROVE  /\ Aged(r) \in Device /\ Aged(r).fd = r.fd /\ Aged(r).path = r.path
         /\ Aged(r).reawake = None => r.reawake = None
<1> DEFINE n == IF r.reawake > 0 THEN r.reawake - 1 ELSE r.reawake
           q1 == [r EXCEPT !.releasetime = Older(r.releasetime)]
           q2 == [q1 EXCEPT !.opentime = Older(r.opentime)]
           q3 == [q2 EXCEPT !.reawake = n]
<1>0. r.releasetime \in Ages /\ r.opentime \in Ages /\ r.reawake \in {None, 0, 1}
  BY DEF Device
<1>a. q1.opentime = r.opentime /\ q2.reawake = r.reawake
  BY DEF Device
<1>1. Aged(r) = q3
  BY <1>a DEF Aged
<1>2. n \in {None, 0, 1} /\ (n = None => r.reawake = None)
  BY <1>0 DEF None
<1>3. q1 \in Device /\ q1.fd = r.fd /\ q1.path = r.path
  BY <1>0, AgesAre, SetReleasetime
<1> HIDE DEF q1
<1>4. q2 \in Device /\ q2.fd = r.fd /\ q2.path = r.path
  BY <1>0, <1>3, AgesAre, SetOpentime
<1> HIDE DEF q2, n
<1>5. q3 \in Device /\ q3.fd = r.fd /\ q3.path = r.path /\ q3.reawake = n
  BY <1>2, <1>4, SetReawake
<1> QED
  BY <1>1, <1>2, <1>5, Zenon

-----------------------------------------------------------------------------
(* What the variables hold.                                                 *)

LEMMA Fields ==
  ASSUME TypeOK
  PROVE  /\ sub \in [Slots -> Client] /\ dev \in [Devices -> Device]
         /\ \A s \in Slots : sub[s].fd \in Fds \cup {None} /\ sub[s].active \in Ages
         /\ \A d \in Devices : /\ dev[d].fd \in Fds \cup {None} /\ dev[d].path \in Paths \cup {""}
                               /\ dev[d].reawake \in {None, 0, 1}
         /\ \A f \in Fds : file[f] \in {"none", "client", "control"} \cup Paths
         /\ cfd \in Fds \cup {None} /\ None \notin Fds
         /\ rfds \subseteq Fds /\ all_fds \subseteq Fds
<1>1. sub \in [Slots -> Client] /\ dev \in [Devices -> Device]
  BY Zenon DEF TypeOK, Client, Device
<1>2. \A s \in Slots : sub[s].fd \in Fds \cup {None} /\ sub[s].active \in Ages
  BY <1>1 DEF Client
<1>3. \A d \in Devices : /\ dev[d].fd \in Fds \cup {None} /\ dev[d].path \in Paths \cup {""}
                         /\ dev[d].reawake \in {None, 0, 1}
  BY <1>1 DEF Device
<1>4. None \notin Fds
  BY Counts DEF Fds, None
<1>5. /\ file \in [Fds -> {"none", "client", "control"} \cup Paths]
      /\ cfd \in Fds \cup {None} /\ rfds \subseteq Fds /\ all_fds \subseteq Fds
  BY Zenon DEF TypeOK
<1> QED
  BY <1>1, <1>2, <1>3, <1>4, <1>5

\* Owners of different kinds hold different descriptors.
LEMMA Apart ==
  ASSUME TypeOK, Owners
  PROVE  /\ \A s \in Slots : sub[s].fd # None => sub[s].fd \in Fds /\ file[sub[s].fd] = "client"
         /\ \A d \in Devices : dev[d].fd # None =>
              dev[d].fd \in Fds /\ file[dev[d].fd] \notin {"none", "client", "control"}
         /\ \A f \in Fds : cfd = f => file[f] = "control"
         /\ \A s \in Slots, d \in Devices : sub[s].fd # None => sub[s].fd # dev[d].fd
         /\ \A s \in Slots : sub[s].fd # None => sub[s].fd # cfd
         /\ \A d \in Devices : dev[d].fd # None => dev[d].fd # cfd
<1>1. ASSUME NEW s \in Slots, sub[s].fd # None
      PROVE  file[sub[s].fd] = "client" /\ sub[s].fd \in Fds
  BY <1>1, Fields DEF Owners
<1>2. ASSUME NEW d \in Devices, dev[d].fd # None
      PROVE  file[dev[d].fd] \notin {"none", "client", "control"} /\ dev[d].fd \in Fds
  <2>1. dev[d].path \in Paths /\ file[dev[d].fd] = dev[d].path
    BY <1>2 DEF Owners
  <2>2. dev[d].path \notin {"none", "client", "control"}
    BY <2>1, PathsAreNames
  <2> QED
    BY <1>2, <2>1, <2>2, Fields
<1>3. ASSUME NEW f \in Fds, cfd = f
      PROVE  file[f] = "control"
  BY <1>3 DEF Owners
<1>4. ASSUME NEW s \in Slots, NEW d \in Devices, sub[s].fd # None
      PROVE  sub[s].fd # dev[d].fd
  BY <1>1, <1>2, <1>4
<1>5. ASSUME NEW s \in Slots, sub[s].fd # None
      PROVE  sub[s].fd # cfd
  BY <1>1, <1>3, <1>5
<1>6. ASSUME NEW d \in Devices, dev[d].fd # None
      PROVE  dev[d].fd # cfd
  BY <1>2, <1>3, <1>6
<1> QED
  BY <1>1, <1>2, <1>3, <1>4, <1>5, <1>6

\* The descriptors of clients G and devices D.
Shut(G, D) == {sub[s].fd : s \in G} \cup {dev[d].fd : d \in D}

LEMMA OthersStayOpen ==
  ASSUME TypeOK, Owners, NEW G \in SUBSET Slots, NEW D \in SUBSET Devices
  PROVE  /\ \A s \in Slots \ G : sub[s].fd # None => sub[s].fd \notin Shut(G, D)
         /\ \A d \in Devices \ D : dev[d].fd # None => dev[d].fd \notin Shut(G, D)
         /\ cfd # None => cfd \notin Shut(G, D)
<1>1. ASSUME NEW s \in Slots \ G, sub[s].fd # None
      PROVE  sub[s].fd \notin Shut(G, D)
  BY <1>1, Apart DEF Owners, Shut
<1>2. ASSUME NEW d \in Devices \ D, dev[d].fd # None
      PROVE  dev[d].fd \notin Shut(G, D)
  BY <1>2, Apart DEF Owners, Shut
<1>3. ASSUME cfd # None
      PROVE  cfd \notin Shut(G, D)
  BY <1>3, Apart DEF Shut
<1> QED
  BY <1>1, <1>2, <1>3

\* A descriptor that nobody holds is closed, and there is one as long as
\* somebody who could hold one does not.
LEMMA LowestIsFree ==
  ASSUME TypeOK, Owners,
         \/ cfd = None
         \/ \E s \in Slots : sub[s].fd = None
         \/ \E d \in Devices : dev[d].fd = None
  PROVE  LowestFree \in Fds /\ file[LowestFree] = "none"
<1> DEFINE h == [n \in Holders |-> IF n = 0 THEN cfd
                                   ELSE IF n <= MaxClients THEN sub[n].fd
                                   ELSE dev[n - MaxClients].fd]
<1>0. MaxClients \in Nat /\ MaxDevices \in Nat
  BY Counts
<1>1. h \in [Holders -> Fds \cup {None}]
  <2> SUFFICES ASSUME NEW n \in Holders
               PROVE  h[n] \in Fds \cup {None}
    OBVIOUS
  <2>1. CASE n = 0
    BY <2>1, Fields
  <2>2. CASE n # 0 /\ n <= MaxClients
    <3>1. n \in Slots
      BY <1>0, <2>2 DEF Holders, Slots
    <3> QED
      BY <2>2, <3>1, Fields
  <2>3. CASE n # 0 /\ ~ (n <= MaxClients)
    <3>1. n - MaxClients \in Devices
      BY <1>0, <2>3 DEF Holders, Devices
    <3> QED
      BY <2>3, <3>1, Fields
  <2> QED
    BY <2>1, <2>2, <2>3
<1>2. 0 \in Holders /\ h[0] = cfd
  BY <1>0 DEF Holders
<1>3. ASSUME NEW s \in Slots
      PROVE  s \in Holders /\ h[s] = sub[s].fd
  BY <1>0 DEF Holders, Slots
<1>4. ASSUME NEW d \in Devices
      PROVE  MaxClients + d \in Holders /\ h[MaxClients + d] = dev[d].fd
  <2>1. /\ MaxClients + d \in Holders /\ MaxClients + d # 0 /\ ~ (MaxClients + d <= MaxClients)
        /\ (MaxClients + d) - MaxClients = d
    BY <1>0 DEF Holders, Devices
  <2> QED
    BY <2>1
<1> HIDE DEF h
<1>5. \E m \in Holders : h[m] = None
  BY <1>2, <1>3, <1>4
<1>6. PICK f \in Fds : \A n \in Holders : h[n] # f
  BY <1>1, <1>5, OneIsFree
<1>7. file[f] = "none"
  <2>1. file[f] # "client"
    BY <1>3, <1>6 DEF Owners
  <2>2. file[f] \notin Paths
    BY <1>4, <1>6 DEF Owners
  <2>3. file[f] # "control"
    BY <1>2, <1>6 DEF Owners
  <2>4. file[f] \in {"none", "client", "control"} \cup Paths
    BY Fields
  <2> QED
    BY <2>1, <2>2, <2>3, <2>4
<1>8. {g \in Fds : file[g] = "none"} \in SUBSET Nat /\ {g \in Fds : file[g] = "none"} # {}
  BY <1>7, Counts DEF Fds
<1>9. Min({g \in Fds : file[g] = "none"}) \in {g \in Fds : file[g] = "none"}
  BY <1>8, LeastExists, Zenon
<1> QED
  BY <1>9 DEF LowestFree

-----------------------------------------------------------------------------
(* What the operations do with the descriptors.                             *)

\* The descriptors that end: those of the clients G and of the devices D, and
\* the control connection when it is given up.
Gone(G, D) == Shut(G, D) \cup ({cfd} \ {cfd'})

\* The clients G and the devices D give up their descriptors; a client, a device
\* or the control connection gets f, which is opened to what.
Moved(G, D, S, E, f, what) ==
  /\ G \subseteq Slots /\ D \subseteq Devices
  /\ \A s \in Slots : /\ sub'[s].fd = IF s \in S THEN f ELSE IF s \in G THEN None ELSE sub[s].fd
                      /\ sub'[s].active # None <=> sub'[s].fd # None
  /\ \A d \in Devices : dev'[d].fd = IF d \in E THEN f ELSE IF d \in D THEN None ELSE dev[d].fd
  /\ \A d \in Devices \ (D \cup E) : dev[d].fd # None => dev'[d].path = dev[d].path
  /\ \/ f = None /\ S = {} /\ E = {} /\ cfd' \in {cfd, None}
     \/ /\ f \in Fds /\ file[f] = "none"
        /\ \/ /\ \E s \in Slots : S = {s} /\ sub[s].fd = None
              /\ E = {} /\ cfd' = cfd /\ what = "client"
           \/ /\ \E d \in Devices : E = {d} /\ dev[d].fd = None /\ dev'[d].path = what
              /\ S = {} /\ cfd' = cfd /\ what \in Paths
           \/ S = {} /\ E = {} /\ cfd = None /\ cfd' = f /\ what = "control"
  /\ \A g \in Fds : file'[g] = IF g \in Gone(G, D) THEN "none" ELSE IF g = f THEN what ELSE file[g]
  /\ \A g \in Fds : input'[g] = "none" \/ (input'[g] = input[g] /\ g \notin Gone(G, D))

\* What the others hold does not end, and is not f.
LEMMA OthersKeep ==
  ASSUME TypeOK, Owners, NEW G, NEW D, NEW S, NEW E, NEW f, NEW what, Moved(G, D, S, E, f, what)
  PROVE  /\ \A s \in Slots : sub[s].fd # None =>
              sub[s].fd # f /\ s \notin S /\ (s \notin G => sub[s].fd \notin Gone(G, D))
         /\ \A d \in Devices : dev[d].fd # None =>
              dev[d].fd # f /\ d \notin E /\ (d \notin D => dev[d].fd \notin Gone(G, D))
         /\ cfd # None => cfd # f /\ (cfd' = cfd => cfd \notin Gone(G, D))
         /\ f \in Fds => f \notin Gone(G, D)
<1>1. G \in SUBSET Slots /\ D \in SUBSET Devices
  BY DEF Moved
<1>2. f \in Fds => file[f] = "none"
  BY Fields DEF Moved
<1>a. S = {} \/ \E s \in Slots : S = {s} /\ sub[s].fd = None
  BY Zenon DEF Moved
<1>b. E = {} \/ \E d \in Devices : E = {d} /\ dev[d].fd = None
  BY Zenon DEF Moved
<1>3. ASSUME NEW s \in Slots, sub[s].fd # None
      PROVE  sub[s].fd # f /\ s \notin S /\ (s \notin G => sub[s].fd \notin Gone(G, D))
  <2>1. sub[s].fd # f
    BY <1>2, <1>3, Apart
  <2>2. s \notin S
    BY <1>3, <1>a
  <2>3. s \notin G => sub[s].fd \notin Shut(G, D) /\ sub[s].fd # cfd
    BY <1>1, <1>3, Apart, OthersStayOpen
  <2> QED
    BY <2>1, <2>2, <2>3 DEF Gone
<1>4. ASSUME NEW d \in Devices, dev[d].fd # None
      PROVE  dev[d].fd # f /\ d \notin E /\ (d \notin D => dev[d].fd \notin Gone(G, D))
  <2>1. dev[d].fd # f
    BY <1>2, <1>4, Apart
  <2>2. d \notin E
    BY <1>4, <1>b
  <2>3. d \notin D => dev[d].fd \notin Shut(G, D) /\ dev[d].fd # cfd
    BY <1>1, <1>4, Apart, OthersStayOpen
  <2> QED
    BY <2>1, <2>2, <2>3 DEF Gone
<1>5. ASSUME cfd # None
      PROVE  cfd # f /\ (cfd' = cfd => cfd \notin Gone(G, D))
  <2>1. cfd \in Fds /\ file[cfd] = "control"
    BY <1>5, Apart, Fields
  <2>2. cfd \notin Shut(G, D)
    BY <1>1, <1>5, OthersStayOpen
  <2> QED
    BY <1>2, <2>1, <2>2 DEF Gone
<1>6. ASSUME f \in Fds
      PROVE  f \notin Gone(G, D)
  <2>1. f # None
    BY <1>6, Fields
  <2>2. f \notin Shut(G, D)
    BY <1>1, <1>3, <1>4, <2>1 DEF Shut
  <2>3. f # cfd
    BY <1>5, <2>1
  <2> QED
    BY <2>2, <2>3 DEF Gone
<1> QED
  BY <1>3, <1>4, <1>5, <1>6

\* Every descriptor still has one owner, which has it as what it is.
LEMMA MovedKeepsOwners ==
  ASSUME TypeOK, Owners, NEW G, NEW D, NEW S, NEW E, NEW f, NEW what, Moved(G, D, S, E, f, what),
         file' \in [Fds -> {"none", "client", "control"} \cup Paths]
  PROVE  Owners'
<1> DEFINE X == Gone(G, D)
<1>1. /\ \A s \in Slots : sub'[s].fd = IF s \in S THEN f ELSE IF s \in G THEN None ELSE sub[s].fd
      /\ \A s \in Slots : sub'[s].active # None <=> sub'[s].fd # None
      /\ \A d \in Devices : dev'[d].fd = IF d \in E THEN f ELSE IF d \in D THEN None ELSE dev[d].fd
      /\ \A d \in Devices \ (D \cup E) : dev[d].fd # None => dev'[d].path = dev[d].path
  BY Zenon DEF Moved
<1>2. /\ \A g \in Fds : file'[g] = IF g \in X THEN "none" ELSE IF g = f THEN what ELSE file[g]
      /\ \A g \in Fds : input'[g] = "none" \/ (input'[g] = input[g] /\ g \notin X)
  BY Zenon DEF Moved
<1>3. \/ f = None /\ S = {} /\ E = {} /\ cfd' \in {cfd, None}
      \/ /\ f \in Fds /\ file[f] = "none"
         /\ \/ /\ \E s \in Slots : S = {s} /\ sub[s].fd = None
               /\ E = {} /\ cfd' = cfd /\ what = "client"
            \/ /\ \E d \in Devices : E = {d} /\ dev[d].fd = None /\ dev'[d].path = what
               /\ S = {} /\ cfd' = cfd /\ what \in Paths
            \/ S = {} /\ E = {} /\ cfd = None /\ cfd' = f /\ what = "control"
  BY Zenon DEF Moved
<1>4. /\ \A s \in Slots : sub[s].fd # None =>
           sub[s].fd # f /\ s \notin S /\ (s \notin G => sub[s].fd \notin X)
      /\ \A d \in Devices : dev[d].fd # None =>
           dev[d].fd # f /\ d \notin E /\ (d \notin D => dev[d].fd \notin X)
      /\ cfd # None => cfd # f /\ (cfd' = cfd => cfd \notin X)
      /\ f \in Fds => f \notin X
  BY OthersKeep
<1>5. G \subseteq Slots /\ D \subseteq Devices
  BY Zenon DEF Moved
<1>6. /\ \A s \in G : sub[s].fd \in X
      /\ \A d \in D : dev[d].fd \in X
      /\ cfd' # cfd => cfd \in X
  BY DEF Gone, Shut
<1> HIDE DEF X
<1>7. /\ \A s \in S : f \in Fds /\ what = "client" /\ S = {s}
      /\ \A d \in E : f \in Fds /\ what = dev'[d].path /\ what \in Paths /\ E = {d}
      /\ cfd' # cfd => cfd' = None \/ (cfd' = f /\ f \in Fds /\ what = "control")
  BY <1>3
<1>8. f \in Fds => \/ what = "client" /\ \E s \in Slots : s \in S
                   \/ what \in Paths /\ \E d \in Devices : d \in E
                   \/ what = "control" /\ cfd' = f
  BY <1>3, Fields
<1>9. {"none", "client", "control"} \cap Paths = {} /\ None \notin Fds
  BY PathsAreNames, Fields
<1>10. \A s \in Slots : Active(s)' <=> sub'[s].fd # None
  BY <1>1 DEF Active
<1>11. ASSUME NEW s \in Slots, sub'[s].fd # None
       PROVE  file'[sub'[s].fd] = "client"
  <2>1. CASE s \in S
    BY <1>1, <1>2, <1>4, <1>7, <2>1
  <2>2. CASE s \notin S
    <3>1. sub'[s].fd = sub[s].fd /\ s \notin G /\ sub[s].fd # None
      BY <1>1, <1>11, <2>2
    <3>2. sub[s].fd \in Fds /\ file[sub[s].fd] = "client" /\ sub[s].fd # f /\ sub[s].fd \notin X
      BY <1>4, <3>1, Apart
    <3> QED
      BY <1>2, <3>1, <3>2
  <2> QED
    BY <2>1, <2>2
<1>12. ASSUME NEW s \in Slots, NEW t \in Slots, sub'[s].fd # None, sub'[s].fd = sub'[t].fd
       PROVE  s = t
  <2>1. CASE s \in S \/ t \in S
    BY <1>1, <1>4, <1>7, <1>12, <2>1
  <2>2. CASE s \notin S /\ t \notin S
    BY <1>1, <1>12, <2>2 DEF Owners
  <2> QED
    BY <2>1, <2>2
<1>13. ASSUME NEW g \in Fds, file'[g] = "client"
       PROVE  \E s \in Slots : sub'[s].fd = g
  <2>1. CASE g = f
    BY <1>1, <1>2, <1>4, <1>8, <1>9, <1>13, <2>1
  <2>2. CASE g # f
    <3>1. g \notin X /\ file[g] = "client"
      BY <1>2, <1>13, <2>2
    <3>2. PICK s \in Slots : sub[s].fd = g
      BY <3>1 DEF Owners
    <3> QED
      BY <1>1, <1>4, <1>6, <1>9, <3>1, <3>2
  <2> QED
    BY <2>1, <2>2
<1>14. ASSUME NEW d \in Devices, dev'[d].fd # None
       PROVE  dev'[d].path \in Paths /\ file'[dev'[d].fd] = dev'[d].path
  <2>1. CASE d \in E
    BY <1>1, <1>2, <1>4, <1>7, <2>1
  <2>2. CASE d \notin E
    <3>1. dev'[d].fd = dev[d].fd /\ d \notin D /\ dev[d].fd # None
      BY <1>1, <1>14, <2>2
    <3>2. dev'[d].path = dev[d].path /\ dev[d].path \in Paths /\ file[dev[d].fd] = dev[d].path
      BY <1>1, <2>2, <3>1 DEF Owners
    <3>3. dev[d].fd \in Fds /\ dev[d].fd # f /\ dev[d].fd \notin X
      BY <1>4, <3>1, Fields
    <3> QED
      BY <1>2, <3>1, <3>2, <3>3
  <2> QED
    BY <2>1, <2>2
<1>15. ASSUME NEW d \in Devices, NEW e \in Devices, dev'[d].fd # None, dev'[d].fd = dev'[e].fd
       PROVE  d = e
  <2>1. CASE d \in E \/ e \in E
    BY <1>1, <1>4, <1>7, <1>15, <2>1
  <2>2. CASE d \notin E /\ e \notin E
    BY <1>1, <1>15, <2>2 DEF Owners
  <2> QED
    BY <2>1, <2>2
<1>16. ASSUME NEW g \in Fds, file'[g] \in Paths
       PROVE  \E d \in Devices : dev'[d].fd = g
  <2>1. CASE g = f
    BY <1>1, <1>2, <1>4, <1>8, <1>9, <1>16, <2>1
  <2>2. CASE g # f
    <3>1. g \notin X /\ file[g] \in Paths
      BY <1>2, <1>9, <1>16, <2>2
    <3>2. PICK d \in Devices : dev[d].fd = g
      BY <3>1 DEF Owners
    <3> QED
      BY <1>1, <1>4, <1>6, <1>9, <3>1, <3>2
  <2> QED
    BY <2>1, <2>2
<1>17. ASSUME NEW g \in Fds
       PROVE  file'[g] = "control" <=> cfd' = g
  <2>1. CASE g = f
    BY <1>2, <1>3, <1>4, <1>9, <2>1
  <2>2. CASE g # f /\ g \in X
    <3>1. file'[g] = "none"
      BY <1>2, <2>2
    <3>2. cfd' # g
      BY <1>3, <1>4, <1>9, <2>2
    <3> QED
      BY <3>1, <3>2
  <2>3. CASE g # f /\ g \notin X
    <3>1. file'[g] = file[g] /\ (file[g] = "control" <=> cfd = g)
      BY <1>2, <2>3 DEF Owners
    <3>2. cfd = g <=> cfd' = g
      BY <1>3, <1>4, <1>6, <1>9, <2>3
    <3> QED
      BY <3>1, <3>2
  <2> QED
    BY <2>1, <2>2, <2>3
<1>18. ASSUME NEW g \in Fds, file'[g] = "none"
       PROVE  input'[g] = "none"
  <2>1. CASE g = f
    BY <1>2, <1>4, <1>8, <1>9, <1>18, <2>1
  <2>2. CASE g # f
    BY <1>2, <1>18, <2>2 DEF Owners
  <2> QED
    BY <2>1, <2>2
<1> QED
  BY <1>10, <1>11, <1>12, <1>13, <1>14, <1>15, <1>16, <1>17, <1>18 DEF Owners

\* What the operations do with the sets of descriptors: of those that stay open
\* only the devices P are put aside, f is waited for, and who has not been
\* visited in this round has still to read what was found.
Watched(G, D, S, E, f, P) ==
  /\ \A g \in all_fds : \/ file[g] = "none" \/ g \in Gone(G, D) \/ g \in all_fds'
                        \/ \E d \in P : g = dev[d].fd
  /\ f \in Fds => f \in all_fds'
  /\ \A d \in P : d \in Devices /\ PollPlace(d) < at' /\ dev'[d].reawake # None
  /\ \A d \in Devices \ E : dev'[d].fd # None /\ dev'[d].reawake = None =>
       dev[d].reawake = None \/ dev[d].fd \in all_fds'
  /\ rfds' = {} \/ (rfds' = rfds /\ at <= at') \/ rfds' = ReadyFds
  /\ S # {} => f \notin rfds'
  /\ \A s \in Slots \ (G \cup S) :
       sub[s].fd # None /\ at' <= HearPlace(s) => input'[sub[s].fd] = input[sub[s].fd]

LEMMA MovedKeepsWaits ==
  ASSUME TypeOK, Owners, Waits, at' \in Nat, NEW G, NEW D, NEW S, NEW E, NEW f, NEW what, NEW P,
         Moved(G, D, S, E, f, what), Watched(G, D, S, E, f, P)
  PROVE  Waits'
<1> DEFINE X == Gone(G, D)
<1>1. /\ \A s \in Slots : sub'[s].fd = IF s \in S THEN f ELSE IF s \in G THEN None ELSE sub[s].fd
      /\ \A d \in Devices : dev'[d].fd = IF d \in E THEN f ELSE IF d \in D THEN None ELSE dev[d].fd
  BY Zenon DEF Moved
<1>2. f \in Fds \/ (S = {} /\ E = {})
  BY Zenon DEF Moved
<1>3. /\ \A s \in Slots : sub[s].fd # None => s \notin S /\ (s \notin G => sub[s].fd \notin X)
      /\ \A d \in Devices : dev[d].fd # None => d \notin E /\ (d \notin D => dev[d].fd \notin X)
  BY OthersKeep
<1> HIDE DEF X
<1>4. /\ \A g \in all_fds : \/ file[g] = "none" \/ g \in X \/ g \in all_fds'
                            \/ \E d \in P : g = dev[d].fd
      /\ f \in Fds => f \in all_fds'
      /\ \A d \in P : d \in Devices /\ PollPlace(d) < at' /\ dev'[d].reawake # None
  BY Zenon DEF Watched, X
<1>5. /\ \A d \in Devices \ E : dev'[d].fd # None /\ dev'[d].reawake = None =>
           dev[d].reawake = None \/ dev[d].fd \in all_fds'
      /\ rfds' = {} \/ (rfds' = rfds /\ at <= at') \/ rfds' = ReadyFds
      /\ S # {} => f \notin rfds'
      /\ \A s \in Slots \ (G \cup S) :
           sub[s].fd # None /\ at' <= HearPlace(s) => input'[sub[s].fd] = input[sub[s].fd]
  BY Zenon DEF Watched
<1>6. /\ \A s \in Slots : sub[s].fd # None => file[sub[s].fd] # "none" /\ sub[s].fd \in all_fds
      /\ \A d \in Devices : dev[d].fd # None => file[dev[d].fd] # "none"
      /\ \A s \in Slots, d \in Devices : sub[s].fd # None => sub[s].fd # dev[d].fd
  BY Apart DEF Waits
<1>0. /\ at \in Nat /\ at' \in Nat
      /\ \A s \in Slots : HearPlace(s) \in Nat
      /\ \A d \in Devices : PollPlace(d) \in Nat
  <2>1. at \in 1 .. 1 + ReleasePlace(MaxDevices)
    BY Zenon DEF TypeOK
  <2> QED
    BY <2>1, Counts DEF HearPlace, PollPlace, Slots, Devices
<1>7. ASSUME NEW s \in Slots, sub'[s].fd # None
      PROVE  sub'[s].fd \in all_fds'
  <2>1. CASE s \in S
    BY <1>1, <1>2, <1>4, <2>1
  <2>2. CASE s \notin S
    <3>1. sub'[s].fd = sub[s].fd /\ s \notin G /\ sub[s].fd # None
      BY <1>1, <1>7, <2>2
    <3> QED
      BY <1>3, <1>4, <1>6, <3>1
  <2> QED
    BY <2>1, <2>2
<1>8. ASSUME NEW d \in Devices, dev'[d].fd # None, d \notin E
      PROVE  /\ dev'[d].fd = dev[d].fd /\ dev[d].fd # None
             /\ dev[d].fd \in all_fds => dev[d].fd \in all_fds' \/ d \in P
  <2>1. dev'[d].fd = dev[d].fd /\ d \notin D /\ dev[d].fd # None
    BY <1>1, <1>8
  <2>2. \A e \in Devices : dev[e].fd = dev[d].fd => e = d
    BY <2>1 DEF Owners
  <2> QED
    BY <1>3, <1>4, <1>6, <2>1, <2>2
<1>9. ASSUME NEW d \in Devices, dev'[d].fd # None, dev'[d].reawake = None
      PROVE  dev'[d].fd \in all_fds'
  <2>1. CASE d \in E
    BY <1>1, <1>2, <1>4, <2>1
  <2>2. CASE d \notin E
    BY <1>4, <1>5, <1>8, <1>9, <2>2 DEF Waits
  <2> QED
    BY <2>1, <2>2
<1>10. ASSUME NEW d \in Devices, at' <= PollPlace(d), dev'[d].fd # None, dev'[d].fd \in rfds'
       PROVE  dev'[d].fd \in all_fds'
  <2>1. CASE d \in E
    BY <1>1, <1>2, <1>4, <2>1
  <2>2. CASE d \notin E
    <3>1. dev'[d].fd = dev[d].fd /\ dev[d].fd # None
      BY <1>8, <1>10, <2>2
    <3>2. d \notin P
      BY <1>0, <1>4, <1>10
    <3>3. dev[d].fd \in all_fds
      <4>1. CASE rfds' = rfds /\ at <= at'
        <5>1. at <= PollPlace(d)
          BY <1>0, <1>10, <4>1
        <5> QED
          BY <1>10, <3>1, <4>1, <5>1 DEF Waits
      <4>2. CASE rfds' = ReadyFds
        BY <1>10, <3>1, <4>2 DEF ReadyFds
      <4> QED
        BY <1>5, <1>10, <4>1, <4>2
    <3> QED
      BY <1>8, <1>10, <2>2, <3>1, <3>2, <3>3
  <2> QED
    BY <2>1, <2>2
<1>11. ASSUME NEW s \in Slots, at' <= HearPlace(s), sub'[s].fd # None, sub'[s].fd \in rfds'
       PROVE  input'[sub'[s].fd] \notin {"none", "stalled"}
  <2>1. s \notin S
    BY <1>1, <1>5, <1>11
  <2>2. sub'[s].fd = sub[s].fd /\ s \notin G /\ sub[s].fd # None
    BY <1>1, <1>11, <2>1
  <2>3. input'[sub[s].fd] = input[sub[s].fd]
    BY <1>5, <1>11, <2>1, <2>2
  <2>4. Ready(sub[s].fd)
    <3>1. CASE rfds' = rfds /\ at <= at'
      <4>1. at <= HearPlace(s)
        BY <1>0, <1>11, <3>1
      <4> QED
        BY <1>11, <2>2, <3>1, <4>1 DEF Waits
    <3>2. CASE rfds' = ReadyFds
      BY <1>11, <2>2, <3>2 DEF ReadyFds
    <3> QED
      BY <1>5, <1>11, <3>1, <3>2
  <2> QED
    BY <2>2, <2>3, <2>4 DEF Ready
<1> QED
  BY <1>7, <1>9, <1>10, <1>11 DEF Waits, Ready

-----------------------------------------------------------------------------
(* The invariant again, in the parts that the operations keep: what the pool,  *)
(* the descriptors and the stages of the loop hold.                          *)

Whats == {"none", "client", "control"} \cup Paths
Reports == {"none", "stalled", "end", "packet", "noise", "zero", "gone"} \cup Requests
Stops == {"boot", "top", "restart", "select", "control", "round", "awaken", "done"}

PoolOK ==
  /\ sub \in [Slots -> Client] /\ dev \in [Devices -> Device]
  /\ file \in [Fds -> Whats] /\ input \in [Fds -> Reports] /\ all_fds \subseteq Fds

LoopOK ==
  /\ start \in Starts /\ pc \in Stops
  /\ at \in 1 .. 1 + ReleasePlace(MaxDevices) /\ fragments \in {0, 1}
  /\ todo \subseteq Devices /\ rfds \subseteq Fds /\ cfd \in Fds \cup {None}
  /\ highwater \in BOOLEAN /\ signalled \in {"none", "hup", "term"} /\ plugged \subseteq Paths
  /\ signals \in 0 .. MaxSignals

LEMMA TypeParts ==
  /\ TypeOK <=> PoolOK /\ LoopOK
  /\ TypeOK' <=> PoolOK' /\ LoopOK'
<1>1. TypeOK <=> PoolOK /\ LoopOK
  BY Zenon DEF TypeOK, PoolOK, LoopOK, Client, Device, Whats, Reports, Stops
<1>2. TypeOK' <=> PoolOK' /\ LoopOK'
  BY Zenon DEF TypeOK, PoolOK, LoopOK, Client, Device, Whats, Reports, Stops
<1> QED
  BY <1>1, <1>2

Kept == PoolOK /\ Owners /\ Waits

\* An operation that moves descriptors and watches the sets of them keeps both.
LEMMA MovedAndWatched ==
  ASSUME Sound, PoolOK', at' \in Nat, NEW G, NEW D, NEW S, NEW E, NEW f, NEW what, NEW P,
         Moved(G, D, S, E, f, what), Watched(G, D, S, E, f, P)
  PROVE  Kept'
<1>1. TypeOK /\ Owners /\ Waits
  BY DEF Sound
<1>2. file' \in [Fds -> {"none", "client", "control"} \cup Paths]
  BY DEF PoolOK, Whats
<1>3. Owners'
  BY <1>1, <1>2, MovedKeepsOwners
<1>4. Waits'
  BY <1>1, MovedKeepsWaits
<1> QED
  BY <1>3, <1>4 DEF Kept

LEMMA PoolIs ==
  ASSUME Sound
  PROVE  PoolOK /\ LoopOK /\ TypeOK /\ Owners /\ Waits
BY TypeParts DEF Sound

\* What the kernel does.
LEMMA KernelIs ==
  ASSUME Sound, NEW X, NEW f, NEW what \in Whats, Kernel(X, f, what)
  PROVE  /\ file' \in [Fds -> Whats] /\ input' \in [Fds -> Reports]
         /\ \A g \in Fds : file'[g] = IF g \in X THEN "none" ELSE IF g = f THEN what ELSE file[g]
         /\ \A g \in Fds : input'[g] = "none" \/ (input'[g] = input[g] /\ g \notin X)
         /\ \A g \in Fds : g \notin X /\ g # f => input'[g] = input[g]
<1>1. file \in [Fds -> Whats] /\ input \in [Fds -> Reports]
  BY PoolIs DEF PoolOK
<1>2. file' = [g \in Fds |-> IF g \in X THEN "none" ELSE IF g = f THEN what ELSE file[g]]
  BY DEF Kernel
<1>3. input' = [g \in Fds |-> IF g \in X \cup {f} THEN "none" ELSE input[g]]
  BY DEF Kernel
<1>4. file' \in [Fds -> Whats]
  BY <1>1, <1>2 DEF Whats
<1>5. input' \in [Fds -> Reports]
  BY <1>1, <1>3 DEF Reports
<1> QED
  BY <1>2, <1>3, <1>4, <1>5

LEMMA DetachedIs ==
  ASSUME Sound, NEW G \in SUBSET Slots, sub' = Detached(G)
  PROVE  /\ sub' \in [Slots -> Client]
         /\ \A s \in Slots : sub'[s].fd = IF s \in G THEN None ELSE sub[s].fd
         /\ \A s \in Slots : sub'[s].active # None <=> sub'[s].fd # None
<1>1. sub \in [Slots -> Client] /\ \A s \in Slots : sub[s].active # None <=> sub[s].fd # None
  BY PoolIs DEF PoolOK, Owners, Active
<1>2. Unused \in Client /\ Unused.fd = None /\ Unused.active = None
  BY AgesAre DEF Unused, Client
<1>3. \A s \in Slots : sub'[s] = IF s \in G THEN Unused ELSE sub[s]
  BY DEF Detached
<1>4. sub' = [s \in Slots |-> IF s \in G THEN Unused ELSE sub[s]]
  BY DEF Detached
<1>5. sub' \in [Slots -> Client]
  BY <1>1, <1>2, <1>4
<1> QED
  BY <1>1, <1>2, <1>3, <1>5

\* Clients G and devices D lose what they hold.
LEMMA Ending ==
  ASSUME Sound, NEW G \in SUBSET Slots, NEW D \in SUBSET Devices,
         sub' = Detached(G), dev' \in [Devices -> Device],
         \A d \in Devices : dev'[d].fd = IF d \in D THEN None ELSE dev[d].fd,
         \A d \in Devices \ D : dev[d].fd # None =>
           dev'[d].path = dev[d].path /\ dev'[d].reawake = dev[d].reawake,
         all_fds' \subseteq Fds, \A g \in all_fds : g \in all_fds' \/ g \in Shut(G, D),
         NEW X, Kernel(X, None, "none"), \A g \in Fds : g \in X <=> g \in Shut(G, D),
         UNCHANGED <<cfd, rfds>>, at' \in Nat, at <= at'
  PROVE  Kept'
<1>1. Gone(G, D) = Shut(G, D)
  BY DEF Gone
<1>2. /\ file' \in [Fds -> Whats] /\ input' \in [Fds -> Reports]
      /\ \A g \in Fds : file'[g] = IF g \in X THEN "none" ELSE IF g = None THEN "none" ELSE file[g]
      /\ \A g \in Fds : input'[g] = "none" \/ (input'[g] = input[g] /\ g \notin X)
      /\ \A g \in Fds : g \notin X /\ g # None => input'[g] = input[g]
  <2>1. "none" \in Whats
    BY DEF Whats
  <2> QED
    BY <2>1, KernelIs
<1>3. /\ sub' \in [Slots -> Client]
      /\ \A s \in Slots : sub'[s].fd = IF s \in G THEN None ELSE sub[s].fd
      /\ \A s \in Slots : sub'[s].active # None <=> sub'[s].fd # None
  BY DetachedIs
<1>4. TypeOK /\ Owners /\ None \notin Fds
  BY PoolIs, Fields
<1>5. Moved(G, D, {}, {}, None, "none")
  <2>1. \A g \in Fds : file'[g] = IF g \in Shut(G, D) THEN "none" ELSE IF g = None THEN "none"
                                   ELSE file[g]
    BY <1>2
  <2>2. \A g \in Fds : input'[g] = "none" \/ (input'[g] = input[g] /\ g \notin Shut(G, D))
    BY <1>2
  <2> QED
    BY <1>1, <1>3, <2>1, <2>2 DEF Moved
<1>6. Watched(G, D, {}, {}, None, {})
  <2>1. ASSUME NEW s \in Slots \ G, sub[s].fd # None
        PROVE  input'[sub[s].fd] = input[sub[s].fd]
    <3>1. sub[s].fd \in Fds /\ sub[s].fd \notin Shut(G, D)
      BY <1>4, <2>1, Apart, OthersStayOpen
    <3> QED
      BY <1>2, <1>4, <3>1
  <2>2. \A d \in Devices : dev'[d].fd # None /\ dev'[d].reawake = None => dev[d].reawake = None
    BY <1>4
  <2> QED
    BY <1>1, <1>4, <2>1, <2>2 DEF Watched
<1>7. PoolOK'
  BY <1>2, <1>3 DEF PoolOK
<1> QED
  BY <1>5, <1>6, <1>7, MovedAndWatched

\* Clients G lose what they hold, and device d gets f.
LEMMA Opening ==
  ASSUME Sound, NEW G \in SUBSET Slots, NEW d \in Devices, NEW f \in Fds, NEW p \in Paths,
         file[f] = "none", dev[d].fd = None,
         sub' = Detached(G), dev' \in [Devices -> Device],
         \A e \in Devices : dev'[e] = IF e = d THEN dev'[d] ELSE dev[e],
         dev'[d].fd = f, dev'[d].path = p,
         all_fds' \subseteq Fds, f \in all_fds',
         \A g \in all_fds : g \in all_fds' \/ g \in Shut(G, {}),
         NEW X, Kernel(X, f, p), \A g \in Fds : g \in X <=> g \in Shut(G, {}),
         UNCHANGED <<cfd, rfds>>, at' \in Nat, at <= at'
  PROVE  Kept'
<1>1. Gone(G, {}) = Shut(G, {})
  BY DEF Gone
<1>2. /\ file' \in [Fds -> Whats] /\ input' \in [Fds -> Reports]
      /\ \A g \in Fds : file'[g] = IF g \in X THEN "none" ELSE IF g = f THEN p ELSE file[g]
      /\ \A g \in Fds : input'[g] = "none" \/ (input'[g] = input[g] /\ g \notin X)
      /\ \A g \in Fds : g \notin X /\ g # f => input'[g] = input[g]
  <2>1. p \in Whats
    BY DEF Whats
  <2> QED
    BY <2>1, KernelIs
<1>3. /\ sub' \in [Slots -> Client]
      /\ \A s \in Slots : sub'[s].fd = IF s \in G THEN None ELSE sub[s].fd
      /\ \A s \in Slots : sub'[s].active # None <=> sub'[s].fd # None
  BY DetachedIs
<1>4. TypeOK /\ Owners /\ None \notin Fds
  BY PoolIs, Fields
<1>5. Moved(G, {}, {}, {d}, f, p)
  <2>1. \A g \in Fds : file'[g] = IF g \in Shut(G, {}) THEN "none" ELSE IF g = f THEN p ELSE file[g]
    BY <1>2
  <2>2. \A g \in Fds : input'[g] = "none" \/ (input'[g] = input[g] /\ g \notin Shut(G, {}))
    BY <1>2
  <2>3. \A e \in Devices : dev'[e].fd = IF e \in {d} THEN f ELSE IF e \in {} THEN None ELSE dev[e].fd
    OBVIOUS
  <2>4. \A e \in Devices \ ({} \cup {d}) : dev[e].fd # None => dev'[e].path = dev[e].path
    OBVIOUS
  <2>5. \E e \in Devices : {d} = {e} /\ dev[e].fd = None /\ dev'[e].path = p
    OBVIOUS
  <2> QED
    BY <1>1, <1>3, <2>1, <2>2, <2>3, <2>4, <2>5 DEF Moved
<1>6. Watched(G, {}, {}, {d}, f, {})
  <2>1. ASSUME NEW s \in Slots \ G, sub[s].fd # None
        PROVE  input'[sub[s].fd] = input[sub[s].fd]
    <3>1. sub[s].fd \in Fds /\ sub[s].fd \notin Shut(G, {}) /\ file[sub[s].fd] = "client"
      BY <1>4, <2>1, Apart, OthersStayOpen
    <3> QED
      BY <1>2, <3>1
  <2>2. \A e \in Devices \ {d} : dev'[e].reawake = None => dev[e].reawake = None
    OBVIOUS
  <2> QED
    BY <1>1, <2>1, <2>2 DEF Watched
<1>7. PoolOK'
  BY <1>2, <1>3 DEF PoolOK
<1> QED
  BY <1>5, <1>6, <1>7, MovedAndWatched

\* Clients G lose what they hold, and the devices P are put aside; everybody
\* else keeps what he has, and what a client may still read in this round.
LEMMA Staying ==
  ASSUME Sound, PoolOK', NEW G \in SUBSET Slots, NEW P \in SUBSET Devices,
         \A s \in Slots : /\ sub'[s].fd = IF s \in G THEN None ELSE sub[s].fd
                          /\ sub'[s].active # None <=> sub'[s].fd # None,
         \A d \in Devices : /\ dev'[d].fd = dev[d].fd
                            /\ dev[d].fd # None => dev'[d].path = dev[d].path
                            /\ dev[d].fd # None /\ dev'[d].reawake = None =>
                                 dev[d].reawake = None \/ dev[d].fd \in all_fds',
         \A g \in Fds : file'[g] = IF g \in Shut(G, {}) THEN "none" ELSE file[g],
         \A g \in Fds : input'[g] = "none" \/ (input'[g] = input[g] /\ g \notin Shut(G, {})),
         \A s \in Slots \ G : sub[s].fd # None /\ at' <= HearPlace(s) =>
                                input'[sub[s].fd] = input[sub[s].fd],
         \A g \in all_fds : g \in all_fds' \/ g \in Shut(G, P) \/ file[g] = "none",
         \A d \in P : PollPlace(d) < at' /\ dev'[d].reawake # None,
         cfd' = cfd, rfds' = {} \/ (rfds' = rfds /\ at <= at') \/ rfds' = ReadyFds,
         at' \in Nat
  PROVE  Kept'
<1>1. Gone(G, {}) = Shut(G, {})
  BY DEF Gone
<1>2. None \notin Fds
  BY PoolIs, Fields
<1>3. Moved(G, {}, {}, {}, None, "none")
  BY <1>1, <1>2 DEF Moved
<1>4. Watched(G, {}, {}, {}, None, P)
  <2>1. ASSUME NEW g \in all_fds
        PROVE  file[g] = "none" \/ g \in Gone(G, {}) \/ g \in all_fds' \/ \E d \in P : g = dev[d].fd
    BY <1>1, <2>1 DEF Shut
  <2> QED
    BY <1>2, <2>1 DEF Watched
<1> QED
  BY <1>3, <1>4, MovedAndWatched

\* Nobody loses or gets anything, and nothing is read.
LEMMA Quiet ==
  ASSUME Sound, UNCHANGED <<sub, dev, all_fds, file, input, cfd>>,
         rfds' = {} \/ (rfds' = rfds /\ at <= at') \/ rfds' = ReadyFds, at' \in Nat
  PROVE  Kept'
<1>1. PoolOK'
  BY PoolIs DEF PoolOK
<1>2. Shut({}, {}) = {}
  BY DEF Shut
<1>3. \A s \in Slots : sub'[s].active # None <=> sub'[s].fd # None
  BY PoolIs DEF Owners, Active
<1>4. \A g \in Fds : /\ file'[g] = IF g \in Shut({}, {}) THEN "none" ELSE file[g]
                     /\ input'[g] = "none" \/ (input'[g] = input[g] /\ g \notin Shut({}, {}))
  BY <1>2
<1> QED
  BY <1>1, <1>3, <1>4, Staying

-----------------------------------------------------------------------------
(* The operations.                                                          *)

LEMMA DetachKeeps ==
  ASSUME Sound, NEW G \in SUBSET Slots, Detach(G),
         UNCHANGED <<dev, cfd, rfds>>, at' \in Nat, at <= at'
  PROVE  Kept'
<1> DEFINE X == FdsOf(G)
<1>1. X = Shut(G, {})
  BY DEF FdsOf, Shut
<1>2. sub' = Detached(G) /\ all_fds' = all_fds \ X /\ Kernel(X, None, "none")
  BY DEF Detach
<1>3. dev' \in [Devices -> Device] /\ all_fds \subseteq Fds
  BY PoolIs DEF PoolOK
<1> HIDE DEF X
<1> QED
  BY <1>1, <1>2, <1>3, Ending

LEMMA DeactivateKeeps ==
  ASSUME Sound, NEW d \in Devices, NEW device \in Device, Deactivate(d, device),
         UNCHANGED <<cfd, rfds>>, at' \in Nat, at <= at'
  PROVE  Kept'
<1>1. PICK G \in SUBSET Failing(dev[d].path) :
        /\ sub' = Detached(G)
        /\ dev' = [dev EXCEPT ![d] = [device EXCEPT !.fd = None]]
        /\ all_fds' = all_fds \ (FdsOf(G) \cup {dev[d].fd})
        /\ Kernel(FdsOf(G) \cup {dev[d].fd}, None, "none")
  BY DEF Deactivate
<1>2. G \in SUBSET Slots
  BY DEF Failing, Watchers
<1> DEFINE r == [device EXCEPT !.fd = None]
           X == FdsOf(G) \cup {dev[d].fd}
<1>3. r \in Device /\ r.fd = None
  BY SetFd
<1>4. X = Shut(G, {d})
  BY DEF FdsOf, Shut
<1>5. sub' = Detached(G) /\ all_fds' = all_fds \ X /\ Kernel(X, None, "none")
      /\ dev' = [dev EXCEPT ![d] = r]
  BY <1>1
<1> HIDE DEF r, X
<1>6. dev \in [Devices -> Device] /\ all_fds \subseteq Fds
  BY PoolIs DEF PoolOK
<1>7. /\ dev' \in [Devices -> Device]
      /\ \A e \in Devices : dev'[e] = IF e = d THEN r ELSE dev[e]
  BY <1>3, <1>5, <1>6
<1>8. \A e \in Devices : dev'[e].fd = IF e \in {d} THEN None ELSE dev[e].fd
  BY <1>3, <1>7
<1>9. \A e \in Devices \ {d} : dev[e].fd # None => dev'[e].path = dev[e].path
      /\ dev'[e].reawake = dev[e].reawake
  BY <1>7
<1>10. all_fds' \subseteq Fds /\ \A g \in all_fds : g \in all_fds' \/ g \in Shut(G, {d})
  BY <1>4, <1>5, <1>6
<1>11. {d} \in SUBSET Devices
  OBVIOUS
<1> QED
  BY <1>2, <1>4, <1>5, <1>7, <1>8, <1>9, <1>10, <1>11, Ending

\* A device keeps its descriptor and its name, and is not put aside.
LEMMA DeviceKeeps ==
  ASSUME Sound, NEW d \in Devices, NEW r \in Device,
         r.fd = dev[d].fd, r.path = dev[d].path, r.reawake = None => dev[d].reawake = None,
         dev' = [dev EXCEPT ![d] = r], UNCHANGED <<sub, fds, cfd, rfds>>, at' \in Nat, at <= at'
  PROVE  Kept'
<1>1. dev \in [Devices -> Device] /\ PoolOK
  BY PoolIs DEF PoolOK
<1>2. dev' \in [Devices -> Device] /\ \A e \in Devices : dev'[e] = IF e = d THEN r ELSE dev[e]
  BY <1>1
<1>3. UNCHANGED <<sub, all_fds, file, input, cfd, rfds>>
  BY DEF fds
<1>4. PoolOK'
  BY <1>1, <1>2, <1>3 DEF PoolOK
<1>5. Shut({}, {}) = {}
  BY DEF Shut
<1>6. \A s \in Slots : sub'[s].active # None <=> sub'[s].fd # None
  BY <1>3, PoolIs DEF Owners, Active
<1>7. \A e \in Devices : /\ dev'[e].fd = dev[e].fd
                         /\ dev[e].fd # None => dev'[e].path = dev[e].path
                         /\ dev[e].fd # None /\ dev'[e].reawake = None =>
                              dev[e].reawake = None \/ dev[e].fd \in all_fds'
  BY <1>2
<1> QED
  BY <1>3, <1>4, <1>5, <1>6, <1>7, Staying

LEMMA AwakenKeeps ==
  ASSUME Sound, NEW d \in Devices, NEW r \in Device, Awaken(d, r),
         r.fd = dev[d].fd, r.path = dev[d].path, r.reawake = dev[d].reawake,
         UNCHANGED <<sub, cfd, rfds>>, at' \in Nat, at <= at'
  PROVE  Kept'
<1>1. CASE ~IsOpen(d) /\ CanOpen(r.path)
  <2> DEFINE f == LowestFree
             q == Activated(r, f)
             p == r.path
  <2>1. /\ dev' = [dev EXCEPT ![d] = q] /\ all_fds' = all_fds \cup {f} /\ Kernel({}, f, p)
    BY <1>1 DEF Awaken
  <2>2. dev[d].fd = None /\ p \in Paths
    BY <1>1, PoolIs DEF IsOpen, CanOpen, LoopOK
  <2>3. f \in Fds /\ file[f] = "none"
    BY <2>2, PoolIs, LowestIsFree
  <2> HIDE DEF f
  <2>4. q \in Device /\ q.fd = f /\ q.path = p
    BY <2>3, DeviceActivated
  <2> HIDE DEF q, p
  <2>5. dev \in [Devices -> Device] /\ all_fds \subseteq Fds /\ sub \in [Slots -> Client]
    BY PoolIs DEF PoolOK
  <2>6. dev' \in [Devices -> Device] /\ dev'[d] = q
        /\ \A e \in Devices : dev'[e] = IF e = d THEN dev'[d] ELSE dev[e]
    BY <2>1, <2>4, <2>5
  <2>7. sub' = Detached({})
    BY <2>5 DEF Detached
  <2>8. \A g \in Fds : g \in {} <=> g \in Shut({}, {})
    BY DEF Shut
  <2>9. all_fds' \subseteq Fds /\ f \in all_fds'
        /\ \A g \in all_fds : g \in all_fds' \/ g \in Shut({}, {})
    BY <2>1, <2>3, <2>5
  <2>10. dev'[d].fd = f /\ dev'[d].path = p
    BY <2>4, <2>6
  <2> QED
    BY <2>1, <2>2, <2>3, <2>6, <2>7, <2>8, <2>9, <2>10, Opening
<1>2. CASE ~ (~IsOpen(d) /\ CanOpen(r.path))
  <2>1. dev' = [dev EXCEPT ![d] = r] /\ UNCHANGED fds
    BY <1>2 DEF Awaken
  <2> QED
    BY <2>1, DeviceKeeps
<1> QED
  BY <1>1, <1>2

LEMMA AddDeviceKeeps ==
  ASSUME Sound, NEW p \in Paths, AddDevice(p), UNCHANGED <<cfd, rfds>>, at' \in Nat, at <= at'
  PROVE  Kept'
<1> DEFINE free  == {d \in Devices : ~Allocated(d)}
           d     == Min(free)
           opens == start.nowait /\ CanOpen(p)
           r     == Added(dev[d], p)
           f     == LowestFree
<1>0. /\ dev \in [Devices -> Device] /\ all_fds \subseteq Fds /\ PoolOK
      /\ TypeOK /\ Owners /\ None \notin Fds
  BY PoolIs, Fields DEF PoolOK
<1>1. CASE free = {}
  <2>1. UNCHANGED <<sub, dev, all_fds, file, input, cfd>>
    BY <1>1 DEF AddDevice, pool, fds
  <2> QED
    BY <2>1, Quiet
<1>2. CASE free # {}
  <2>1. d \in free
    <3>1. free \in SUBSET Nat
      BY Counts DEF Devices
    <3> QED
      BY <1>2, <3>1, LeastExists
  <2>2. PICK G \in SUBSET Failing(p) :
          /\ dev' = [dev EXCEPT ![d] = IF opens THEN Activated(r, f) ELSE r]
          /\ sub' = Detached(G)
          /\ all_fds' = (all_fds \cup IF opens THEN {f} ELSE {}) \ FdsOf(G)
          /\ Kernel(FdsOf(G), IF opens THEN f ELSE None, p)
    BY <1>2 DEF AddDevice, Added
  <2>3. G \in SUBSET Slots
    BY DEF Failing, Watchers
  <2>4. d \in Devices /\ dev[d].path = ""
    BY <2>1 DEF Allocated
  <2> HIDE DEF free, d
  <2>5. dev[d].fd = None
    <3>1. "" \notin Paths
      BY PathsAreNames
    <3> QED
      BY <1>0, <2>4, <3>1 DEF Owners
  <2>6. dev[d] \in Device
    BY <1>0, <2>4
  <2>7. r \in Device /\ r.fd = None /\ r.path = p
    BY <2>6, DeviceAdded
  <2> HIDE DEF r
  <2> DEFINE X == FdsOf(G)
  <2>8. X = Shut(G, {})
    BY DEF FdsOf, Shut
  <2> HIDE DEF X
  <2>9. CASE opens
    <3>1. f \in Fds /\ file[f] = "none"
      BY <1>0, <2>4, <2>5, LowestIsFree
    <3> HIDE DEF f
    <3> DEFINE q == Activated(r, f)
    <3>2. q \in Device /\ q.fd = f /\ q.path = p
      BY <2>7, <3>1, DeviceActivated
    <3> HIDE DEF q
    <3>3. /\ dev' = [dev EXCEPT ![d] = q] /\ sub' = Detached(G)
          /\ all_fds' = (all_fds \cup {f}) \ X /\ Kernel(X, f, p)
      BY <2>2, <2>9 DEF X, q
    <3>4. dev' \in [Devices -> Device] /\ dev'[d] = q
          /\ \A e \in Devices : dev'[e] = IF e = d THEN dev'[d] ELSE dev[e]
      BY <1>0, <2>4, <3>2, <3>3
    <3>5. f \notin X
      <4>1. \A s \in Slots : sub[s].fd # f
        BY <1>0, <3>1, Apart
      <4> QED
        BY <2>3, <4>1 DEF X, FdsOf
    <3>6. all_fds' \subseteq Fds /\ f \in all_fds'
          /\ \A g \in all_fds : g \in all_fds' \/ g \in Shut(G, {})
      BY <1>0, <2>8, <3>1, <3>3, <3>5
    <3>7. dev'[d].fd = f /\ dev'[d].path = p
      BY <3>2, <3>4
    <3> QED
      BY <2>3, <2>4, <2>5, <2>8, <3>1, <3>3, <3>4, <3>6, <3>7, Opening
  <2>10. CASE ~ opens
    <3>1. /\ dev' = [dev EXCEPT ![d] = r] /\ sub' = Detached(G)
          /\ all_fds' = all_fds \ X /\ Kernel(X, None, p)
      BY <2>2, <2>10 DEF X
    <3>2. Kernel(X, None, "none")
      BY <1>0, <3>1 DEF Kernel
    <3>3. dev' \in [Devices -> Device] /\ \A e \in Devices : dev'[e] = IF e = d THEN r ELSE dev[e]
      BY <1>0, <2>7, <3>1
    <3>4. \A e \in Devices : dev'[e].fd = IF e \in {} THEN None ELSE dev[e].fd
      BY <2>5, <2>7, <3>3
    <3>5. \A e \in Devices \ {} : dev[e].fd # None => dev'[e].path = dev[e].path
          /\ dev'[e].reawake = dev[e].reawake
      BY <2>5, <3>3
    <3>6. all_fds' \subseteq Fds /\ \A g \in all_fds : g \in all_fds' \/ g \in Shut(G, {})
      BY <1>0, <2>8, <3>1
    <3> QED
      BY <2>3, <2>8, <3>1, <3>2, <3>3, <3>4, <3>5, <3>6, Ending
  <2> QED
    BY <2>9, <2>10
<1> QED
  BY <1>1, <1>2

\* A client that connects while gpsd looks for what is ready.
LEMMA AcceptKeeps ==
  ASSUME Sound, cfd = None, Accept(LowestFree), UNCHANGED <<dev, cfd>>, rfds' = ReadyFds, at' \in Nat
  PROVE  Kept'
<1> DEFINE free == {s \in Slots : sub[s].fd = None}
           s    == Min(free)
           f    == LowestFree
           r    == [Unused EXCEPT !.fd = f, !.active = 0]
<1>0. /\ sub \in [Slots -> Client] /\ dev \in [Devices -> Device] /\ all_fds \subseteq Fds /\ PoolOK
      /\ TypeOK /\ Owners /\ None \notin Fds
  BY PoolIs, Fields DEF PoolOK
<1>1. CASE UNCHANGED <<sub, fds>>
  <2>1. UNCHANGED <<sub, dev, all_fds, file, input, cfd>>
    BY <1>1 DEF fds
  <2> QED
    BY <2>1, Quiet
<1>2. CASE /\ free # {} /\ sub' = [sub EXCEPT ![s] = r]
           /\ all_fds' = all_fds \cup {f} /\ Kernel({}, f, "client")
  <2>1. s \in free
    <3>1. free \in SUBSET Nat
      BY Counts DEF Slots
    <3> QED
      BY <1>2, <3>1, LeastExists
  <2>2. sub' = [sub EXCEPT ![s] = r] /\ all_fds' = all_fds \cup {f} /\ Kernel({}, f, "client")
    BY <1>2
  <2>3. f \in Fds /\ file[f] = "none"
    BY <1>0, LowestIsFree
  <2>4. s \in Slots /\ sub[s].fd = None
    BY <2>1
  <2> HIDE DEF f, s, free
  <2>5. r \in Client /\ r.fd = f /\ r.active = 0
    BY <2>3, AgesAre DEF Client, Unused
  <2> HIDE DEF r
  <2>6. sub' \in [Slots -> Client] /\ \A t \in Slots : sub'[t] = IF t = s THEN r ELSE sub[t]
    BY <1>0, <2>2, <2>4, <2>5
  <2>7. "client" \in Whats
    BY DEF Whats
  <2>8. /\ file' \in [Fds -> Whats] /\ input' \in [Fds -> Reports]
        /\ \A g \in Fds : file'[g] = IF g \in {} THEN "none" ELSE IF g = f THEN "client" ELSE file[g]
        /\ \A g \in Fds : input'[g] = "none" \/ (input'[g] = input[g] /\ g \notin {})
        /\ \A g \in Fds : g \notin {} /\ g # f => input'[g] = input[g]
    BY <2>2, <2>7, KernelIs
  <2>9. Gone({}, {}) = {}
    BY DEF Gone, Shut
  <2>10. Moved({}, {}, {s}, {}, f, "client")
    <3>1. \A t \in Slots : /\ sub'[t].fd = IF t \in {s} THEN f ELSE IF t \in {} THEN None ELSE sub[t].fd
                           /\ sub'[t].active # None <=> sub'[t].fd # None
      <4>1. f # None /\ 0 # None
        BY <1>0, <2>3 DEF None
      <4>2. \A t \in Slots : sub[t].active # None <=> sub[t].fd # None
        BY <1>0 DEF Owners, Active
      <4> QED
        BY <2>5, <2>6, <4>1, <4>2
    <3>2. \E t \in Slots : {s} = {t} /\ sub[t].fd = None
      BY <2>4
    <3>3. \A e \in Devices : /\ dev'[e].fd = IF e \in {} THEN f ELSE IF e \in {} THEN None ELSE dev[e].fd
                             /\ dev'[e].path = dev[e].path
      OBVIOUS
    <3> QED
      BY <2>3, <2>8, <2>9, <3>1, <3>2, <3>3 DEF Moved
  <2>11. Watched({}, {}, {s}, {}, f, {})
    <3>1. f \notin rfds'
      BY <1>0, <2>3 DEF ReadyFds, Ready, Owners
    <3>2. \A t \in Slots : sub[t].fd # None => input'[sub[t].fd] = input[sub[t].fd]
      <4>1. \A t \in Slots : sub[t].fd # None => sub[t].fd \in Fds /\ sub[t].fd # f
        BY <1>0, <2>3, Apart
      <4> QED
        BY <2>8, <4>1
    <3> QED
      BY <2>2, <2>3, <3>1, <3>2 DEF Watched
  <2>12. PoolOK'
    BY <1>0, <2>2, <2>3, <2>6, <2>8 DEF PoolOK
  <2> QED
    BY <2>10, <2>11, <2>12, MovedAndWatched
<1> QED
  BY <1>1, <1>2 DEF Accept

\* The control connection is opened, while gpsd looks for what is ready.
LEMMA ControlOpens ==
  ASSUME Sound, cfd = None, cfd' = LowestFree, all_fds' = all_fds \cup {LowestFree},
         Kernel({}, LowestFree, "control"), UNCHANGED <<sub, dev>>, rfds' = ReadyFds, at' \in Nat
  PROVE  Kept'
<1> DEFINE f == LowestFree
<1>0. /\ sub \in [Slots -> Client] /\ dev \in [Devices -> Device] /\ all_fds \subseteq Fds
      /\ TypeOK /\ Owners /\ None \notin Fds
  BY PoolIs, Fields DEF PoolOK
<1>1. f \in Fds /\ file[f] = "none"
  BY <1>0, LowestIsFree
<1> HIDE DEF f
<1>2. cfd' = f /\ all_fds' = all_fds \cup {f} /\ Kernel({}, f, "control")
  BY DEF f
<1>3. "control" \in Whats
  BY DEF Whats
<1>4. /\ file' \in [Fds -> Whats] /\ input' \in [Fds -> Reports]
      /\ \A g \in Fds : file'[g] = IF g \in {} THEN "none" ELSE IF g = f THEN "control" ELSE file[g]
      /\ \A g \in Fds : input'[g] = "none" \/ (input'[g] = input[g] /\ g \notin {})
      /\ \A g \in Fds : g \notin {} /\ g # f => input'[g] = input[g]
  BY <1>2, <1>3, KernelIs
<1>5. Gone({}, {}) \cap Fds = {}
  BY <1>0 DEF Gone, Shut
<1>6. Moved({}, {}, {}, {}, f, "control")
  <2>1. \A s \in Slots : sub[s].active # None <=> sub[s].fd # None
    BY <1>0 DEF Owners, Active
  <2>2. \A g \in Fds : /\ file'[g] = IF g \in Gone({}, {}) THEN "none"
                                      ELSE IF g = f THEN "control" ELSE file[g]
                       /\ input'[g] = "none" \/ (input'[g] = input[g] /\ g \notin Gone({}, {}))
    BY <1>4, <1>5
  <2> QED
    BY <1>1, <1>2, <2>1, <2>2 DEF Moved
<1>7. Watched({}, {}, {}, {}, f, {})
  <2>1. \A t \in Slots : sub[t].fd # None => input'[sub[t].fd] = input[sub[t].fd]
    <3>1. \A t \in Slots : sub[t].fd # None => sub[t].fd \in Fds /\ sub[t].fd # f
      BY <1>0, <1>1, Apart
    <3> QED
      BY <1>4, <3>1
  <2> QED
    BY <1>2, <2>1 DEF Watched
<1>8. PoolOK'
  BY <1>0, <1>1, <1>2, <1>4 DEF PoolOK
<1> QED
  BY <1>6, <1>7, <1>8, MovedAndWatched

\* It is closed.
LEMMA ControlCloses ==
  ASSUME Sound, cfd # None, cfd' = None, all_fds' = all_fds \ {cfd}, Kernel({cfd}, None, "none"),
         UNCHANGED <<sub, dev, rfds>>, at' \in Nat, at <= at'
  PROVE  Kept'
<1>0. /\ sub \in [Slots -> Client] /\ dev \in [Devices -> Device] /\ all_fds \subseteq Fds
      /\ TypeOK /\ Owners /\ None \notin Fds /\ cfd \in Fds
  BY PoolIs, Fields DEF PoolOK
<1>3. "none" \in Whats
  BY DEF Whats
<1>4. /\ file' \in [Fds -> Whats] /\ input' \in [Fds -> Reports]
      /\ \A g \in Fds : file'[g] = IF g \in {cfd} THEN "none" ELSE IF g = None THEN "none" ELSE file[g]
      /\ \A g \in Fds : input'[g] = "none" \/ (input'[g] = input[g] /\ g \notin {cfd})
      /\ \A g \in Fds : g \notin {cfd} /\ g # None => input'[g] = input[g]
  BY <1>3, KernelIs
<1>5. Gone({}, {}) = {cfd}
  BY <1>0 DEF Gone, Shut
<1>6. Moved({}, {}, {}, {}, None, "none")
  <2>1. \A s \in Slots : sub[s].active # None <=> sub[s].fd # None
    BY <1>0 DEF Owners, Active
  <2>2. \A g \in Fds : /\ file'[g] = IF g \in Gone({}, {}) THEN "none"
                                      ELSE IF g = None THEN "none" ELSE file[g]
                       /\ input'[g] = "none" \/ (input'[g] = input[g] /\ g \notin Gone({}, {}))
    BY <1>4, <1>5
  <2> QED
    BY <2>1, <2>2 DEF Moved
<1>7. Watched({}, {}, {}, {}, None, {})
  <2>1. \A t \in Slots : sub[t].fd # None => input'[sub[t].fd] = input[sub[t].fd]
    <3>1. \A t \in Slots : sub[t].fd # None => sub[t].fd \in Fds /\ sub[t].fd # cfd
      BY <1>0, Apart
    <3> QED
      BY <1>0, <1>4, <3>1
  <2> QED
    BY <1>0, <1>5, <2>1 DEF Watched
<1>8. PoolOK'
  BY <1>0, <1>4 DEF PoolOK
<1> QED
  BY <1>6, <1>7, <1>8, MovedAndWatched

-----------------------------------------------------------------------------
(* The places of a round.                                                   *)

LEMMA PlacesAre ==
  /\ MaxDevices \in Nat \ {0} /\ MaxClients \in Nat \ {0}
  /\ \A d \in Devices : PollPlace(d) \in 1 .. MaxDevices /\ d \in Nat
  /\ \A s \in Slots : HearPlace(s) \in MaxDevices + 1 .. MaxDevices + MaxClients
  /\ \A d \in Devices :
       ReleasePlace(d) \in MaxDevices + MaxClients + 1 .. ReleasePlace(MaxDevices)
BY Counts DEF Devices, Slots, PollPlace, HearPlace, ReleasePlace

LEMMA TurnIs ==
  ASSUME Sound, NEW k, Turn(k)
  PROVE  /\ pc = "round" /\ at \in Nat /\ at <= k /\ cfd = None
         /\ k \in 1 .. ReleasePlace(MaxDevices)
         /\ fragments # 0 => k = at /\ at \in Devices
<1>1. HasWork(k) /\ pc = "round" /\ at <= k /\ \A j \in at .. k - 1 : ~HasWork(j)
  BY DEF Turn
<1>2. at \in 1 .. 1 + ReleasePlace(MaxDevices) /\ fragments \in {0, 1}
  BY PoolIs DEF LoopOK
<1>3. \/ \E d \in Devices : k = PollPlace(d)
      \/ \E s \in Slots : k = HearPlace(s)
      \/ \E d \in Devices : k = ReleasePlace(d)
  BY <1>1, Zenon DEF HasWork
<1>4. at \in Nat /\ k \in 1 .. ReleasePlace(MaxDevices)
  BY <1>2, <1>3, PlacesAre DEF ReleasePlace
<1>5. fragments # 0 => fragments > 0
  BY <1>2, Times
<1>6. ASSUME fragments > 0
      PROVE  k = at /\ at \in Devices
  <2>1. at \in Devices /\ Allocated(at) /\ IsOpen(at) /\ dev[at].fd \in rfds
    BY <1>6 DEF Sound, Stages, Multipoll
  <2>2. HasWork(at)
    BY <2>1 DEF HasWork, HasInput, PollPlace
  <2>3. ~ (at \in at .. k - 1)
    BY <1>1, <2>2
  <2> QED
    BY <1>1, <1>4, <2>1, <2>3
<1>7. cfd = None
  BY <1>1 DEF Sound, Stages
<1> QED
  BY <1>1, <1>4, <1>5, <1>6, <1>7

\* After a turn the round goes on at the next place.
LEMMA DoneIs ==
  ASSUME Sound, NEW k, Turn(k), Done(k), fragments' = 0,
         UNCHANGED <<start, todo, rfds, cfd, highwater, signalled, plugged, signals>>
  PROVE  LoopOK' /\ Stages' /\ at' \in Nat /\ at <= at'
<1>1. /\ pc = "round" /\ at \in Nat /\ at <= k /\ k \in 1 .. ReleasePlace(MaxDevices)
      /\ cfd = None
  BY TurnIs
<1>2. at' = k + 1 /\ pc' = "round"
  BY <1>1 DEF Done
<1>3. ReleasePlace(MaxDevices) \in Nat
  BY PlacesAre DEF ReleasePlace
<1>4. at' \in 1 .. 1 + ReleasePlace(MaxDevices) /\ at' \in Nat /\ at <= at'
  BY <1>1, <1>2, <1>3
<1>5. LoopOK'
  <2>1. fragments' \in {0, 1}
    BY Times
  <2> QED
    BY <1>2, <1>4, <2>1, PoolIs DEF LoopOK, Stops
<1>6. Stages'
  BY <1>1, <1>2 DEF Sound, Stages, Multipoll
<1> QED
  BY <1>4, <1>5, <1>6

LEMMA SoundIs ==
  ASSUME Kept', LoopOK', Stages'
  PROVE  Sound'
BY TypeParts DEF Kept, Sound

\* A client that is heard or dismissed, a device that is released or reopened:
\* no packets of a device wait to be read.
LEMMA NoFragments ==
  ASSUME Sound, NEW k, Turn(k), MaxDevices < k
  PROVE  fragments = 0
<1>1. fragments # 0 => k \in Devices
  BY TurnIs
<1> QED
  BY <1>1, PlacesAre DEF Devices

-----------------------------------------------------------------------------
(* The devices' turns.                                                      *)

LEMMA PollIs ==
  ASSUME Sound, NEW d \in Devices, Turn(PollPlace(d))
  PROVE  /\ Allocated(d) /\ dev[d].fd # None /\ dev[d].fd \in Fds /\ dev[d] \in Device
         /\ dev[d].fd \in rfds => dev[d].fd \in all_fds
         /\ \A s \in Slots : sub[s].fd # None => sub[s].fd \in Fds /\ sub[s].fd # dev[d].fd
         /\ \A s \in Slots : sub[s].active # None <=> sub[s].fd # None
<1>1. HasWork(PollPlace(d)) /\ at <= PollPlace(d)
  BY DEF Turn
<1>2. PICK e \in Devices : PollPlace(d) = PollPlace(e) /\ HasInput(e)
  <2>1. \A s \in Slots : PollPlace(d) # HearPlace(s)
    BY PlacesAre
  <2>2. \A e \in Devices : PollPlace(d) # ReleasePlace(e)
    BY PlacesAre
  <2> QED
    BY <1>1, <2>1, <2>2, Zenon DEF HasWork
<1>3. e = d
  BY <1>2 DEF PollPlace
<1>4. Allocated(d) /\ dev[d].fd # None
  BY <1>2, <1>3 DEF HasInput, IsOpen
<1>5. TypeOK /\ Owners /\ Waits
  BY PoolIs
<1>6. dev[d].fd \in Fds /\ dev[d] \in Device
  BY <1>4, <1>5, Fields
<1>7. dev[d].fd \in rfds => dev[d].fd \in all_fds
  BY <1>1, <1>4, <1>5 DEF Waits
<1>8. \A s \in Slots : sub[s].fd # None => sub[s].fd \in Fds /\ sub[s].fd # dev[d].fd
  BY <1>5, Apart
<1>9. \A s \in Slots : sub[s].active # None <=> sub[s].fd # None
  BY <1>5 DEF Owners, Active
<1> QED
  BY <1>4, <1>6, <1>7, <1>8, <1>9

LEMMA ReawakeKeeps ==
  ASSUME Sound, NEW d \in Devices, Reawake(d)
  PROVE  Sound'
<1> DEFINE r == [dev[d] EXCEPT !.reawake = None, !.zerokill = TRUE]
<1>1. /\ Turn(PollPlace(d)) /\ dev[d].fd \notin rfds /\ Done(PollPlace(d))
      /\ dev' = [dev EXCEPT ![d] = r] /\ all_fds' = all_fds \cup {dev[d].fd}
      /\ UNCHANGED <<start, fragments, todo, sub, rfds, file, input, cfd, highwater,
                     signalled, plugged, signals>>
  BY DEF Reawake
<1>2. /\ dev[d].fd # None /\ dev[d].fd \in Fds /\ dev[d] \in Device
      /\ \A s \in Slots : sub[s].active # None <=> sub[s].fd # None
  BY <1>1, PollIs
<1>3. fragments' = 0
  <2>1. fragments \in Nat
    BY PoolIs, Times DEF LoopOK
  <2>2. fragments # 0 => at = PollPlace(d) /\ fragments > 0
    BY <1>1, <2>1, TurnIs
  <2> QED
    BY <1>1, <2>2 DEF Sound, Stages, Multipoll, PollPlace
<1>4. LoopOK' /\ Stages' /\ at' \in Nat /\ at <= at'
  BY <1>1, <1>3, DoneIs
<1>5. r \in Device /\ r.fd = dev[d].fd /\ r.path = dev[d].path
  BY <1>2, DeviceReawoken
<1> HIDE DEF r
<1>6. PoolOK /\ dev \in [Devices -> Device] /\ all_fds \subseteq Fds
  BY PoolIs DEF PoolOK
<1>7. dev' \in [Devices -> Device] /\ \A e \in Devices : dev'[e] = IF e = d THEN r ELSE dev[e]
  BY <1>1, <1>5, <1>6
<1>8. PoolOK'
  BY <1>1, <1>2, <1>6, <1>7 DEF PoolOK
<1>9. \A e \in Devices : /\ dev'[e].fd = dev[e].fd
                         /\ dev[e].fd # None => dev'[e].path = dev[e].path
                         /\ dev[e].fd # None /\ dev'[e].reawake = None =>
                              dev[e].reawake = None \/ dev[e].fd \in all_fds'
  BY <1>1, <1>5, <1>7
<1>10. Shut({}, {}) = {}
  BY DEF Shut
<1>11. Kept'
  BY <1>1, <1>2, <1>4, <1>8, <1>9, <1>10, Staying
<1> QED
  BY <1>4, <1>11, SoundIs

\* A device has been read, and told to clients G of which some leave.
LEMMA ReadKeeps ==
  ASSUME Sound, NEW d \in Devices, Turn(PollPlace(d)), dev[d].fd \in rfds,
         NEW G \in SUBSET Slots, NEW r \in Device, r.fd = dev[d].fd, r.path = dev[d].path,
         dev' = [dev EXCEPT ![d] = r], sub' = Detached(G),
         NEW P \in SUBSET {d}, \A e \in P : PollPlace(e) < at' /\ r.reawake # None,
         all_fds' = (all_fds \ Shut(G, P)),
         file' = [g \in Fds |-> IF g \in Shut(G, {}) THEN "none" ELSE file[g]],
         input' = [g \in Fds |-> IF g \in Shut(G, {}) \cup {dev[d].fd} THEN "none" ELSE input[g]],
         UNCHANGED <<cfd, rfds>>, at' \in Nat, at <= at'
  PROVE  Kept'
<1>1. /\ dev[d].fd # None /\ dev[d].fd \in Fds /\ dev[d].fd \in all_fds
      /\ \A s \in Slots : sub[s].fd # None => sub[s].fd \in Fds /\ sub[s].fd # dev[d].fd
  BY PollIs
<1>2. /\ PoolOK /\ dev \in [Devices -> Device] /\ all_fds \subseteq Fds /\ TypeOK /\ Owners
      /\ file \in [Fds -> Whats] /\ input \in [Fds -> Reports]
  BY PoolIs DEF PoolOK
<1>3. dev' \in [Devices -> Device] /\ \A e \in Devices : dev'[e] = IF e = d THEN r ELSE dev[e]
  BY <1>2
<1>4. /\ sub' \in [Slots -> Client]
      /\ \A s \in Slots : sub'[s].fd = IF s \in G THEN None ELSE sub[s].fd
      /\ \A s \in Slots : sub'[s].active # None <=> sub'[s].fd # None
  BY DetachedIs
<1>5. file' \in [Fds -> Whats] /\ input' \in [Fds -> Reports]
  BY <1>2 DEF Whats, Reports
<1>6. PoolOK'
  BY <1>2, <1>3, <1>4, <1>5 DEF PoolOK
<1>7. dev[d].fd \notin Shut(G, {})
  BY <1>1 DEF Shut
<1>8. \A e \in Devices : /\ dev'[e].fd = dev[e].fd
                         /\ dev[e].fd # None => dev'[e].path = dev[e].path
                         /\ dev[e].fd # None /\ dev'[e].reawake = None =>
                              dev[e].reawake = None \/ dev[e].fd \in all_fds'
  <2>1. ASSUME dev'[d].reawake = None
        PROVE  dev[d].fd \in all_fds'
    <3>1. P = {}
      BY <1>3, <2>1
    <3> QED
      BY <1>1, <1>7, <3>1
  <2> QED
    BY <1>3, <2>1
<1>9. \A s \in Slots \ G : sub[s].fd # None => input'[sub[s].fd] = input[sub[s].fd]
  <2> SUFFICES ASSUME NEW s \in Slots \ G, sub[s].fd # None
               PROVE  input'[sub[s].fd] = input[sub[s].fd]
    OBVIOUS
  <2>1. sub[s].fd \notin Shut(G, {})
    BY <1>2, OthersStayOpen
  <2> QED
    BY <1>1, <2>1
<1>10. /\ \A g \in Fds : file'[g] = IF g \in Shut(G, {}) THEN "none" ELSE file[g]
       /\ \A g \in Fds : input'[g] = "none" \/ (input'[g] = input[g] /\ g \notin Shut(G, {}))
       /\ \A g \in all_fds : g \in all_fds' \/ g \in Shut(G, P) \/ file[g] = "none"
  OBVIOUS
<1>11. \A e \in P : PollPlace(e) < at' /\ dev'[e].reawake # None
  BY <1>3
<1>12. P \in SUBSET Devices
  OBVIOUS
<1> QED
  BY <1>4, <1>6, <1>8, <1>9, <1>10, <1>11, <1>12, Staying

LEMMA PollPacketKeeps ==
  ASSUME Sound, NEW d \in Devices, PollPacket(d)
  PROVE  Sound'
<1> DEFINE r == [dev[d] EXCEPT !.typed = TRUE, !.zerokill = FALSE, !.reawake = None]
           f == dev[d].fd
<1>1. /\ Turn(PollPlace(d)) /\ f \in rfds /\ input[f] = "packet"
      /\ dev' = [dev EXCEPT ![d] = r] /\ at' = d /\ fragments' = 1
      /\ UNCHANGED <<start, pc, todo, rfds, cfd, highwater, signalled, plugged, signals>>
  BY DEF PollPacket, Polled, PollPlace
<1>2. PICK G \in SUBSET Failing(dev[d].path) :
        /\ sub' = Detached(G) /\ all_fds' = all_fds \ FdsOf(G)
        /\ file'  = [g \in Fds |-> IF g \in FdsOf(G) THEN "none" ELSE file[g]]
        /\ input' = [g \in Fds |-> IF g \in FdsOf(G) \cup {f} THEN "none" ELSE input[g]]
  BY DEF PollPacket
<1>3. G \in SUBSET Slots
  BY DEF Failing, Watchers
<1>4. FdsOf(G) = Shut(G, {})
  BY DEF FdsOf, Shut
<1>5. Allocated(d) /\ f # None /\ f \in Fds /\ dev[d] \in Device
  BY <1>1, PollIs
<1>6. r \in Device /\ r.fd = f /\ r.path = dev[d].path
  BY <1>5, DeviceRead
<1>7. dev[d].fd \in rfds
  BY <1>1
<1>8. at' \in Nat /\ at <= at' /\ pc = "round" /\ cfd = None /\ at' \in Devices
  BY <1>1, TurnIs, PlacesAre DEF PollPlace
<1> HIDE DEF r
<1>9. Kept'
  <2>1. input' = [g \in Fds |-> IF g \in Shut(G, {}) \cup {dev[d].fd} THEN "none" ELSE input[g]]
    BY <1>2, <1>4
  <2>2. file'  = [g \in Fds |-> IF g \in Shut(G, {}) THEN "none" ELSE file[g]]
    BY <1>2, <1>4
  <2>3. sub' = Detached(G) /\ all_fds' = all_fds \ Shut(G, {})
    BY <1>2, <1>4
  <2>4. {} \in SUBSET {d} /\ \A e \in {} : PollPlace(e) < at' /\ r.reawake # None
    OBVIOUS
  <2>5. r.fd = dev[d].fd
    BY <1>6
  <2> HIDE DEF f
  <2> QED
    BY <1>1, <1>3, <1>6, <1>7, <1>8, <2>1, <2>2, <2>3, <2>4, <2>5, ReadKeeps
<1>11. LoopOK'
  <2>1. at' \in 1 .. 1 + ReleasePlace(MaxDevices)
    BY <1>8, PlacesAre DEF ReleasePlace, Devices
  <2>2. fragments' \in {0, 1}
    BY <1>1
  <2> QED
    BY <1>1, <2>1, <2>2, PoolIs DEF LoopOK
<1>12. Multipoll'
  <2>1. dev'[d] = r
    BY <1>1, PoolIs DEF PoolOK
  <2>3. dev'[at'].fd = f /\ dev'[at'].path # ""
    BY <1>1, <1>5, <1>6, <2>1 DEF Allocated
  <2>4. pc' = "round" /\ at' \in Devices /\ f \in rfds'
    BY <1>1, <1>8
  <2>6. dev'[at'].fd \in rfds'
    BY <2>3, <2>4, Zenon
  <2>5. Allocated(at)' /\ IsOpen(at)'
    BY <1>5, <2>3 DEF Allocated, IsOpen
  <2> QED
    BY <2>4, <2>5, <2>6 DEF Multipoll
<1>13. Stages'
  BY <1>1, <1>8, <1>12 DEF Sound, Stages
<1> QED
  BY <1>9, <1>11, <1>13, SoundIs

LEMMA NobodyDetached ==
  ASSUME Sound, sub' = sub
  PROVE  sub' = Detached({})
BY PoolIs DEF PoolOK, Detached

LEMMA PollNoiseKeeps ==
  ASSUME Sound, NEW d \in Devices, PollNoise(d)
  PROVE  Sound'
<1> DEFINE r == [dev[d] EXCEPT !.typed = FALSE, !.zerokill = FALSE, !.reawake = None]
           f == dev[d].fd
<1>1. /\ Turn(PollPlace(d)) /\ dev[d].fd \in rfds /\ Done(PollPlace(d)) /\ fragments' = 0
      /\ dev' = [dev EXCEPT ![d] = r] /\ input' = [input EXCEPT ![f] = "none"]
      /\ UNCHANGED <<start, todo, sub, rfds, file, all_fds, cfd, highwater, signalled, plugged, signals>>
  BY DEF PollNoise, Polled
<1>2. LoopOK' /\ Stages' /\ at' \in Nat /\ at <= at'
  BY <1>1, DoneIs
<1>3. r \in Device /\ r.fd = dev[d].fd /\ r.path = dev[d].path
  BY <1>1, PollIs, DeviceRead
<1> HIDE DEF r
<1>4. Shut({}, {}) = {}
  BY DEF Shut
<1>5. file \in [Fds -> Whats] /\ input \in [Fds -> Reports]
  BY PoolIs DEF PoolOK
<1>6. file' = [g \in Fds |-> IF g \in Shut({}, {}) THEN "none" ELSE file[g]]
  BY <1>1, <1>4, <1>5
<1>7. input' = [g \in Fds |-> IF g \in Shut({}, {}) \cup {dev[d].fd} THEN "none" ELSE input[g]]
  BY <1>1, <1>4, <1>5
<1>8. sub' = Detached({}) /\ all_fds' = all_fds \ Shut({}, {})
  BY <1>1, <1>4, NobodyDetached
<1>9. {} \in SUBSET {d} /\ \A e \in {} : PollPlace(e) < at' /\ r.reawake # None
  OBVIOUS
<1>10. {} \in SUBSET Slots
  OBVIOUS
<1>11. /\ Turn(PollPlace(d)) /\ dev[d].fd \in rfds
       /\ dev' = [dev EXCEPT ![d] = r] /\ UNCHANGED <<rfds, cfd>>
  BY <1>1
<1>12. Kept'
  BY <1>2, <1>3, <1>6, <1>7, <1>8, <1>9, <1>10, <1>11, ReadKeeps, Zenon
<1> QED
  BY <1>2, <1>12, SoundIs

LEMMA PollZeroKeeps ==
  ASSUME Sound, NEW d \in Devices, PollZero(d)
  PROVE  Sound'
<1>1. /\ Turn(PollPlace(d)) /\ dev[d].fd \in rfds /\ Done(PollPlace(d)) /\ fragments' = 0
      /\ UNCHANGED <<start, todo, sub, rfds, cfd, highwater, signalled, plugged, signals>>
  BY DEF PollZero, Polled
<1>2. LoopOK' /\ Stages' /\ at' \in Nat /\ at <= at'
  BY <1>1, DoneIs
<1>3. /\ PollPlace(d) < at'
      /\ dev[d] \in Device /\ dev[d].fd # None /\ dev[d].fd \in Fds
      /\ dev \in [Devices -> Device] /\ all_fds \subseteq Fds
      /\ file \in [Fds -> Whats] /\ input \in [Fds -> Reports]
      /\ None \notin Fds
  <2>1. PollPlace(d) < at'
    BY <1>1, PlacesAre DEF Done
  <2> QED
    BY <1>1, <2>1, PollIs, PoolIs, Fields DEF PoolOK
<1>4. {} \in SUBSET Slots /\ sub' = Detached({}) /\ Shut({}, {}) = {} /\ Shut({}, {d}) = {dev[d].fd}
  BY <1>1, NobodyDetached DEF Shut
<1>5. CASE input' = [input EXCEPT ![dev[d].fd] = "none"] /\ UNCHANGED <<dev, all_fds, file>>
  <2>1. dev' = [dev EXCEPT ![d] = dev[d]]
    BY <1>3, <1>5
  <2>2. all_fds' = all_fds \ Shut({}, {})
    BY <1>4, <1>5
  <2>3. file' = [g \in Fds |-> IF g \in Shut({}, {}) THEN "none" ELSE file[g]]
    BY <1>3, <1>4, <1>5
  <2>4. input' = [g \in Fds |-> IF g \in Shut({}, {}) \cup {dev[d].fd} THEN "none" ELSE input[g]]
    BY <1>3, <1>4, <1>5
  <2>5. {} \in SUBSET {d} /\ \A e \in {} : PollPlace(e) < at' /\ dev[d].reawake # None
    OBVIOUS
  <2>6. Turn(PollPlace(d)) /\ dev[d].fd \in rfds /\ UNCHANGED <<rfds, cfd>>
    BY <1>1
  <2>7. Kept'
    BY <1>2, <1>3, <1>4, <2>1, <2>2, <2>3, <2>4, <2>5, <2>6, ReadKeeps, Zenon
  <2> QED
    BY <1>2, <2>7, SoundIs
<1>6. CASE /\ dev' = [dev EXCEPT ![d].fd = None]
           /\ Kernel({dev[d].fd}, None, "none") /\ UNCHANGED all_fds
  <2> DEFINE r == [dev[d] EXCEPT !.fd = None]
  <2>1. r \in Device /\ r.fd = None
    BY <1>3, SetFd
  <2>2. dev' = [dev EXCEPT ![d] = r]
    BY <1>6
  <2> HIDE DEF r
  <2>3. dev' \in [Devices -> Device] /\ \A e \in Devices : dev'[e] = IF e = d THEN r ELSE dev[e]
    BY <1>3, <2>1, <2>2
  <2> DEFINE D == {d}
             G == {}
             X == {dev[d].fd}
  <2>4. \A e \in Devices : dev'[e].fd = IF e \in D THEN None ELSE dev[e].fd
    BY <2>1, <2>3
  <2>5. \A e \in Devices \ D : dev[e].fd # None => dev'[e].path = dev[e].path
        /\ dev'[e].reawake = dev[e].reawake
    BY <2>3
  <2>6. all_fds' \subseteq Fds /\ \A g \in all_fds : g \in all_fds' \/ g \in Shut(G, D)
    BY <1>3, <1>6
  <2>7. D \in SUBSET Devices /\ G \in SUBSET Slots /\ sub' = Detached(G)
        /\ \A g \in Fds : g \in X <=> g \in Shut(G, D)
    BY <1>4
  <2>8. Kernel(X, None, "none") /\ UNCHANGED <<cfd, rfds>>
    BY <1>1, <1>6
  <2> HIDE DEF D, G, X
  <2>9. Kept'
    BY <1>2, <2>3, <2>4, <2>5, <2>6, <2>7, <2>8, Ending
  <2> QED
    BY <1>2, <2>9, SoundIs
<1>7. ASSUME NEW later \in {0, 1}, dev' = [dev EXCEPT ![d].reawake = later],
             all_fds' = all_fds \ {dev[d].fd},
             input' = [input EXCEPT ![dev[d].fd] = "none"], UNCHANGED file
      PROVE  Sound'
  <2> DEFINE r == [dev[d] EXCEPT !.reawake = later]
  <2>1. r \in Device /\ r.fd = dev[d].fd /\ r.path = dev[d].path /\ r.reawake = later
    BY <1>3, SetReawake
  <2>2. dev' = [dev EXCEPT ![d] = r]
    BY <1>7
  <2> HIDE DEF r
  <2> DEFINE P == {d}
  <2>3. all_fds' = all_fds \ Shut({}, P)
    BY <1>4, <1>7
  <2>4. file' = [g \in Fds |-> IF g \in Shut({}, {}) THEN "none" ELSE file[g]]
    BY <1>3, <1>4, <1>7
  <2>5. input' = [g \in Fds |-> IF g \in Shut({}, {}) \cup {dev[d].fd} THEN "none" ELSE input[g]]
    BY <1>3, <1>4, <1>7
  <2>6. P \in SUBSET {d} /\ \A e \in P : PollPlace(e) < at' /\ r.reawake # None
    BY <1>3, <2>1 DEF None
  <2>7. Turn(PollPlace(d)) /\ dev[d].fd \in rfds /\ UNCHANGED <<rfds, cfd>>
    BY <1>1
  <2> HIDE DEF P
  <2>8. Kept'
    BY <1>2, <1>3, <1>4, <2>1, <2>2, <2>3, <2>4, <2>5, <2>6, <2>7, ReadKeeps, Zenon
  <2> QED
    BY <1>2, <2>8, SoundIs
<1> QED
  BY <1>5, <1>6, <1>7 DEF PollZero

LEMMA PollGoneKeeps ==
  ASSUME Sound, NEW d \in Devices, PollGone(d)
  PROVE  Sound'
<1>1. /\ Turn(PollPlace(d)) /\ Done(PollPlace(d)) /\ fragments' = 0 /\ Deactivate(d, dev[d])
      /\ UNCHANGED <<start, todo, rfds, cfd, highwater, signalled, plugged, signals>>
  BY DEF PollGone, Polled
<1>2. LoopOK' /\ Stages' /\ at' \in Nat /\ at <= at'
  BY <1>1, DoneIs
<1>3. dev[d] \in Device
  BY PoolIs, Fields
<1>4. Kept'
  BY <1>1, <1>2, <1>3, DeactivateKeeps
<1> QED
  BY <1>2, <1>4, SoundIs

-----------------------------------------------------------------------------
(* The clients' turns, and the devices these awaken.                        *)

LEMMA FindIs ==
  ASSUME NEW p
  PROVE  Find(p) \subseteq {d \in Devices : dev[d].path = p}
<1>1. Named(p) \in SUBSET Nat
  BY Counts DEF Named, Devices
<1>2. Named(p) # {} => Min(Named(p)) \in Named(p)
  BY <1>1, LeastExists
<1> QED
  BY <1>2 DEF Find, Named

\* A request leaves the client its descriptor, and devices to awaken.
LEMMA RequestIs ==
  ASSUME Sound, NEW s \in Slots, Hear(s), input[sub[s].fd] \in Requests,
         ~ (input[sub[s].fd] \notin Requests /\ Detach({s}))
  PROVE  /\ input' = [input EXCEPT ![sub[s].fd] = "none"]
         /\ \E r \in Client : r.fd = sub[s].fd /\ r.active = 0 /\ sub' = [sub EXCEPT ![s] = r]
         /\ todo' \subseteq Devices /\ at' = HearPlace(s) + 1
         /\ pc' = IF todo' = {} THEN pc ELSE "awaken"
         /\ UNCHANGED <<file, all_fds>>
<1> DEFINE c == sub[s]
           f == sub[s].fd
<1>1. c \in Client /\ 0 \in Ages
  BY AgesAre, PoolIs, Fields
<1>2. /\ input' = [input EXCEPT ![f] = "none"]
      /\ at' = HearPlace(s) + 1 /\ pc' = IF todo' = {} THEN pc ELSE "awaken"
      /\ UNCHANGED <<file, all_fds>>
  BY DEF Hear
<1>3. \/ \E p \in Paths \cup {""} :
           /\ sub' = [sub EXCEPT ![s] = [[c EXCEPT !.watcher = TRUE, !.devpath = p] EXCEPT !.active = 0]]
           /\ todo' = IF p = "" THEN {d \in Devices : Allocated(d)} ELSE Find(p)
      \/ /\ sub' = [sub EXCEPT ![s] = [[c EXCEPT !.watcher = FALSE, !.devpath = ""] EXCEPT !.active = 0]]
         /\ todo' = {}
      \/ /\ sub' = [sub EXCEPT ![s] = [c EXCEPT !.active = 0]]
         /\ todo' \in {{}} \cup {Find(p) : p \in Paths}
  BY DEF Hear
<1>4. ASSUME NEW b \in BOOLEAN, NEW p \in Paths \cup {""},
             sub' = [sub EXCEPT ![s] = [[c EXCEPT !.watcher = b, !.devpath = p] EXCEPT !.active = 0]]
      PROVE  \E r \in Client : r.fd = f /\ r.active = 0 /\ sub' = [sub EXCEPT ![s] = r]
  <2> DEFINE q1 == [c EXCEPT !.watcher = b]
             q2 == [q1 EXCEPT !.devpath = p]
             q3 == [q2 EXCEPT !.active = 0]
  <2>1. sub' = [sub EXCEPT ![s] = q3]
    BY <1>4
  <2>2. q1 \in Client /\ q1.fd = c.fd
    BY <1>1, SetWatcher
  <2> HIDE DEF q1
  <2>3. q2 \in Client /\ q2.fd = c.fd
    BY <2>2, SetDevpath
  <2> HIDE DEF q2
  <2>4. q3 \in Client /\ q3.fd = c.fd /\ q3.active = 0
    BY <1>1, <2>3, SetActive
  <2> HIDE DEF q3
  <2> QED
    BY <2>1, <2>4
<1>5. ASSUME sub' = [sub EXCEPT ![s] = [c EXCEPT !.active = 0]]
      PROVE  \E r \in Client : r.fd = f /\ r.active = 0 /\ sub' = [sub EXCEPT ![s] = r]
  <2> DEFINE q == [c EXCEPT !.active = 0]
  <2>1. q \in Client /\ q.fd = c.fd /\ q.active = 0
    BY <1>1, SetActive
  <2>2. sub' = [sub EXCEPT ![s] = q]
    BY <1>5
  <2> HIDE DEF q
  <2> QED
    BY <2>1, <2>2
<1>6. TRUE \in BOOLEAN /\ FALSE \in BOOLEAN /\ "" \in Paths \cup {""}
  OBVIOUS
<1>7. todo' \subseteq Devices
  BY <1>3, FindIs
<1>8. \E r \in Client : r.fd = f /\ r.active = 0 /\ sub' = [sub EXCEPT ![s] = r]
  BY <1>3, <1>4, <1>5, <1>6, Zenon
<1> QED
  BY <1>2, <1>7, <1>8

LEMMA HearKeeps ==
  ASSUME Sound, NEW s \in Slots, Hear(s)
  PROVE  Sound'
<1> DEFINE f == sub[s].fd
           k == HearPlace(s)
<1>1. /\ Turn(k) /\ f \in rfds
      /\ UNCHANGED <<start, fragments, dev, rfds, cfd, highwater, signalled, plugged, signals>>
  BY DEF Hear, Visited
<1>2. MaxDevices < k
  BY PlacesAre
<1>3. fragments = 0 /\ fragments' = 0
  BY <1>1, <1>2, NoFragments
<1>4. TypeOK /\ Owners /\ PoolOK /\ LoopOK /\ sub \in [Slots -> Client] /\ input \in [Fds -> Reports]
  BY PoolIs DEF PoolOK
<1>5. f \in Fds /\ f # None
  BY <1>1, <1>4, Fields
<1>6. CASE input[f] \notin Requests
  <2>1. Detach({s}) /\ Done(k) /\ UNCHANGED todo
    BY <1>6 DEF Hear
  <2>2. LoopOK' /\ Stages' /\ at' \in Nat /\ at <= at'
    BY <1>1, <1>3, <2>1, DoneIs
  <2>3. Kept'
    BY <1>1, <2>1, <2>2, DetachKeeps
  <2> QED
    BY <2>2, <2>3, SoundIs
<1>7. CASE input[f] \in Requests
  <2>1. /\ input' = [input EXCEPT ![f] = "none"]
        /\ \E r \in Client : r.fd = f /\ r.active = 0 /\ sub' = [sub EXCEPT ![s] = r]
        /\ todo' \subseteq Devices /\ at' = k + 1
        /\ pc' = IF todo' = {} THEN pc ELSE "awaken"
        /\ UNCHANGED <<file, all_fds>>
    BY <1>7, RequestIs
  <2>2. PICK r \in Client : r.fd = f /\ r.active = 0 /\ sub' = [sub EXCEPT ![s] = r]
    BY <2>1
  <2>3. pc = "round" /\ at \in Nat /\ at <= k /\ cfd = None /\ k \in 1 .. ReleasePlace(MaxDevices)
    BY <1>1, TurnIs
  <2>4. at' \in 1 .. 1 + ReleasePlace(MaxDevices) /\ at' \in Nat /\ at <= at' /\ ~ (at' <= k)
    <3>1. ReleasePlace(MaxDevices) \in Nat
      BY PlacesAre DEF ReleasePlace
    <3> HIDE DEF k
    <3> QED
      BY <2>1, <2>3, <3>1
  <2> HIDE DEF k, f
  <2>5. sub' \in [Slots -> Client] /\ \A t \in Slots : sub'[t] = IF t = s THEN r ELSE sub[t]
    BY <1>4, <2>2
  <2>6. input' \in [Fds -> Reports] /\ input'[f] = "none" /\ \A g \in Fds : g # f => input'[g] = input[g]
    <3>1. "none" \in Reports
      BY DEF Reports
    <3>2. input' = [input EXCEPT ![f] = "none"]
      BY <2>1
    <3> QED
      BY <1>4, <1>5, <3>1, <3>2
  <2>7. PoolOK'
    BY <1>1, <1>4, <2>1, <2>5, <2>6 DEF PoolOK
  <2>8. \A t \in Slots : /\ sub'[t].fd = sub[t].fd
                         /\ sub'[t].active # None <=> sub'[t].fd # None
    <3>1. \A t \in Slots : sub[t].active # None <=> sub[t].fd # None
      BY <1>4 DEF Owners, Active
    <3>2. 0 # None
      BY DEF None
    <3> QED
      BY <1>5, <2>2, <2>5, <3>1, <3>2 DEF f
  <2>9. \A t \in Slots : sub[t].fd # None /\ at' <= HearPlace(t) => input'[sub[t].fd] = input[sub[t].fd]
    <3> SUFFICES ASSUME NEW t \in Slots, sub[t].fd # None, at' <= HearPlace(t)
                 PROVE  input'[sub[t].fd] = input[sub[t].fd]
      OBVIOUS
    <3>1. t # s
      BY <2>4 DEF k
    <3>2. sub[t].fd # f
      BY <1>4, <3>1 DEF Owners, f
    <3>3. sub[t].fd \in Fds
      BY <1>4, Fields
    <3> QED
      BY <2>6, <3>2, <3>3
  <2>10. Shut({}, {}) = {}
    BY DEF Shut
  <2>11. Kept'
    <3>1. \A g \in Fds : /\ file'[g] = IF g \in Shut({}, {}) THEN "none" ELSE file[g]
                         /\ input'[g] = "none" \/ (input'[g] = input[g] /\ g \notin Shut({}, {}))
      BY <2>1, <2>6, <2>10
    <3>2. \A d \in Devices : /\ dev'[d].fd = dev[d].fd
                             /\ dev'[d].path = dev[d].path /\ dev'[d].reawake = dev[d].reawake
      BY <1>1
    <3>3. \A g \in all_fds : g \in all_fds' \/ g \in Shut({}, {}) \/ file[g] = "none"
      BY <2>1
    <3> QED
      BY <1>1, <2>4, <2>7, <2>8, <2>9, <3>1, <3>2, <3>3, Staying
  <2>12. LoopOK'
    <3>1. pc' \in Stops
      BY <2>1, <2>3 DEF Stops
    <3> QED
      BY <1>1, <1>4, <2>1, <2>4, <3>1 DEF LoopOK
  <2>13. Stages'
    BY <1>1, <1>3, <2>1, <2>3 DEF Sound, Stages, Multipoll
  <2> QED
    BY <2>11, <2>12, <2>13, SoundIs
<1> QED
  BY <1>6, <1>7

LEMMA DismissKeeps ==
  ASSUME Sound, NEW s \in Slots, Dismiss(s)
  PROVE  Sound'
<1>1. /\ Turn(HearPlace(s)) /\ Done(HearPlace(s)) /\ Detach({s})
      /\ UNCHANGED <<start, fragments, todo, dev, rfds, cfd, highwater, signalled, plugged, signals>>
  BY DEF Dismiss, Visited
<1>2. fragments' = 0
  BY <1>1, NoFragments, PlacesAre
<1>3. LoopOK' /\ Stages' /\ at' \in Nat /\ at <= at'
  BY <1>1, <1>2, DoneIs
<1>4. Kept'
  BY <1>1, <1>3, DetachKeeps
<1> QED
  BY <1>3, <1>4, SoundIs

LEMMA AwakenNextKeeps ==
  ASSUME Sound, AwakenNext
  PROVE  Sound'
<1> DEFINE d == Min(todo)
<1>1. /\ pc = "awaken" /\ Awaken(d, dev[d]) /\ todo' = todo \ {d}
      /\ pc' = IF todo' = {} THEN "round" ELSE pc
      /\ UNCHANGED <<start, at, fragments, sub, rfds, cfd, highwater, signalled, plugged, signals>>
  BY DEF AwakenNext
<1>2. LoopOK /\ todo # {} /\ cfd = None
  BY <1>1, PoolIs DEF Sound, Stages
<1>3. d \in todo /\ todo \subseteq Devices
  <2>1. todo \in SUBSET Nat
    BY <1>2, Counts DEF LoopOK, Devices
  <2> QED
    BY <1>2, <2>1, LeastExists DEF LoopOK
<1> HIDE DEF d
<1>4. dev[d] \in Device
  BY <1>3, PoolIs, Fields
<1>5. at' \in Nat /\ at <= at'
  <2>1. at \in 1 .. 1 + ReleasePlace(MaxDevices) /\ at' = at
    BY <1>1, <1>2 DEF LoopOK
  <2> QED
    BY <2>1
<1>6. fragments' = 0
  <2>1. fragments \in Nat
    BY <1>2, Times DEF LoopOK
  <2>2. ~ (fragments > 0)
    BY <1>1 DEF Sound, Stages, Multipoll
  <2> QED
    BY <1>1, <2>1, <2>2
<1>7. Kept'
  BY <1>1, <1>3, <1>4, <1>5, AwakenKeeps
<1>8. LoopOK'
  <2>1. pc' \in Stops /\ todo' \subseteq Devices
    BY <1>1, <1>3 DEF Stops
  <2> QED
    BY <1>1, <1>2, <2>1 DEF LoopOK
<1>9. Stages'
  BY <1>1, <1>2, <1>6 DEF Sound, Stages, Multipoll
<1> QED
  BY <1>7, <1>8, <1>9, SoundIs

-----------------------------------------------------------------------------
(* Release and reopening.                                                   *)

LEMMA ReleaseKeeps ==
  ASSUME Sound, NEW d \in Devices, Release(d)
  PROVE  Sound'
<1>1. /\ Turn(ReleasePlace(d)) /\ Done(ReleasePlace(d))
      /\ UNCHANGED <<start, fragments, todo, rfds, cfd, highwater, signalled, plugged, signals>>
      /\ \/ dev' = [dev EXCEPT ![d].releasetime = 0] /\ UNCHANGED <<sub, fds>>
         \/ Deactivate(d, dev[d])
  BY DEF Release
<1>2. fragments' = 0
  BY <1>1, NoFragments, PlacesAre
<1>3. LoopOK' /\ Stages' /\ at' \in Nat /\ at <= at'
  BY <1>1, <1>2, DoneIs
<1>4. dev[d] \in Device
  BY PoolIs, Fields
<1>5. CASE dev' = [dev EXCEPT ![d].releasetime = 0] /\ UNCHANGED <<sub, fds>>
  <2> DEFINE r == [dev[d] EXCEPT !.releasetime = 0]
  <2>1. r \in Device /\ r.fd = dev[d].fd /\ r.path = dev[d].path /\ r.reawake = dev[d].reawake
    BY <1>4, AgesAre, SetReleasetime
  <2>2. dev' = [dev EXCEPT ![d] = r]
    BY <1>5
  <2> HIDE DEF r
  <2>3. Kept'
    BY <1>1, <1>3, <1>5, <2>1, <2>2, DeviceKeeps
  <2> QED
    BY <1>3, <2>3, SoundIs
<1>6. CASE Deactivate(d, dev[d])
  <2>1. Kept'
    BY <1>1, <1>3, <1>4, <1>6, DeactivateKeeps
  <2> QED
    BY <1>3, <2>1, SoundIs
<1> QED
  BY <1>1, <1>5, <1>6

LEMMA RetryKeeps ==
  ASSUME Sound, NEW d \in Devices, Retry(d)
  PROVE  Sound'
<1> DEFINE r == [dev[d] EXCEPT !.opentime = 0]
<1>1. /\ Turn(ReleasePlace(d)) /\ Done(ReleasePlace(d)) /\ Awaken(d, r)
      /\ UNCHANGED <<start, fragments, todo, sub, rfds, cfd, highwater, signalled, plugged, signals>>
  BY DEF Retry
<1>2. fragments' = 0
  BY <1>1, NoFragments, PlacesAre
<1>3. LoopOK' /\ Stages' /\ at' \in Nat /\ at <= at'
  BY <1>1, <1>2, DoneIs
<1>4. dev[d] \in Device
  BY PoolIs, Fields
<1>5. r \in Device /\ r.fd = dev[d].fd /\ r.path = dev[d].path /\ r.reawake = dev[d].reawake
  BY <1>4, AgesAre, SetOpentime
<1> HIDE DEF r
<1>6. Kept'
  BY <1>1, <1>3, <1>5, AwakenKeeps
<1> QED
  BY <1>3, <1>6, SoundIs

-----------------------------------------------------------------------------
(* The loop.                                                                *)

\* Outside a round nothing has been read, and its next place is the first.
LEMMA OutsideRounds ==
  ASSUME Sound, pc # "round"
  PROVE  /\ fragments = 0
         /\ pc # "awaken" => at = 1
         /\ cfd # None <=> pc = "control"
         /\ rfds # {} => pc \in {"control", "awaken"}
<1>1. fragments \in Nat
  BY PoolIs, Times DEF LoopOK
<1> QED
  BY <1>1 DEF Sound, Stages, Multipoll

LEMMA GoIs ==
  ASSUME NEW stage, Go(stage)
  PROVE  pc' = stage /\ at' = 1 /\ at' \in Nat /\ at' \in 1 .. 1 + ReleasePlace(MaxDevices)
BY PlacesAre DEF Go, ReleasePlace

LEMMA BootKeeps ==
  ASSUME Sound, Boot
  PROVE  Sound'
<1>1. /\ pc = "boot" /\ Go("top")
      /\ UNCHANGED <<start, fragments, todo, rfds, cfd, signalled, plugged, signals>>
      /\ IF start.argv = <<>> THEN UNCHANGED <<pool, fds, highwater>> ELSE AddDevice(start.argv[1])
  BY DEF Boot
<1>2. pc' = "top" /\ at' = 1 /\ at' \in Nat /\ at <= at' /\ at' \in 1 .. 1 + ReleasePlace(MaxDevices)
  BY <1>1, GoIs, OutsideRounds
<1>3. LoopOK /\ start \in Starts
  BY PoolIs DEF LoopOK
<1>4. highwater' \in BOOLEAN
  BY <1>1, <1>3 DEF AddDevice, LoopOK
<1>5. LoopOK'
  BY <1>1, <1>2, <1>3, <1>4 DEF LoopOK, Stops
<1>6. Stages'
  BY <1>1, <1>2, OutsideRounds DEF Stages, Multipoll
<1>7. CASE start.argv = <<>>
  <2>1. UNCHANGED <<sub, dev, all_fds, file, input, cfd, rfds>>
    BY <1>1, <1>7 DEF pool, fds
  <2>2. Kept'
    BY <1>2, <2>1, Quiet
  <2> QED
    BY <1>5, <1>6, <2>2, SoundIs
<1>8. CASE start.argv # <<>>
  <2>1. PICK p \in Paths : start.argv = <<p>>
    BY <1>3, <1>8, StartsAreOptions
  <2>2. start.argv[1] \in Paths
    BY <2>1
  <2>3. AddDevice(start.argv[1])
    BY <1>1, <1>8
  <2>4. Kept'
    BY <1>1, <1>2, <2>2, <2>3, AddDeviceKeeps
  <2> QED
    BY <1>5, <1>6, <2>4, SoundIs
<1> QED
  BY <1>7, <1>8

\* gpsd_terminate: all devices are closed.
LEMMA HangupKeeps ==
  ASSUME Sound, pc = "top", dev' = [d \in Devices |-> [dev[d] EXCEPT !.fd = None]],
         Kernel({dev[d].fd : d \in Devices}, None, "none"),
         UNCHANGED <<sub, all_fds, cfd, rfds>>, at' = 1
  PROVE  Kept'
<1> DEFINE D == Devices
           G == {}
           X == {dev[d].fd : d \in Devices}
<1>1. dev \in [Devices -> Device] /\ all_fds \subseteq Fds
  BY PoolIs DEF PoolOK
<1>2. \A d \in Devices : dev'[d] \in Device /\ dev'[d].fd = None
  BY <1>1, SetFd
<1>3. dev' \in [Devices -> Device]
  BY <1>2
<1>4. \A d \in Devices : dev'[d].fd = IF d \in D THEN None ELSE dev[d].fd
  BY <1>2
<1>5. \A d \in Devices \ D : dev[d].fd # None => dev'[d].path = dev[d].path
      /\ dev'[d].reawake = dev[d].reawake
  OBVIOUS
<1>6. \A g \in Fds : g \in X <=> g \in Shut(G, D)
  BY DEF Shut
<1>7. all_fds' \subseteq Fds /\ \A g \in all_fds : g \in all_fds' \/ g \in Shut(G, D)
  BY <1>1
<1>8. Kernel(X, None, "none") /\ D \in SUBSET Devices /\ G \in SUBSET Slots /\ sub' = Detached(G)
  BY NobodyDetached
<1>9. at' \in Nat /\ at <= at'
  BY OutsideRounds
<1> HIDE DEF D, G, X
<1> QED
  BY <1>3, <1>4, <1>5, <1>6, <1>7, <1>8, <1>9, Ending

\* Its end: all clients are detached and all descriptors closed.
LEMMA TerminateKeeps ==
  ASSUME Sound, pc = "top", dev' = [d \in Devices |-> [dev[d] EXCEPT !.fd = None]],
         sub' = Detached(Slots), all_fds' = all_fds \ FdsOf(Slots),
         Kernel(Fds, None, "none"), UNCHANGED <<cfd, rfds>>, at' = 1
  PROVE  Kept'
<1> DEFINE D == Devices
           G == Slots
<1>1. /\ dev \in [Devices -> Device] /\ all_fds \subseteq Fds /\ TypeOK /\ Owners
      /\ cfd = None /\ None \notin Fds
  BY PoolIs, Fields, OutsideRounds DEF PoolOK
<1>2. \A d \in Devices : dev'[d] \in Device /\ dev'[d].fd = None
  BY <1>1, SetFd
<1>3. dev' \in [Devices -> Device]
  BY <1>2
<1>4. \A d \in Devices : dev'[d].fd = IF d \in D THEN None ELSE dev[d].fd
  BY <1>2
<1>5. \A d \in Devices \ D : dev[d].fd # None => dev'[d].path = dev[d].path
      /\ dev'[d].reawake = dev[d].reawake
  OBVIOUS
<1> DEFINE X == Shut(G, D)
<1>6. Kernel(X, None, "none")
  <2>1. \A g \in Fds : g \notin X => file[g] = "none" /\ input[g] = "none"
    <3> SUFFICES ASSUME NEW g \in Fds, g \notin X
                 PROVE  file[g] = "none" /\ input[g] = "none"
      OBVIOUS
    <3>1. file[g] # "client" /\ file[g] \notin Paths
      BY <1>1 DEF Owners, Shut
    <3>2. file[g] # "control"
      BY <1>1 DEF Owners
    <3>3. file[g] \in {"none", "client", "control"} \cup Paths
      BY <1>1, Fields
    <3>4. file[g] = "none"
      BY <3>1, <3>2, <3>3
    <3> QED
      BY <1>1, <3>4 DEF Owners
  <2>2. /\ file' = [g \in Fds |-> "none"] /\ input' = [g \in Fds |-> "none"]
    BY DEF Kernel
  <2>3. file' = [g \in Fds |-> IF g \in X THEN "none" ELSE IF g = None THEN "none" ELSE file[g]]
    BY <2>1, <2>2
  <2>4. input' = [g \in Fds |-> IF g \in X \cup {None} THEN "none" ELSE input[g]]
    BY <2>1, <2>2
  <2> QED
    BY <2>3, <2>4 DEF Kernel
<1>7. all_fds' \subseteq Fds /\ \A g \in all_fds : g \in all_fds' \/ g \in Shut(G, D)
  BY <1>1 DEF Shut, FdsOf
<1>8. D \in SUBSET Devices /\ G \in SUBSET Slots /\ sub' = Detached(G)
  OBVIOUS
<1>9. at' \in Nat /\ at <= at'
  BY OutsideRounds
<1>10. \A g \in Fds : g \in X <=> g \in Shut(G, D)
  OBVIOUS
<1> HIDE DEF D, G, X
<1> QED
  BY <1>3, <1>4, <1>5, <1>6, <1>7, <1>8, <1>9, <1>10, Ending

LEMMA TopKeeps ==
  ASSUME Sound, Top
  PROVE  Sound'
<1>1. /\ pc = "top" /\ fragments = 0 /\ rfds = {} /\ cfd = None /\ LoopOK
      /\ UNCHANGED <<start, fragments, todo, rfds, cfd, highwater, signalled, plugged, signals>>
  BY OutsideRounds, PoolIs DEF Top
<1>2. CASE signalled = "none" /\ Go("select") /\ UNCHANGED <<pool, fds>>
  <2>1. pc' = "select" /\ at' = 1 /\ at' \in Nat /\ at' \in 1 .. 1 + ReleasePlace(MaxDevices)
    BY <1>2, GoIs
  <2>2. UNCHANGED <<sub, dev, all_fds, file, input, cfd>> /\ rfds' = {}
    BY <1>1, <1>2 DEF pool, fds
  <2>3. Kept'
    BY <2>1, <2>2, Quiet
  <2>4. LoopOK'
    BY <1>1, <1>2, <2>1 DEF LoopOK, Stops
  <2>5. Stages'
    BY <1>1, <1>2, <2>1 DEF Stages, Multipoll
  <2> QED
    BY <2>3, <2>4, <2>5, SoundIs
<1>3. CASE /\ signalled = "hup" /\ Go("restart")
           /\ dev' = [d \in Devices |-> [dev[d] EXCEPT !.fd = None]]
           /\ Kernel({dev[d].fd : d \in Devices}, None, "none")
           /\ UNCHANGED <<sub, all_fds>>
  <2>1. pc' = "restart" /\ at' = 1 /\ at' \in Nat /\ at' \in 1 .. 1 + ReleasePlace(MaxDevices)
    BY <1>3, GoIs
  <2>2. Kept'
    BY <1>1, <1>3, <2>1, HangupKeeps
  <2>3. LoopOK'
    BY <1>1, <1>3, <2>1 DEF LoopOK, Stops
  <2>4. Stages'
    BY <1>1, <1>3, <2>1 DEF Stages, Multipoll
  <2> QED
    BY <2>2, <2>3, <2>4, SoundIs
<1>4. CASE /\ signalled = "term" /\ Go("done")
           /\ sub' = Detached(Slots)
           /\ dev' = [d \in Devices |-> [dev[d] EXCEPT !.fd = None]]
           /\ all_fds' = all_fds \ FdsOf(Slots)
           /\ Kernel(Fds, None, "none")
  <2>1. pc' = "done" /\ at' = 1 /\ at' \in Nat /\ at' \in 1 .. 1 + ReleasePlace(MaxDevices)
    BY <1>4, GoIs
  <2>2. Kept'
    BY <1>1, <1>4, <2>1, TerminateKeeps
  <2>3. LoopOK'
    BY <1>1, <1>4, <2>1 DEF LoopOK, Stops
  <2>4. Stages'
    BY <1>1, <1>4, <2>1 DEF Stages, Multipoll
  <2> QED
    BY <2>2, <2>3, <2>4, SoundIs
<1> QED
  BY <1>2, <1>3, <1>4 DEF Top

LEMMA RestartKeeps ==
  ASSUME Sound, Restart
  PROVE  Sound'
<1>1. /\ pc = "restart" /\ fragments = 0 /\ rfds = {} /\ cfd = None /\ LoopOK
      /\ pc' = "boot" /\ at' = 1 /\ at' \in Nat /\ at' \in 1 .. 1 + ReleasePlace(MaxDevices)
      /\ signalled' = "none"
      /\ UNCHANGED <<start, fragments, todo, pool, rfds, fds, cfd, highwater, plugged, signals>>
  BY OutsideRounds, GoIs, PoolIs DEF Restart
<1>2. UNCHANGED <<sub, dev, all_fds, file, input, cfd>> /\ rfds' = {}
  BY <1>1 DEF pool, fds
<1>3. Kept'
  BY <1>1, <1>2, Quiet
<1>4. LoopOK'
  BY <1>1 DEF LoopOK, Stops
<1>5. Stages'
  BY <1>1 DEF Stages, Multipoll
<1> QED
  BY <1>3, <1>4, <1>5, SoundIs

LEMMA AwaitKeeps ==
  ASSUME Sound, Await
  PROVE  Sound'
<1>1. /\ pc = "select" /\ rfds' = ReadyFds /\ fragments = 0 /\ cfd = None /\ LoopOK
      /\ pc' = "round" /\ at' = 1 /\ at' \in Nat /\ at' \in 1 .. 1 + ReleasePlace(MaxDevices)
      /\ UNCHANGED <<start, fragments, todo, pool, fds, cfd, highwater, signalled, plugged, signals>>
  BY OutsideRounds, GoIs, PoolIs DEF Await
<1>2. UNCHANGED <<sub, dev, all_fds, file, input, cfd>>
  BY <1>1 DEF pool, fds
<1>3. Kept'
  BY <1>1, <1>2, Quiet
<1>4. LoopOK'
  <2>1. rfds' \subseteq Fds
    BY <1>1, PoolIs DEF ReadyFds, PoolOK
  <2> QED
    BY <1>1, <2>1 DEF LoopOK, Stops
<1>5. Stages'
  BY <1>1, OutsideRounds DEF Stages, Multipoll
<1> QED
  BY <1>3, <1>4, <1>5, SoundIs

\* No open device is among what is closed: those that are freed have no descriptor.
LEMMA AwaitBadKeeps ==
  ASSUME Sound, AwaitBad
  PROVE  Sound'
<1>1. /\ pc = "select" /\ fragments = 0 /\ cfd = None /\ LoopOK /\ rfds = {}
      /\ pc' = "top" /\ at' = 1 /\ at' \in Nat /\ at' \in 1 .. 1 + ReleasePlace(MaxDevices)
      /\ UNCHANGED <<start, fragments, todo, rfds, cfd, highwater, signalled, plugged, signals>>
  BY OutsideRounds, GoIs, PoolIs DEF AwaitBad
<1>2. PICK bad \in {{}, {d \in Devices : Allocated(d) /\ ~IsOpen(d)}} :
        \E gone \in SUBSET UNION {Failing(dev[d].path) : d \in bad} :
          /\ sub' = Detached(gone)
          /\ dev' = [d \in Devices |->
                       IF d \in bad \/ dev[d].fd \in Closed
                       THEN [dev[d] EXCEPT !.path = "", !.fd = None] ELSE dev[d]]
          /\ all_fds' = all_fds \ (Closed \cup FdsOf(gone))
          /\ Kernel(FdsOf(gone), None, "none")
  BY DEF AwaitBad
<1>3. PICK G \in SUBSET UNION {Failing(dev[d].path) : d \in bad} :
        /\ sub' = Detached(G)
        /\ dev' = [d \in Devices |->
                     IF d \in bad \/ dev[d].fd \in Closed
                     THEN [dev[d] EXCEPT !.path = "", !.fd = None] ELSE dev[d]]
        /\ all_fds' = all_fds \ (Closed \cup FdsOf(G))
        /\ Kernel(FdsOf(G), None, "none")
  BY <1>2
<1>4. G \in SUBSET Slots
  BY <1>3 DEF Failing, Watchers
<1>5. bad \subseteq Devices /\ \A d \in bad : dev[d].fd = None
  BY <1>2 DEF IsOpen
<1>6. TypeOK /\ Owners /\ PoolOK /\ dev \in [Devices -> Device] /\ all_fds \subseteq Fds
      /\ None \notin Fds
  BY PoolIs, Fields DEF PoolOK
<1>7. \A d \in Devices : dev[d].fd \notin Closed
  BY <1>6, Apart DEF Closed
<1> DEFINE r(d) == [dev[d] EXCEPT !.path = "", !.fd = None]
           X    == FdsOf(G)
<1>8. \A d \in Devices : r(d) \in Device /\ r(d).fd = None
  <2>1. ASSUME NEW d \in Devices
        PROVE  r(d) \in Device /\ r(d).fd = None
    <3>1. [dev[d] EXCEPT !.path = ""] \in Device
      BY <1>6, SetPath
    <3>2. [[dev[d] EXCEPT !.path = ""] EXCEPT !.fd = None] \in Device
          /\ [[dev[d] EXCEPT !.path = ""] EXCEPT !.fd = None].fd = None
      BY <3>1, SetFd
    <3> QED
      BY <3>2
  <2> QED
    BY <2>1
<1>9. X = Shut(G, {}) /\ all_fds' = all_fds \ (Closed \cup X) /\ Kernel(X, None, "none")
  BY <1>3 DEF FdsOf, Shut
<1>10. dev' = [d \in Devices |-> IF d \in bad THEN r(d) ELSE dev[d]]
  BY <1>3, <1>7
<1> HIDE DEF r, X
<1>11. \A d \in Devices : dev'[d] = (IF d \in bad THEN r(d) ELSE dev[d]) /\ dev'[d] \in Device
  BY <1>6, <1>8, <1>10
<1>12. dev' \in [Devices -> Device]
  BY <1>10, <1>11
<1>13. /\ sub' \in [Slots -> Client]
       /\ \A s \in Slots : /\ sub'[s].fd = IF s \in G THEN None ELSE sub[s].fd
                           /\ sub'[s].active # None <=> sub'[s].fd # None
  BY <1>3, <1>4, DetachedIs
<1>14. /\ file' \in [Fds -> Whats] /\ input' \in [Fds -> Reports]
       /\ \A g \in Fds : file'[g] = IF g \in X THEN "none" ELSE IF g = None THEN "none" ELSE file[g]
       /\ \A g \in Fds : input'[g] = "none" \/ (input'[g] = input[g] /\ g \notin X)
       /\ \A g \in Fds : g \notin X /\ g # None => input'[g] = input[g]
  <2>1. "none" \in Whats
    BY DEF Whats
  <2> QED
    BY <1>9, <2>1, KernelIs
<1>15. PoolOK'
  BY <1>6, <1>9, <1>12, <1>13, <1>14 DEF PoolOK
<1>16. Kept'
  <2>1. \A d \in Devices : /\ dev'[d].fd = dev[d].fd
                           /\ dev[d].fd # None => dev'[d].path = dev[d].path
                           /\ dev[d].fd # None /\ dev'[d].reawake = None =>
                                dev[d].reawake = None \/ dev[d].fd \in all_fds'
    BY <1>5, <1>8, <1>11
  <2>2. /\ \A g \in Fds : file'[g] = IF g \in Shut(G, {}) THEN "none" ELSE file[g]
        /\ \A g \in Fds : input'[g] = "none" \/ (input'[g] = input[g] /\ g \notin Shut(G, {}))
    BY <1>6, <1>9, <1>14
  <2>3. \A s \in Slots \ G : sub[s].fd # None => input'[sub[s].fd] = input[sub[s].fd]
    <3>1. ASSUME NEW s \in Slots \ G, sub[s].fd # None
          PROVE  input'[sub[s].fd] = input[sub[s].fd]
      <4>1. sub[s].fd \in Fds
        BY <1>6, <3>1, Apart
      <4>2. sub[s].fd \notin X
        BY <1>4, <1>6, <1>9, <3>1, OthersStayOpen
      <4> QED
        BY <1>14, <3>1, <4>1, <4>2
    <3> QED
      BY <3>1
  <2>4. \A g \in all_fds : g \in all_fds' \/ g \in Shut(G, {}) \/ file[g] = "none"
    BY <1>9 DEF Closed
  <2> QED
    BY <1>1, <1>4, <1>13, <1>15, <2>1, <2>2, <2>3, <2>4, Staying
<1>17. LoopOK'
  BY <1>1 DEF LoopOK, Stops
<1>18. Stages'
  BY <1>1, OutsideRounds DEF Stages, Multipoll
<1> QED
  BY <1>16, <1>17, <1>18, SoundIs

LEMMA EndOfRoundKeeps ==
  ASSUME Sound, EndOfRound
  PROVE  Sound'
<1>1. /\ pc = "round" /\ \A k \in at .. ReleasePlace(MaxDevices) : ~HasWork(k)
      /\ rfds' = {}
      /\ UNCHANGED <<start, fragments, todo, pool, fds, cfd, highwater, signalled, plugged, signals>>
  BY DEF EndOfRound
<1>2. PICK stage \in {"done", "top"} : Go(stage)
  BY DEF EndOfRound
<1>3. pc' = stage /\ at' = 1 /\ at' \in Nat /\ at' \in 1 .. 1 + ReleasePlace(MaxDevices)
  BY <1>2, GoIs
<1>4. LoopOK /\ cfd = None
  BY <1>1, PoolIs DEF Sound, Stages
<1>5. fragments = 0
  <2>1. fragments \in Nat
    BY <1>4, Times DEF LoopOK
  <2>2. ASSUME fragments > 0
        PROVE  FALSE
    <3>1. at \in Devices /\ Allocated(at) /\ IsOpen(at) /\ dev[at].fd \in rfds
      BY <2>2 DEF Sound, Stages, Multipoll
    <3>2. HasWork(at)
      BY <3>1 DEF HasWork, HasInput, PollPlace
    <3>3. at \in at .. ReleasePlace(MaxDevices)
      BY <3>1, PlacesAre DEF Devices, ReleasePlace
    <3> QED
      BY <1>1, <3>2, <3>3
  <2> QED
    BY <2>1, <2>2
<1>6. UNCHANGED <<sub, dev, all_fds, file, input, cfd>>
  BY <1>1 DEF pool, fds
<1>7. Kept'
  BY <1>1, <1>3, <1>6, Quiet
<1>8. LoopOK'
  BY <1>1, <1>3, <1>4 DEF LoopOK, Stops
<1>9. Stages'
  BY <1>1, <1>3, <1>4, <1>5 DEF Stages, Multipoll
<1> QED
  BY <1>7, <1>8, <1>9, SoundIs

-----------------------------------------------------------------------------
(* Clients and the control client connect, devices are added and removed.   *)

LEMMA ConnectKeeps ==
  ASSUME Sound, Connect
  PROVE  Sound'
<1>1. /\ pc = "select" /\ rfds' = ReadyFds /\ fragments = 0 /\ cfd = None /\ LoopOK
      /\ pc' = "round" /\ at' = 1 /\ at' \in Nat /\ at' \in 1 .. 1 + ReleasePlace(MaxDevices)
      /\ Accept(LowestFree)
      /\ UNCHANGED <<start, fragments, todo, dev, cfd, highwater, signalled, plugged, signals>>
  BY OutsideRounds, GoIs, PoolIs DEF Connect
<1>2. Kept'
  BY <1>1, AcceptKeeps
<1>3. LoopOK'
  <2>1. rfds' \subseteq Fds
    BY <1>1, PoolIs DEF ReadyFds, PoolOK
  <2> QED
    BY <1>1, <2>1 DEF LoopOK, Stops
<1>4. Stages'
  BY <1>1, OutsideRounds DEF Stages, Multipoll
<1> QED
  BY <1>2, <1>3, <1>4, SoundIs

LEMMA ConnectControlKeeps ==
  ASSUME Sound, ConnectControl
  PROVE  Sound'
<1>1. /\ pc = "select" /\ rfds' = ReadyFds /\ fragments = 0 /\ cfd = None /\ LoopOK
      /\ pc' = "control" /\ at' = 1 /\ at' \in Nat /\ at' \in 1 .. 1 + ReleasePlace(MaxDevices)
      /\ cfd' = LowestFree /\ all_fds' = all_fds \cup {LowestFree} /\ Kernel({}, LowestFree, "control")
      /\ UNCHANGED <<start, fragments, todo, pool, highwater, signalled, plugged, signals>>
  BY OutsideRounds, GoIs, PoolIs DEF ConnectControl
<1>2. UNCHANGED <<sub, dev>>
  BY <1>1 DEF pool
<1>3. Kept'
  BY <1>1, <1>2, ControlOpens
<1>4. cfd' \in Fds /\ cfd' # None
  BY <1>1, PoolIs, LowestIsFree, Fields
<1>5. LoopOK'
  <2>1. rfds' \subseteq Fds
    BY <1>1, PoolIs DEF ReadyFds, PoolOK
  <2> QED
    BY <1>1, <1>4, <2>1 DEF LoopOK, Stops
<1>6. Stages'
  BY <1>1, <1>4, OutsideRounds DEF Stages, Multipoll
<1> QED
  BY <1>3, <1>5, <1>6, SoundIs

LEMMA ControlAddKeeps ==
  ASSUME Sound, NEW p \in Paths, ControlAdd(p)
  PROVE  Sound'
<1>1. /\ pc = "control" /\ AddDevice(p) /\ fragments = 0 /\ at = 1 /\ LoopOK
      /\ UNCHANGED <<start, pc, at, fragments, todo, rfds, cfd, signalled, plugged, signals>>
  BY OutsideRounds, PoolIs DEF ControlAdd, loop
<1>2. at' \in Nat /\ at <= at'
  BY <1>1
<1>3. Kept'
  BY <1>1, <1>2, AddDeviceKeeps
<1>4. highwater' \in BOOLEAN
  BY <1>1 DEF AddDevice, LoopOK
<1>5. LoopOK'
  BY <1>1, <1>4 DEF LoopOK
<1>6. Stages'
  BY <1>1, OutsideRounds DEF Stages, Multipoll
<1> QED
  BY <1>3, <1>5, <1>6, SoundIs

LEMMA ControlRemoveKeeps ==
  ASSUME Sound, NEW p \in Paths, ControlRemove(p)
  PROVE  Sound'
<1>1. /\ pc = "control" /\ fragments = 0 /\ at = 1 /\ LoopOK
      /\ UNCHANGED <<start, pc, at, fragments, todo, rfds, cfd, highwater, signalled, plugged, signals>>
  BY OutsideRounds, PoolIs DEF ControlRemove, loop
<1>2. PICK d \in Find(p) : Deactivate(d, [dev[d] EXCEPT !.path = ""])
  BY DEF ControlRemove
<1>3. d \in Devices
  BY FindIs
<1> DEFINE r == [dev[d] EXCEPT !.path = ""]
<1>4. r \in Device
  <2>1. dev[d] \in Device
    BY <1>3, PoolIs, Fields
  <2> QED
    BY <2>1, SetPath
<1>5. Deactivate(d, r)
  BY <1>2
<1> HIDE DEF r
<1>6. at' \in Nat /\ at <= at'
  BY <1>1
<1>7. Kept'
  BY <1>1, <1>3, <1>4, <1>5, <1>6, DeactivateKeeps
<1>8. LoopOK'
  BY <1>1 DEF LoopOK
<1>9. Stages'
  BY <1>1, OutsideRounds DEF Stages, Multipoll
<1> QED
  BY <1>7, <1>8, <1>9, SoundIs

LEMMA ControlEndKeeps ==
  ASSUME Sound, ControlEnd
  PROVE  Sound'
<1>1. /\ pc = "control" /\ fragments = 0 /\ at = 1 /\ LoopOK /\ cfd # None
      /\ pc' = "round" /\ at' = 1 /\ at' \in Nat /\ at' \in 1 .. 1 + ReleasePlace(MaxDevices)
      /\ cfd' = None /\ all_fds' = all_fds \ {cfd} /\ Kernel({cfd}, None, "none")
      /\ UNCHANGED <<start, fragments, todo, pool, rfds, highwater, signalled, plugged, signals>>
  BY OutsideRounds, GoIs, PoolIs DEF ControlEnd
<1>2. UNCHANGED <<sub, dev, rfds>> /\ at <= at'
  BY <1>1 DEF pool
<1>3. Kept'
  BY <1>1, <1>2, ControlCloses
<1>4. LoopOK'
  BY <1>1 DEF LoopOK, Stops
<1>5. Stages'
  BY <1>1, OutsideRounds DEF Stages, Multipoll
<1> QED
  BY <1>3, <1>4, <1>5, SoundIs

-----------------------------------------------------------------------------
(* What happens outside gpsd.                                               *)

LEMMA OutsideKeeps ==
  ASSUME Sound, Outside
  PROVE  Sound'
<1>1. /\ UNCHANGED <<start, pc, at, fragments, todo, sub, dev, rfds, all_fds, cfd, highwater,
                     signalled, signals, file>>
      /\ TypeOK /\ Owners /\ Waits /\ PoolOK /\ LoopOK /\ Stages
      /\ input \in [Fds -> Reports]
  BY PoolIs DEF Outside, Request, HangUp, Report, Plug, loop, pool, Sound, PoolOK
<1>2. ASSUME UNCHANGED plugged, NEW f \in Fds, file[f] # "none",
             Waiting \/ (fragments = 1 /\ dev[at].fd = f /\ file[f] \in Paths),
             NEW x \in Reports, x # "none", x # "stalled" \/ input[f] = "none",
             input' = [input EXCEPT ![f] = x]
      PROVE  Sound'
  <2>1. input' \in [Fds -> Reports] /\ \A g \in Fds : input'[g] = IF g = f THEN x ELSE input[g]
    BY <1>1, <1>2
  <2>2. TypeOK'
    <3>1. PoolOK' /\ LoopOK'
      BY <1>1, <1>2, <2>1 DEF PoolOK, LoopOK
    <3> QED
      BY <3>1, TypeParts
  <2>3. Owners'
    BY <1>1, <1>2, <2>1 DEF Owners, Active
  <2>4. Waits'
    <3>1. ASSUME NEW s \in Slots, at <= HearPlace(s), sub[s].fd # None, sub[s].fd \in rfds
          PROVE  Ready(sub[s].fd)'
      <4>1. CASE Waiting
        BY <3>1, <4>1, OutsideRounds DEF Waiting
      <4>2. CASE file[f] \in Paths
        <5>1. sub[s].fd # f /\ sub[s].fd \in Fds
          BY <1>1, <3>1, <4>2, Apart, PathsAreNames
        <5>2. Ready(sub[s].fd)
          BY <1>1, <3>1 DEF Waits
        <5> QED
          BY <1>1, <2>1, <5>1, <5>2 DEF Ready
      <4> QED
        BY <1>2, <4>1, <4>2
    <3> QED
      BY <1>1, <3>1 DEF Waits, Ready
  <2>5. Stages'
    <3>1. Multipoll'
      <4>1. CASE Waiting
        BY <1>1, <4>1, OutsideRounds DEF Multipoll, Waiting
      <4>2. CASE fragments = 1
        BY <1>1, <4>2 DEF Stages, Multipoll, Allocated, IsOpen
      <4> QED
        BY <1>2, <4>1, <4>2
    <3> QED
      BY <1>1, <3>1 DEF Stages
  <2> QED
    BY <2>2, <2>3, <2>4, <2>5 DEF Sound
<1>3. ASSUME NEW f \in Fds, Request(f)
      PROVE  Sound'
  <2>1. PICK x \in Requests \cup {"stalled"} : input' = [input EXCEPT ![f] = x]
    BY <1>3 DEF Request
  <2>2. x \in Reports /\ x # "none"
    BY Inputs DEF Reports
  <2> QED
    BY <1>2, <1>3, <2>1, <2>2 DEF Request
<1>4. ASSUME NEW f \in Fds, HangUp(f)
      PROVE  Sound'
  <2>1. "end" \in Reports
    BY DEF Reports
  <2> QED
    BY <1>2, <1>4, <2>1 DEF HangUp
<1>5. ASSUME NEW f \in Fds, Report(f)
      PROVE  Sound'
  <2>1. PICK x \in Reads : input' = [input EXCEPT ![f] = x]
    BY <1>5 DEF Report
  <2>2. x \in Reports /\ x # "none"
    BY Inputs DEF Reports
  <2>3. file[f] \in Paths /\ file[f] # "none" /\ input[f] = "none"
    BY <1>5, PathsAreNames DEF Report
  <2> QED
    BY <1>2, <1>5, <2>1, <2>2, <2>3 DEF Report
<1>6. ASSUME NEW p \in Paths, Plug(p)
      PROVE  Sound'
  <2>1. UNCHANGED <<sub, dev, all_fds, file, input, cfd, rfds>> /\ plugged' \subseteq Paths
    BY <1>1, <1>6 DEF Plug, LoopOK
  <2>2. at' \in Nat /\ at <= at'
    <3>1. at \in 1 .. 1 + ReleasePlace(MaxDevices)
      BY <1>1 DEF LoopOK
    <3> QED
      BY <1>1, <3>1
  <2>3. Kept'
    BY <2>1, <2>2, Quiet
  <2>4. LoopOK'
    BY <1>1, <2>1 DEF LoopOK
  <2>5. Stages'
    BY <1>1, <2>1 DEF Stages, Multipoll, Allocated, IsOpen
  <2> QED
    BY <2>3, <2>4, <2>5, SoundIs
<1> QED
  BY <1>3, <1>4, <1>5, <1>6 DEF Outside

LEMMA SignalKeeps ==
  ASSUME Sound, Signal
  PROVE  Sound'
<1>1. /\ (pc' = pc \/ (pc = "select" /\ pc' = "top")) /\ LoopOK /\ Stages
      /\ signalled' \in Signals /\ signals' = signals + 1 /\ signals < MaxSignals
      /\ UNCHANGED <<start, at, fragments, todo, pool, rfds, fds, cfd, highwater, plugged>>
  BY PoolIs DEF Signal, Sound
<1>2. UNCHANGED <<sub, dev, all_fds, file, input, cfd, rfds, at, fragments>>
  BY <1>1 DEF pool, fds
<1>3. at' \in Nat /\ at <= at'
  <2>1. at \in 1 .. 1 + ReleasePlace(MaxDevices)
    BY <1>1 DEF LoopOK
  <2> QED
    BY <1>1, <2>1
<1>4. Kept'
  BY <1>2, <1>3, Quiet
<1>5. LoopOK'
  <2>1. signals' \in 0 .. MaxSignals
    BY <1>1, Times DEF LoopOK
  <2> QED
    BY <1>1, <2>1, Inputs DEF LoopOK, Stops
<1>6. Stages'
  <2>1. CASE pc' = pc
    BY <1>1, <1>2, <2>1 DEF Stages, Multipoll, Allocated, IsOpen
  <2>2. CASE pc = "select" /\ pc' = "top"
    BY <1>1, <1>2, <2>2 DEF Stages, Multipoll
  <2> QED
    BY <1>1, <2>1, <2>2
<1> QED
  BY <1>4, <1>5, <1>6, SoundIs

LEMMA TickKeeps ==
  ASSUME Sound, Tick
  PROVE  Sound'
<1>1. /\ pc \in {"select", "control"} /\ fragments = 0 /\ at = 1 /\ LoopOK
      /\ UNCHANGED <<start, pc, at, fragments, todo, rfds, all_fds, file, input, cfd, highwater,
                     signalled, plugged, signals>>
  BY OutsideRounds, PoolIs DEF Tick, loop, fds
<1>2. /\ sub \in [Slots -> Client] /\ dev \in [Devices -> Device] /\ PoolOK /\ TypeOK /\ Owners
      /\ \A s \in Slots : sub[s].active # None <=> sub[s].fd # None
  BY PoolIs DEF PoolOK, Owners, Active
<1>3. ASSUME NEW s \in Slots
      PROVE  /\ sub'[s] \in Client /\ sub'[s].fd = sub[s].fd
             /\ sub'[s].active # None <=> sub'[s].fd # None
  <2> DEFINE r == [sub[s] EXCEPT !.active = Older(sub[s].active)]
  <2>1. sub'[s] = sub[s] \/ sub'[s] = r
    BY DEF Tick
  <2>2. sub[s] \in Client /\ sub[s].active \in Ages
    BY <1>2, Fields
  <2>3. /\ r \in Client /\ r.fd = sub[s].fd /\ r.active = Older(sub[s].active)
        /\ Older(sub[s].active) = None <=> sub[s].active = None
    BY <2>2, AgesAre, SetActive
  <2> HIDE DEF r
  <2> QED
    BY <1>2, <2>1, <2>2, <2>3
<1>4. sub' \in [Slots -> Client]
  BY <1>3 DEF Tick
<1>5. ASSUME NEW d \in Devices
      PROVE  /\ dev'[d] \in Device /\ dev'[d].fd = dev[d].fd /\ dev'[d].path = dev[d].path
             /\ dev'[d].reawake = None => dev[d].reawake = None
  <2>1. dev'[d] = Aged(dev[d])
    BY DEF Tick, Aged
  <2>2. dev[d] \in Device
    BY <1>2
  <2> QED
    BY <2>1, <2>2, DeviceAged
<1>6. dev' \in [Devices -> Device]
  BY <1>5 DEF Tick
<1>7. PoolOK'
  BY <1>1, <1>2, <1>4, <1>6 DEF PoolOK
<1>8. Shut({}, {}) = {}
  BY DEF Shut
<1>9. Kept'
  <2>1. \A g \in Fds : /\ file'[g] = IF g \in Shut({}, {}) THEN "none" ELSE file[g]
                       /\ input'[g] = "none" \/ (input'[g] = input[g] /\ g \notin Shut({}, {}))
    BY <1>1, <1>8
  <2>2. at' \in Nat /\ at <= at'
    BY <1>1
  <2> QED
    BY <1>1, <1>3, <1>5, <1>7, <2>1, <2>2, Staying
<1>10. LoopOK'
  BY <1>1 DEF LoopOK
<1>11. Stages'
  BY <1>1, OutsideRounds DEF Stages, Multipoll
<1> QED
  BY <1>9, <1>10, <1>11, SoundIs

-----------------------------------------------------------------------------
(* The invariant holds.                                                     *)

LEMMA SoundInit == Init => Sound
<1> SUFFICES ASSUME Init
             PROVE  Sound
  OBVIOUS
<1> DEFINE r == [path |-> "", fd |-> None, typed |-> FALSE,
                 releasetime |-> None, opentime |-> None, reawake |-> None, zerokill |-> FALSE]
<1>1. Unused \in Client /\ Unused.fd = None /\ Unused.active = None
  BY AgesAre DEF Unused, Client
<1>2. r \in Device /\ r.fd = None
  BY AgesAre DEF Device
<1>3. sub = [s \in Slots |-> Unused] /\ dev = [d \in Devices |-> r]
  BY DEF Init
<1> HIDE DEF r
<1>4. sub \in [Slots -> Client] /\ dev \in [Devices -> Device]
  BY <1>1, <1>2, <1>3
<1>5. \A s \in Slots : sub[s].fd = None /\ sub[s].active = None
  BY <1>1, <1>3
<1>6. \A d \in Devices : dev[d].fd = None
  BY <1>2, <1>3
<1>7. /\ file = [f \in Fds |-> "none"] /\ input = [f \in Fds |-> "none"] /\ all_fds = {}
      /\ rfds = {} /\ cfd = None /\ start \in Starts /\ pc = "boot" /\ at = 1 /\ fragments = 0
      /\ todo = {} /\ highwater = FALSE /\ signalled = "none" /\ plugged \subseteq Paths /\ signals = 0
  BY DEF Init
<1>8. PoolOK
  BY <1>4, <1>7 DEF PoolOK, Whats, Reports
<1>9. LoopOK
  <2>1. at \in 1 .. 1 + ReleasePlace(MaxDevices) /\ fragments \in {0, 1}
        /\ signals \in 0 .. MaxSignals
    BY <1>7, PlacesAre, Times DEF ReleasePlace
  <2> QED
    BY <1>7, <2>1 DEF LoopOK, Stops
<1>10. None \notin Fds
  BY Counts DEF Fds, None
<1>11. Owners
  BY <1>5, <1>6, <1>7, <1>10, PathsAreNames DEF Owners, Active
<1>12. Waits
  BY <1>5, <1>6 DEF Waits
<1>13. Stages
  BY <1>7 DEF Stages, Multipoll
<1> QED
  BY <1>8, <1>9, <1>11, <1>12, <1>13, TypeParts DEF Sound

LEMMA SoundNext == Sound /\ [Next]_vars => Sound'
<1> SUFFICES ASSUME Sound, [Next]_vars
             PROVE  Sound'
  OBVIOUS
<1>1. ASSUME Gpsd
      PROVE  Sound'
  <2>1. ASSUME Boot \/ Top \/ Restart \/ Await \/ AwaitBad \/ ControlEnd
        PROVE  Sound'
    BY <2>1, BootKeeps, TopKeeps, RestartKeeps, AwaitKeeps, AwaitBadKeeps, ControlEndKeeps
  <2>2. ASSUME NEW d \in Devices, \/ Reawake(d) \/ PollPacket(d) \/ PollNoise(d) \/ PollZero(d)
                                  \/ PollGone(d) \/ Release(d) \/ Retry(d)
        PROVE  Sound'
    BY <2>2, ReawakeKeeps, PollPacketKeeps, PollNoiseKeeps, PollZeroKeeps, PollGoneKeeps,
       ReleaseKeeps, RetryKeeps
  <2>3. ASSUME NEW s \in Slots, Hear(s) \/ Dismiss(s)
        PROVE  Sound'
    BY <2>3, HearKeeps, DismissKeeps
  <2>4. ASSUME AwakenNext \/ EndOfRound
        PROVE  Sound'
    BY <2>4, AwakenNextKeeps, EndOfRoundKeeps
  <2> QED
    BY <1>1, <2>1, <2>2, <2>3, <2>4, Zenon DEF Gpsd
<1>2. ASSUME ControlClient
      PROVE  Sound'
  BY <1>2, ConnectControlKeeps, ControlAddKeeps, ControlRemoveKeeps DEF ControlClient
<1>3. ASSUME UNCHANGED vars
      PROVE  Sound'
  <2>1. UNCHANGED <<start, pc, at, fragments, todo, sub, dev, rfds, all_fds, file, input, cfd, highwater,
                    signalled, plugged, signals>>
    BY <1>3 DEF vars, loop, pool, fds
  <2>2. at' \in Nat /\ at <= at'
    <3>1. at \in 1 .. 1 + ReleasePlace(MaxDevices)
      BY PoolIs DEF LoopOK
    <3> QED
      BY <2>1, <3>1
  <2>3. Kept'
    BY <2>1, <2>2, Quiet
  <2>4. LoopOK'
    BY <2>1, PoolIs DEF LoopOK
  <2>5. Stages'
    BY <2>1 DEF Sound, Stages, Multipoll, Allocated, IsOpen
  <2> QED
    BY <2>3, <2>4, <2>5, SoundIs
<1> QED
  BY <1>1, <1>2, <1>3, ConnectKeeps, OutsideKeeps, SignalKeeps, TickKeeps, Zenon DEF Next

\* Every variable keeps to its type, whatever clients, devices and signals do.
THEOREM TypeCorrect == Spec => []TypeOK
<1>1. Sound => TypeOK
  BY DEF Sound
<1> QED
  BY <1>1, SoundInit, SoundNext, PTL DEF Spec

\* Everybody gpsd has to wait for is in the set of descriptors it waits for.
THEOREM NobodyIsForgotten == Spec => []NobodyForgotten
<1>1. Sound => NobodyForgotten
  BY DEF Sound, Owners, Waits, NobodyForgotten, IsOpen
<1> QED
  BY <1>1, SoundInit, SoundNext, PTL DEF Spec

\* A client is read only when it has something to say, although descriptors are
\* closed and used again between select and the client's turn.
THEOREM ReadsTheirOwn == Spec => []ReadsOwnInput
<1>1. Sound => ReadsOwnInput
  BY DEF Sound, Owners, Waits, ReadsOwnInput
<1> QED
  BY <1>1, SoundInit, SoundNext, PTL DEF Spec

LEMMA AtMostOne ==
  ASSUME NEW T, NEW S \in SUBSET T, \A x, y \in S : x = y
  PROVE  Cardinality(S) = IF S = {} THEN 0 ELSE 1
<1>1. CASE S = {}
  BY <1>1, FS_EmptySet
<1>2. ASSUME NEW x \in S
      PROVE  Cardinality(S) = 1
  <2>1. S = {x}
    BY <1>2
  <2> QED
    BY <2>1, FS_Singleton
<1> QED
  BY <1>1, <1>2

\* Every open descriptor has exactly one owner, which has it as what it is.
THEOREM OneOwnerEach == Spec => []OneOwner
<1>1. Sound => OneOwner
  <2> SUFFICES ASSUME Sound, NEW f \in Fds
               PROVE  LET clients == {s \in Slots : sub[s].fd = f}
                          devices == {d \in Devices : dev[d].fd = f}
                      IN  /\ Cardinality(clients) = IF file[f] = "client" THEN 1 ELSE 0
                          /\ Cardinality(devices) = IF file[f] \in Paths THEN 1 ELSE 0
                          /\ (cfd = f) <=> (file[f] = "control")
                          /\ \A s \in clients : Active(s)
                          /\ \A d \in devices : dev[d].path = file[f]
    BY DEF OneOwner
  <2> DEFINE C == {s \in Slots : sub[s].fd = f}
             D == {d \in Devices : dev[d].fd = f}
  <2>1. Owners /\ f # None
    BY PoolIs, Fields
  <2>2. Cardinality(C) = IF file[f] = "client" THEN 1 ELSE 0
    <3>1. C \in SUBSET Slots /\ \A x, y \in C : x = y
      BY <2>1 DEF Owners
    <3>2. C # {} <=> file[f] = "client"
      BY <2>1 DEF Owners
    <3> HIDE DEF C
    <3>3. Cardinality(C) = IF C = {} THEN 0 ELSE 1
      BY <3>1, AtMostOne
    <3> QED
      BY <3>2, <3>3
  <2>3. Cardinality(D) = IF file[f] \in Paths THEN 1 ELSE 0
    <3>1. D \in SUBSET Devices /\ \A x, y \in D : x = y
      BY <2>1 DEF Owners
    <3>2. D # {} <=> file[f] \in Paths
      BY <2>1 DEF Owners
    <3> HIDE DEF D
    <3>3. Cardinality(D) = IF D = {} THEN 0 ELSE 1
      BY <3>1, AtMostOne
    <3> QED
      BY <3>2, <3>3
  <2>4. (cfd = f) <=> (file[f] = "control")
    BY <2>1 DEF Owners
  <2>5. \A s \in C : Active(s)
    BY <2>1 DEF Owners
  <2>6. \A d \in D : dev[d].path = file[f]
    BY <2>1 DEF Owners
  <2> QED
    BY <2>2, <2>3, <2>4, <2>5, <2>6
<1> QED
  BY <1>1, SoundInit, SoundNext, PTL DEF Spec
=============================================================================
