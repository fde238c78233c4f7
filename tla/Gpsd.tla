-------------------------------- MODULE Gpsd --------------------------------
(***************************************************************************)
(* The main loop of gpsd (gpsd.c, libgpsd_core.c, serial.c): the clients,   *)
(* the pool of devices and the descriptors they share.  One action per      *)
(* stage and index of the loop; clients, devices, the control client and    *)
(* signals act between any two.                                             *)
(***************************************************************************)
EXTENDS Integers, Sequences, FiniteSets, FiniteSetsExt

CONSTANTS
  MaxClients,      \* MAX_CLIENTS
  MaxDevices,      \* MAX_DEVICES
  Paths,           \* names of devices
  Starts,          \* how gpsd may be started: its devices, and the option -n
  CommandTimeout, ReleaseTimeout, Reconnect,   \* in ticks
  MaxFd,           \* descriptors beside those gpsd listens on
  Requests,        \* what clients ask for
  Reads,           \* what reads of a device bring
  Signals,         \* the signals that come
  MaxSignals       \* bound on how many of them come

ASSUME Counts == {MaxClients, MaxDevices, MaxFd} \subseteq Nat \ {0}
ASSUME Times == {CommandTimeout, ReleaseTimeout, Reconnect, MaxSignals} \subseteq Nat
ASSUME Inputs ==
  /\ Requests \subseteq {"watch", "unwatch", "query"}
  /\ Reads \subseteq {"packet", "noise", "zero", "gone"} /\ Signals \subseteq {"hup", "term"}
\* There is a descriptor for everybody at once, and one more; no device has the
\* name of something else.
ASSUME DescriptorsSuffice == MaxFd > MaxClients + MaxDevices
ASSUME PathsAreNames == Paths \cap {"", "none", "client", "control"} = {}
ASSUME StartsAreOptions == \A o \in Starts :
         o.argv \in {<<>>} \cup {<<p>> : p \in Paths} /\ o.nowait \in BOOLEAN

VARIABLES
  start,           \* how gpsd was started
  pc, at,          \* stage of the loop, and index in it
  fragments,       \* gpsd_multipoll: 1 after a packet in this turn; more is the same
  todo,            \* slots of devices that handle_request has yet to awaken
  sub,             \* subscribers
  dev,             \* devices
  rfds, all_fds,   \* the fd_sets of main
  cfd,             \* the control connection
  highwater, signalled,
  file, input,     \* kernel: what a descriptor is open to, and what it has to read
  plugged,         \* environment: the devices that are there
  signals          \* history: how many signals have come

loop  == <<pc, at, fragments, todo>>
pool  == <<sub, dev>>
fds   == <<all_fds, file, input>>
vars  == <<start, loop, pool, rfds, fds, cfd, highwater, signalled, plugged, signals>>

Slots   == 1 .. MaxClients
Devices == 1 .. MaxDevices
Fds     == 1 .. MaxFd
None    == -1                   \* no descriptor, or a time_t of 0

\* A time_t is known by its age, as far as the timeouts tell ages apart.
Old == 1 + Max({CommandTimeout, ReleaseTimeout, Reconnect})
Older(t) == IF t = None \/ t = Old THEN t ELSE t + 1

Unused == [fd |-> None, active |-> None, watcher |-> FALSE, devpath |-> ""]

Active(s)        == sub[s].active # None
Subscribed(s, d) == Active(s) /\ sub[s].watcher /\ sub[s].devpath \in {"", dev[d].path}
Allocated(d)     == dev[d].path # ""
IsOpen(d)        == dev[d].fd # None
Needed(d)        == start.nowait \/ \E s \in Slots : Subscribed(s, d)
LowestFree       == Min({f \in Fds : file[f] = "none"})

\* find_device
Named(p) == {d \in Devices : dev[d].path = p}
Find(p)  == IF Named(p) = {} THEN {} ELSE {Min(Named(p))}

\* What select finds: something to read, or the end of the other side.
Ready(f) == input[f] \notin {"none", "stalled"}

Init ==
  /\ start \in Starts
  /\ pc = "boot" /\ at = 1 /\ fragments = 0 /\ todo = {}
  /\ sub = [s \in Slots |-> Unused]
  /\ dev = [d \in Devices |->
              [path |-> "", fd |-> None, typed |-> FALSE, releasetime |-> None,
               opentime |-> None, reawake |-> None, zerokill |-> FALSE]]
  /\ rfds = {} /\ all_fds = {} /\ cfd = None
  /\ highwater = FALSE /\ signalled = "none"
  /\ file = [f \in Fds |-> "none"] /\ input = [f \in Fds |-> "none"]
  /\ plugged \in SUBSET Paths
  /\ signals = 0

-----------------------------------------------------------------------------
(* Descriptors, clients and devices.                                        *)

\* The kernel closes the descriptors of closed and opens f, if it is one.
Kernel(closed, f, what) ==
  /\ file' = [g \in Fds |-> IF g \in closed THEN "none" ELSE IF g = f THEN what ELSE file[g]]
  /\ input' = [g \in Fds |-> IF g \in closed \cup {f} THEN "none" ELSE input[g]]

FdsOf(gone) == {sub[s].fd : s \in gone}

\* detach_client, for each client of gone.
Detached(gone) == [s \in Slots |-> IF s \in gone THEN Unused ELSE sub[s]]

Detach(gone) ==
  /\ sub' = Detached(gone) /\ all_fds' = all_fds \ FdsOf(gone)
  /\ Kernel(FdsOf(gone), None, "none")

\* throttled_write detaches a client that has left, or one that does not read
\* and of whose buffer a part is free; when nothing is free it drops the text.
Watchers(p) == {s \in Slots : Active(s) /\ sub[s].watcher /\ sub[s].devpath \in {"", p}}
Failing(p)  == {s \in Watchers(p) : input[sub[s].fd] \in {"end", "stalled"}}

\* gpsd_serial_open: a terminal that someone has open cannot be opened again.  (That
\* tcgetattr fails on an open terminal, whose descriptor is then lost, is left out.)
CanOpen(p) == p \in plugged /\ \A f \in Fds : file[f] # p

\* gpsd_activate with gpsd_clear.
Activated(device, f) ==
  [device EXCEPT !.fd = f, !.typed = FALSE, !.releasetime = None, !.opentime = 0]

\* Mutant: the device that was opened is not waited for.
AwakenUnheard(d, device) ==
  IF ~IsOpen(d) /\ CanOpen(device.path)
  THEN /\ dev' = [dev EXCEPT ![d] = Activated(device, LowestFree)]
       /\ Kernel({}, LowestFree, device.path) /\ UNCHANGED all_fds
  ELSE /\ dev' = [dev EXCEPT ![d] = device]
       /\ UNCHANGED fds

\* awaken
Awaken(d, device) ==
  IF ~IsOpen(d) /\ CanOpen(device.path)
  THEN /\ dev' = [dev EXCEPT ![d] = Activated(device, LowestFree)]
       /\ all_fds' = all_fds \cup {LowestFree}
       /\ Kernel({}, LowestFree, device.path)
  ELSE /\ dev' = [dev EXCEPT ![d] = device]
       /\ UNCHANGED fds

\* Mutant: the descriptor is closed and kept.
DeactivateKeepsFd(d, device) ==
  \E gone \in SUBSET Failing(dev[d].path) :
    /\ sub' = Detached(gone)
    /\ dev' = [dev EXCEPT ![d] = device]
    /\ all_fds' = all_fds \ (FdsOf(gone) \cup {dev[d].fd})
    /\ Kernel(FdsOf(gone) \cup {dev[d].fd}, None, "none")

\* deactivate_device: the watchers are told, then the device is closed.
Deactivate(d, device) ==
  \E gone \in SUBSET Failing(dev[d].path) :
    /\ sub' = Detached(gone)
    /\ dev' = [dev EXCEPT ![d] = [device EXCEPT !.fd = None]]
    /\ all_fds' = all_fds \ (FdsOf(gone) \cup {dev[d].fd})
    /\ Kernel(FdsOf(gone) \cup {dev[d].fd}, None, "none")

\* gpsd_add_device; highwater counts in open_device, which only -n reaches.
AddDevice(p) ==
  LET free   == {d \in Devices : ~Allocated(d)}
      d      == Min(free)
      init   == [dev[d] EXCEPT !.path = p, !.fd = None, !.typed = FALSE,
                               !.reawake = None, !.zerokill = FALSE]
      opens  == start.nowait /\ CanOpen(p)
  IN  IF free = {} THEN UNCHANGED <<pool, fds, highwater>>
      ELSE \E gone \in SUBSET Failing(p) :
        /\ dev' = [dev EXCEPT ![d] = IF opens THEN Activated(init, LowestFree) ELSE init]
        /\ sub' = Detached(gone)
        /\ all_fds' = (all_fds \cup IF opens THEN {LowestFree} ELSE {}) \ FdsOf(gone)
        /\ Kernel(FdsOf(gone), IF opens THEN LowestFree ELSE None, p)
        /\ highwater' = (highwater \/ opens)

-----------------------------------------------------------------------------
(* The loop.                                                                *)

Go(stage) == pc' = stage /\ at' = 1

\* The devices of the command line, at the start and again after SIGHUP.
Boot ==
  /\ pc = "boot" /\ Go("top")
  /\ IF start.argv = <<>> THEN UNCHANGED <<pool, fds, highwater>> ELSE AddDevice(start.argv[1])
  /\ UNCHANGED <<start, fragments, todo, rfds, cfd, signalled, plugged, signals>>

\* while (0 == signalled), and what follows.  gpsd_terminate closes the devices,
\* and leaves all_fds and the pool as they are; only the end detaches clients.
Top ==
  /\ pc = "top"
  /\ \/ signalled = "none" /\ Go("select") /\ UNCHANGED <<pool, fds>>
     \/ /\ signalled = "hup" /\ Go("restart")
        /\ dev' = [d \in Devices |-> [dev[d] EXCEPT !.fd = None]]
        /\ Kernel({dev[d].fd : d \in Devices}, None, "none")
        /\ UNCHANGED <<sub, all_fds>>
     \/ /\ signalled = "term" /\ Go("done")
        /\ sub' = Detached(Slots)
        /\ dev' = [d \in Devices |-> [dev[d] EXCEPT !.fd = None]]
        /\ all_fds' = all_fds \ FdsOf(Slots)
        /\ Kernel(Fds, None, "none")
  /\ UNCHANGED <<start, fragments, todo, rfds, cfd, highwater, signalled, plugged, signals>>

\* signalled = 0, whatever has come since the loop was left.
Restart ==
  /\ pc = "restart" /\ Go("boot")
  /\ signalled' = "none"
  /\ UNCHANGED <<start, fragments, todo, pool, rfds, fds, cfd, highwater, plugged, signals>>

Closed == {f \in all_fds : file[f] = "none"}

\* allocate_client, and the registration of the client.  Without a free slot, or
\* if the announcement cannot be written, the connection is closed again.  (That
\* setsockopt fails on it, which takes the slot for ever, is left out.)
Accept(f) ==
  LET free == {s \in Slots : sub[s].fd = None} IN
  \/ UNCHANGED <<sub, fds>>
  \/ /\ free # {}
     /\ sub' = [sub EXCEPT ![Min(free)] = [Unused EXCEPT !.fd = f, !.active = 0]]
     /\ all_fds' = all_fds \cup {f}
     /\ Kernel({}, f, "client")

ReadyFds == {f \in all_fds : Ready(f)}

\* gpsd_await_data with input.
Await ==
  /\ pc = "select" /\ Closed = {} /\ ReadyFds # {}
  /\ rfds' = ReadyFds /\ Go("round")
  /\ UNCHANGED <<start, fragments, todo, pool, fds, cfd, highwater, signalled, plugged, signals>>

\* Mutant: the tests look at all_fds instead of rfds.
ConnectEverything ==
  /\ pc = "select" /\ Closed = {}
  /\ rfds' = all_fds /\ Go("round")
  /\ Accept(LowestFree)
  /\ UNCHANGED <<start, fragments, todo, dev, cfd, highwater, signalled, plugged, signals>>

\* It returns for a client that connects, with other input or without.
Connect ==
  /\ pc = "select" /\ Closed = {}
  /\ rfds' = ReadyFds /\ Go("round")
  /\ Accept(LowestFree)
  /\ UNCHANGED <<start, fragments, todo, dev, cfd, highwater, signalled, plugged, signals>>

\* Or for a control connection, which is read until its end, while everything
\* else waits.
ConnectControl ==
  /\ pc = "select" /\ Closed = {}
  /\ rfds' = ReadyFds /\ Go("control")
  /\ cfd' = LowestFree
  /\ all_fds' = all_fds \cup {LowestFree} /\ Kernel({}, LowestFree, "control")
  /\ UNCHANGED <<start, fragments, todo, pool, highwater, signalled, plugged, signals>>

\* gpsd_await_data: EBADF; what is closed is no longer waited for.  Devices that are
\* closed are looked for as well: FD_ISSET of -1 is what some other bit, the same
\* for all of them, happens to say, and if it is set they are freed.
AwaitBad ==
  /\ pc = "select" /\ Closed # {} /\ Go("top")
  /\ \E bad \in {{}, {d \in Devices : Allocated(d) /\ ~IsOpen(d)}} :
     \E gone \in SUBSET UNION {Failing(dev[d].path) : d \in bad} :
       /\ sub' = Detached(gone)
       /\ dev' = [d \in Devices |->
                    IF d \in bad \/ dev[d].fd \in Closed
                    THEN [dev[d] EXCEPT !.path = "", !.fd = None] ELSE dev[d]]
       /\ all_fds' = all_fds \ (Closed \cup FdsOf(gone))
       /\ Kernel(FdsOf(gone), None, "none")
  /\ UNCHANGED <<start, fragments, todo, rfds, cfd, highwater, signalled, plugged, signals>>

\* handle_control: +path
ControlAdd(p) ==
  /\ pc = "control"
  /\ Find(p) = {} /\ AddDevice(p)
  /\ UNCHANGED <<start, loop, rfds, cfd, signalled, plugged, signals>>

\* handle_control: -path
ControlRemove(p) ==
  /\ pc = "control"
  /\ \E d \in Find(p) : Deactivate(d, [dev[d] EXCEPT !.path = ""])
  /\ UNCHANGED <<start, loop, rfds, cfd, highwater, signalled, plugged, signals>>

ControlEnd ==
  /\ pc = "control"
  /\ Go("round") /\ cfd' = None
  /\ all_fds' = all_fds \ {cfd} /\ Kernel({cfd}, None, "none")
  /\ UNCHANGED <<start, fragments, todo, pool, rfds, highwater, signalled, plugged, signals>>

-----------------------------------------------------------------------------
(* A round polls each device, then hears each client, then releases or      *)
(* reopens each device.  at is the next place; places without work change   *)
(* nothing.                                                                 *)

\* Mutant: a device that was put aside is looked at only when it has input.
HasInputOnly(d) == Allocated(d) /\ IsOpen(d) /\ dev[d].fd \in rfds

HasInput(d) ==
  Allocated(d) /\ IsOpen(d) /\ (dev[d].fd \in rfds \/ dev[d].reawake = 0)

\* A client that says nothing is detached after COMMAND_TIMEOUT, unless it watches.
TimedOut(s)   == ~sub[s].watcher /\ sub[s].active > CommandTimeout
HasRequest(s) == Active(s) /\ (sub[s].fd \in rfds \/ TimedOut(s))

Released(d) == Allocated(d) /\ ~Needed(d) /\ IsOpen(d) /\ dev[d].typed
                 /\ (dev[d].releasetime = None \/ dev[d].releasetime > ReleaseTimeout)
Missed(d)   == Allocated(d) /\ Needed(d) /\ ~IsOpen(d)
                 /\ (dev[d].opentime = None \/ dev[d].opentime > Reconnect)

PollPlace(d)    == d
HearPlace(s)    == MaxDevices + s
ReleasePlace(d) == MaxDevices + MaxClients + d

HasWork(k) ==
  \/ \E d \in Devices : k = PollPlace(d) /\ HasInput(d)
  \/ \E s \in Slots : k = HearPlace(s) /\ HasRequest(s)
  \/ \E d \in Devices : k = ReleasePlace(d) /\ (Released(d) \/ Missed(d))

Turn(k) ==
  /\ pc = "round" /\ at <= k /\ HasWork(k)
  /\ \A j \in at .. k - 1 : ~HasWork(j)

Done(k) == at' = k + 1 /\ pc' = pc

-----------------------------------------------------------------------------
(* The devices: gpsd_multipoll, one gpsd_poll at a time.                    *)

Polled(d) == Turn(PollPlace(d)) /\ dev[d].fd \in rfds

\* Without input a device that was put aside is waited for again.
Reawake(d) ==
  /\ Turn(PollPlace(d)) /\ dev[d].fd \notin rfds
  /\ dev' = [dev EXCEPT ![d] = [@ EXCEPT !.reawake = None, !.zerokill = TRUE]]
  /\ all_fds' = all_fds \cup {dev[d].fd}
  /\ Done(PollPlace(d))
  /\ UNCHANGED <<start, fragments, todo, sub, rfds, file, input, cfd, highwater,
                 signalled, plugged, signals>>

\* A packet, which all_reports sends to the watchers; then the next one is read,
\* for as long as there is one.
PollPacket(d) ==
  LET f == dev[d].fd IN
  /\ Polled(d) /\ input[f] = "packet"
  /\ dev' = [dev EXCEPT ![d] = [@ EXCEPT !.typed = TRUE, !.zerokill = FALSE, !.reawake = None]]
  /\ at' = PollPlace(d) /\ fragments' = 1
  /\ \E gone \in SUBSET Failing(dev[d].path) :
       /\ sub' = Detached(gone) /\ all_fds' = all_fds \ FdsOf(gone)
       /\ file'  = [g \in Fds |-> IF g \in FdsOf(gone) THEN "none" ELSE file[g]]
       /\ input' = [g \in Fds |-> IF g \in FdsOf(gone) \cup {f} THEN "none" ELSE input[g]]
  /\ UNCHANGED <<start, pc, todo, rfds, cfd, highwater, signalled, plugged, signals>>

\* Noise, with which the lexer loses its type.
PollNoise(d) ==
  LET f == dev[d].fd IN
  /\ Polled(d) /\ input[f] = "noise"
  /\ dev' = [dev EXCEPT ![d] = [@ EXCEPT !.typed = FALSE, !.zerokill = FALSE, !.reawake = None]]
  /\ input' = [input EXCEPT ![f] = "none"]
  /\ Done(PollPlace(d)) /\ fragments' = 0
  /\ UNCHANGED <<start, todo, sub, rfds, file, all_fds, cfd, highwater, signalled, plugged, signals>>

\* No bytes.  After packets it ends the turn.  Else the device is put aside, until
\* a time that a float holds to within a minute; if it had been put aside
\* already, gpsd_deactivate closes it and leaves it in all_fds.
PollZero(d) ==
  LET f == dev[d].fd IN
  /\ Polled(d) /\ input[f] \in {"none", "zero"}
  /\ \/ /\ fragments > 0
        /\ input' = [input EXCEPT ![f] = "none"] /\ UNCHANGED <<dev, all_fds, file>>
     \/ /\ fragments = 0 /\ dev[d].zerokill
        /\ dev' = [dev EXCEPT ![d].fd = None]
        /\ Kernel({f}, None, "none") /\ UNCHANGED all_fds
     \/ /\ fragments = 0 /\ ~dev[d].zerokill
        /\ \E later \in {0, 1} : dev' = [dev EXCEPT ![d].reawake = later]
        /\ all_fds' = all_fds \ {f}
        /\ input' = [input EXCEPT ![f] = "none"] /\ UNCHANGED file
  /\ Done(PollPlace(d)) /\ fragments' = 0
  /\ UNCHANGED <<start, todo, sub, rfds, cfd, highwater, signalled, plugged, signals>>

\* DEVICE_ERROR and DEVICE_EOF
PollGone(d) ==
  /\ Polled(d) /\ input[dev[d].fd] = "gone"
  /\ Deactivate(d, dev[d])
  /\ Done(PollPlace(d)) /\ fragments' = 0
  /\ UNCHANGED <<start, todo, rfds, cfd, highwater, signalled, plugged, signals>>

-----------------------------------------------------------------------------
(* The clients: their requests and the devices these awaken.                *)

Visited(s) == Turn(HearPlace(s))

\* Mutant: recv without a byte is passed over.
HearEndIgnored(s) ==
  /\ Visited(s) /\ sub[s].fd \in rfds
  /\ Done(HearPlace(s))
  /\ UNCHANGED <<start, fragments, todo, pool, rfds, fds, cfd, highwater, signalled, plugged, signals>>

\* recv without a byte, or with an error, ends the session.  Else it is
\* handle_gpsd_request: ?WATCH of all devices or of one, ?WATCH with enable
\* false; ?DEVICE with a path and the requests that change nothing are a query.  The
\* devices it awakens are left in todo.
Hear(s) ==
  LET f == sub[s].fd
      Keep(policy) == [sub EXCEPT ![s] = [policy EXCEPT !.active = 0]]
  IN
  /\ Visited(s) /\ f \in rfds
  /\ \/ /\ input[f] \notin Requests /\ Detach({s})
        /\ Done(HearPlace(s)) /\ UNCHANGED todo
     \/ /\ input[f] \in Requests
        /\ input' = [input EXCEPT ![f] = "none"]
        /\ \/ \E p \in Paths \cup {""} :
                /\ input[f] = "watch"
                /\ sub' = Keep([sub[s] EXCEPT !.watcher = TRUE, !.devpath = p])
                /\ todo' = IF p = "" THEN {d \in Devices : Allocated(d)} ELSE Find(p)
           \/ /\ input[f] = "unwatch"
              /\ sub' = Keep([sub[s] EXCEPT !.watcher = FALSE, !.devpath = ""])
              /\ todo' = {}
           \/ /\ input[f] = "query" /\ sub' = Keep(sub[s])
              /\ todo' \in {{}} \cup {Find(p) : p \in Paths}
        /\ at' = HearPlace(s) + 1 /\ pc' = IF todo' = {} THEN pc ELSE "awaken"
        /\ UNCHANGED <<file, all_fds>>
  /\ UNCHANGED <<start, fragments, dev, rfds, cfd, highwater, signalled, plugged, signals>>

AwakenNext ==
  LET d == Min(todo) IN
  /\ pc = "awaken"
  /\ Awaken(d, dev[d])
  /\ todo' = todo \ {d}
  /\ pc' = IF todo' = {} THEN "round" ELSE pc
  /\ UNCHANGED <<start, at, fragments, sub, rfds, cfd, highwater, signalled, plugged, signals>>

Dismiss(s) ==
  /\ Visited(s) /\ sub[s].fd \notin rfds
  /\ Detach({s}) /\ Done(HearPlace(s))
  /\ UNCHANGED <<start, fragments, todo, dev, rfds, cfd, highwater, signalled, plugged, signals>>

-----------------------------------------------------------------------------
(* Release of the devices nobody needs, and reopening of those needed.      *)

Release(d) ==
  /\ Turn(ReleasePlace(d)) /\ Released(d)
  /\ IF dev[d].releasetime = None
     THEN dev' = [dev EXCEPT ![d].releasetime = 0] /\ UNCHANGED <<sub, fds>>
     ELSE Deactivate(d, dev[d])
  /\ Done(ReleasePlace(d))
  /\ UNCHANGED <<start, fragments, todo, rfds, cfd, highwater, signalled, plugged, signals>>

\* Mutant: a device that could not be opened is left to the next ?WATCH.
RetryNever(d) ==
  /\ Turn(ReleasePlace(d)) /\ Missed(d)
  /\ dev' = [dev EXCEPT ![d].opentime = 0]
  /\ Done(ReleasePlace(d))
  /\ UNCHANGED <<start, fragments, todo, sub, fds, rfds, cfd, highwater, signalled, plugged, signals>>

Retry(d) ==
  /\ Turn(ReleasePlace(d)) /\ Missed(d)
  /\ Awaken(d, [dev[d] EXCEPT !.opentime = 0])
  /\ Done(ReleasePlace(d))
  /\ UNCHANGED <<start, fragments, todo, sub, rfds, cfd, highwater, signalled, plugged, signals>>

\* Mutant: the next turn does not look at signalled.
EndOfRoundStraight ==
  /\ pc = "round" /\ \A k \in at .. ReleasePlace(MaxDevices) : ~HasWork(k)
  /\ Go("select") /\ rfds' = {}
  /\ UNCHANGED <<start, fragments, todo, pool, fds, cfd, highwater, signalled, plugged, signals>>

\* The graceful shutdown of a gpsd started without devices.
EndOfRound ==
  /\ pc = "round" /\ \A k \in at .. ReleasePlace(MaxDevices) : ~HasWork(k)
  /\ Go(IF /\ start.argv = <<>> /\ highwater
           /\ \A s \in Slots : ~Active(s)
           /\ \A d \in Devices : ~Allocated(d)
        THEN "done" ELSE "top")
  /\ rfds' = {}
  /\ UNCHANGED <<start, fragments, todo, pool, fds, cfd, highwater, signalled, plugged, signals>>

-----------------------------------------------------------------------------
(* Clients, devices, the control client, signals and time.                  *)

\* What comes during a round and is not read in it may as well come after it.
Waiting == pc = "select"

\* A client makes a request, or stops to read and to write.
Request(f) ==
  /\ Waiting /\ file[f] = "client" /\ input[f] = "none"
  /\ \E x \in Requests \cup {"stalled"} : input' = [input EXCEPT ![f] = x]
  /\ UNCHANGED <<file, plugged>>

HangUp(f) ==
  /\ Waiting /\ file[f] = "client" /\ input[f] \in {"none", "stalled"}
  /\ input' = [input EXCEPT ![f] = "end"]
  /\ UNCHANGED <<file, plugged>>

\* A device has data, bytes of none, the end its driver knows, or noise with which the
\* hunt for its speed has failed; one that is not there has no data.  While it is
\* being polled it may always have the next packet ready.
Report(f) ==
  /\ (Waiting \/ (fragments = 1 /\ dev[at].fd = f))
  /\ file[f] \in Paths /\ input[f] = "none"
  /\ \E x \in Reads \cap IF file[f] \in plugged THEN Reads ELSE {"zero", "gone"} :
       input' = [input EXCEPT ![f] = x]
  /\ UNCHANGED <<file, plugged>>

Plug(p) ==
  /\ Waiting
  /\ plugged' = IF p \in plugged THEN plugged \ {p} ELSE plugged \cup {p}
  /\ UNCHANGED <<file, input>>

Outside ==
  /\ \/ \E f \in Fds : Request(f) \/ HangUp(f) \/ Report(f)
     \/ \E p \in Paths : Plug(p)
  /\ UNCHANGED <<start, loop, pool, rfds, all_fds, cfd, highwater, signalled, signals>>

\* onsig, installed once the devices have been opened for the first time.  It may
\* run between any two steps and forgets an earlier signal.  A signal interrupts
\* pselect, or comes just before it and does not; it also ends the read of a control
\* connection, which ControlEnd has.
Signal ==
  /\ pc # "done" /\ (pc = "boot" => signals > 0) /\ signals < MaxSignals
  /\ signalled' \in Signals /\ signals' = signals + 1
  /\ \/ UNCHANGED pc
     \/ pc = "select" /\ pc' = "top"
  /\ UNCHANGED <<start, at, fragments, todo, pool, rfds, fds, cfd, highwater, plugged>>

\* Time passes while gpsd waits: a round is short against a tick.  How long a
\* watcher has been silent is never asked.
Tick ==
  /\ pc \in {"select", "control"}
  /\ sub' = [s \in Slots |-> IF sub[s].watcher THEN sub[s] ELSE [sub[s] EXCEPT !.active = Older(@)]]
  /\ dev' = [d \in Devices |->
               [dev[d] EXCEPT !.releasetime = Older(@), !.opentime = Older(@),
                              !.reawake = IF @ > 0 THEN @ - 1 ELSE @]]
  /\ UNCHANGED <<start, loop, rfds, fds, cfd, highwater, signalled, plugged, signals>>

-----------------------------------------------------------------------------
Gpsd ==
  \/ Boot \/ Top \/ Restart \/ Await \/ AwaitBad \/ ControlEnd
  \/ \E d \in Devices : \/ Reawake(d) \/ PollPacket(d) \/ PollNoise(d) \/ PollZero(d)
                        \/ PollGone(d) \/ Release(d) \/ Retry(d)
  \/ \E s \in Slots : Hear(s) \/ Dismiss(s)
  \/ AwakenNext \/ EndOfRound

ControlClient == ConnectControl \/ \E p \in Paths : ControlAdd(p) \/ ControlRemove(p)

Next == Gpsd \/ Connect \/ ControlClient \/ Outside \/ Signal \/ Tick

Spec == Init /\ [][Next]_vars

\* gpsd runs, time passes, a control client ends its connection, and now and
\* then a client connects, without which pselect need not return.
FairSpec ==
  /\ Spec
  /\ WF_vars(Gpsd)
  /\ SF_vars(Tick)
  /\ SF_vars(Connect)

-----------------------------------------------------------------------------
Ages == None .. Old

TypeOK ==
  /\ start \in Starts
  /\ pc \in {"boot", "top", "restart", "select", "control", "round", "awaken", "done"}
  /\ at \in 1 .. 1 + ReleasePlace(MaxDevices) /\ fragments \in {0, 1}
  /\ todo \subseteq Devices
  /\ sub \in [Slots -> [fd : Fds \cup {None}, active : Ages, watcher : BOOLEAN,
                       devpath : Paths \cup {""}]]
  /\ dev \in [Devices -> [path : Paths \cup {""}, fd : Fds \cup {None}, typed : BOOLEAN,
                         releasetime : Ages, opentime : Ages, reawake : {None, 0, 1},
                         zerokill : BOOLEAN]]
  /\ rfds \subseteq Fds /\ all_fds \subseteq Fds
  /\ cfd \in Fds \cup {None} /\ highwater \in BOOLEAN
  /\ signalled \in {"none", "hup", "term"}
  /\ file \in [Fds -> {"none", "client", "control"} \cup Paths]
  /\ input \in [Fds -> {"none", "stalled", "end", "packet", "noise", "zero", "gone"} \cup Requests]
  /\ plugged \subseteq Paths
  /\ signals \in 0 .. MaxSignals

\* Every open descriptor has one owner, which has it as what it is, and no
\* owner has a closed one: nothing leaks, nothing is closed twice and nobody
\* reads another's bytes after a number has been used again.
OneOwner ==
  \A f \in Fds :
    LET clients == {s \in Slots : sub[s].fd = f}
        devices == {d \in Devices : dev[d].fd = f}
    IN  /\ Cardinality(clients) = IF file[f] = "client" THEN 1 ELSE 0
        /\ Cardinality(devices) = IF file[f] \in Paths THEN 1 ELSE 0
        /\ (cfd = f) <=> (file[f] = "control")
        /\ \A s \in clients : Active(s)
        /\ \A d \in devices : dev[d].path = file[f]

\* When gpsd waits, it waits for every client and every open device, unless a
\* zero read has put that aside: nobody is forgotten.
NobodyForgotten ==
  pc = "select" =>
    /\ \A s \in Slots : Active(s) => sub[s].fd \in all_fds
    /\ \A d \in Devices : IsOpen(d) /\ dev[d].reawake = None => dev[d].fd \in all_fds

\* recv is called for a client that has something to say: EAGAIN would end its
\* session.
ReadsOwnInput ==
  pc = "round" => \A s \in Slots :
    at <= HearPlace(s) /\ Active(s) /\ sub[s].fd \in rfds => Ready(sub[s].fd)

\* The loop of gpsd_multipoll has no other end than a read without a packet
\* (libgpsd_core.c:1575): a device that always has the next one ready holds gpsd
\* for ever.  What follows is promised as long as every turn ends.
TurnsEnd == []<>(fragments = 0)

\* What a client asks for is read, and a client that has left is detached, also
\* beside another client, a device that comes and goes, and a restart.
ClientsAreHeard ==
  TurnsEnd =>
    \A s \in Slots :
      (Active(s) /\ Ready(sub[s].fd)) ~> ~(Active(s) /\ Ready(sub[s].fd))

\* A device that is needed and there is opened, as long as rounds take place and end.
NeededIsOpened ==
  LET Wanted(d) == Allocated(d) /\ Needed(d) /\ ~IsOpen(d) /\ CanOpen(dev[d].path)
  IN  TurnsEnd => \A d \in Devices : Wanted(d) ~> (~Wanted(d) \/ pc = "done")

\* A device put aside after a zero read is waited for again, or closed.
PutAsideComesBack ==
  LET Aside(d) == IsOpen(d) /\ dev[d].reawake # None
  IN  TurnsEnd => \A d \in Devices : Aside(d) ~> ~Aside(d)

\* A signal leads to a restart or to the end, also one that pselect has missed; and
\* SIGTERM to the end, except when a SIGHUP overwrites it (onsig) or when it comes
\* while a restart is under way (signalled = 0): these are lost.
SignalIsHeeded ==
  TurnsEnd =>
    /\ (signalled # "none") ~> (pc \in {"restart", "done"})
    /\ (signalled = "term" /\ pc # "restart") ~> (pc = "done" \/ signalled = "hup")
=============================================================================
