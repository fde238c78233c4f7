------------------------------- MODULE Center -------------------------------
(***************************************************************************)
(* centralServer: the configuration server between the SNMP agent and      *)
(* ihaApp (center.c, cfg.c, msgformat.c, pack.c).  Each channel is a Unix  *)
(* stream socket served by a thread of its own (socketManager), which      *)
(* queues the commands it receives in llistRx and sends what it finds in   *)
(* llistTx; the main thread takes the commands of the channels in turn and *)
(* queues the answers.  The two lists are those of LinkedList, one         *)
(* operation being one step as Deque allows; the front is index 1.         *)
(***************************************************************************)
EXTENDS Integers, Sequences, SequencesExt

CONSTANTS
  Channels,   \* NOOFSOCKETS sockets, served in the order of NextChannel
  NextChannel,\* NextChannel[c]: the channel main looks at after c
  First,      \* the channel main looks at first
  Cfg,        \* the configurations
  InitCfg,    \* the one ../configFile/config.json holds
  None,       \* a null pointer, an absent file or an absent configuration
  Torn,       \* a file that has been truncated and not been written yet
  Kinds,      \* Kinds[c]: the commands the client of c sends
  MaxSent,    \* MaxSent[c]: bound on the commands sent on c
  MaxConn,    \* MaxConn[c]: bound on the connections of c
  Window,     \* answers a client lets be outstanding (1 in test/client*.c)
  Pipelined,  \* may a client send while an earlier command is unread?
  Closes,     \* may a client close its connection?
  SockBuf     \* answers that fit into the send buffer of a socket

ASSUME ConfigurationsDiffer == InitCfg \in Cfg /\ None \notin Cfg /\ Torn \notin Cfg /\ None # Torn
ASSUME RoundRobin == First \in Channels /\ NextChannel \in [Channels -> Channels]
ASSUME CommandsSent == Kinds \in [Channels -> SUBSET {"REQ", "MDFY", "DBG"}]
ASSUME Bounds == /\ MaxSent \in [Channels -> Nat] /\ MaxConn \in [Channels -> Nat]
                 /\ Window \in Nat \ {0} /\ SockBuf \in Nat \ {0}
                 /\ Pipelined \in BOOLEAN /\ Closes \in BOOLEAN

VARIABLES
  alive,   \* the server process runs
  rx, tx,  \* llistRx and llistTx of every channel
  mpc,     \* where the socketManager of a channel is
  in, out, \* its locals pack2Recv and pack2Send
  se,      \* the connection it has accepted last
  status,  \* socketStatus
  cpc, turn, hand,  \* main: where it is, its channel, its local pack2Parse
  cfg,     \* G_jsonCfg
  disk,    \* ./config.json
  ce, open,         \* the client's connection and whether it holds it open
  c2s, s2c, reset,  \* c2s[c][e], s2c[c]: bytes in flight; a pending ECONNRESET
  sent, due,        \* commands a client has sent; those whose answer it awaits
  applied, handled  \* history: configurations applied; last command handled

server  == <<rx, tx, mpc, in, out, se, status, cpc, turn, hand, cfg, applied, handled>>
manager == <<mpc, in, out, se, status>>
main    == <<cpc, turn, hand, cfg, disk, applied, handled>>
client  == <<ce, open, sent, due>>
wire    == <<c2s, s2c, reset>>
vars    == <<alive, server, disk, client, wire>>

Answerable == {"REQ", "DBG"}

\* A packet_s: its DAC, the configuration it carries, and, as history, the
\* number of the command it is or answers, the number of configurations that
\* had been applied when the command was sent and when it was answered.
Packet(n, dac, c, asOf, ver) == [n |-> n, dac |-> dac, cfg |-> c, asOf |-> asOf, ver |-> ver]

Packets == [n : Nat, dac : {"REQ", "MDFY", "DBG", "RES"}, cfg : Cfg \union {None},
            asOf : Nat, ver : Nat]

ASSUME NullIsNoPacket == None \notin Packets

Back(l)       == IF l = <<>> THEN None ELSE Last(l)
RemoveBack(l) == IF l = <<>> THEN l ELSE Front(l)
\* Mutant: queued at the end the packets are taken from.
PushBehind(l, p) == Append(l, p)
PushFront(l, p) == <<p>> \o l

Each(v) == [c \in Channels |-> v]
NoBytes == [c \in Channels |-> [e \in 1 .. MaxConn[c] |-> <<>>]]

\* main: prepCfgStruct and genConfigForThreads.
Init ==
  /\ alive = TRUE
  /\ rx = Each(<<>>) /\ tx = Each(<<>>)
  /\ mpc = Each("accept") /\ in = Each(None) /\ out = Each(None)
  /\ se = Each(0) /\ status = Each("WAITING")
  /\ cpc = "back" /\ turn = First /\ hand = None
  /\ cfg = InitCfg /\ disk = None
  /\ ce = Each(0) /\ open = Each(FALSE)
  /\ c2s = NoBytes /\ s2c = Each(<<>>) /\ reset = Each(FALSE)
  /\ sent = Each(0) /\ due = Each(<<>>)
  /\ applied = <<InitCfg>> /\ handled = Each(0)

-----------------------------------------------------------------------------
(* The clients: the SNMP agent and ihaApp, as test/client*.c use the        *)
(* protocol.                                                                *)

Connect(c) ==
  /\ alive /\ ~open[c] /\ ce[c] < MaxConn[c]
  /\ ce' = [ce EXCEPT ![c] = @ + 1]
  /\ open' = [open EXCEPT ![c] = TRUE]
  /\ UNCHANGED <<alive, server, disk, wire, sent, due>>

\* The client holds a connection that a running server has or will accept.
Connected(c) == alive /\ open[c]

Send(c) ==
  /\ Connected(c)
  /\ sent[c] < MaxSent[c]
  /\ Len(due[c]) < Window
  /\ Pipelined \/ c2s[c][ce[c]] = <<>>
  /\ \E k \in Kinds[c], v \in Cfg \union {None} :
       /\ k = "MDFY" <=> v # None
       /\ c2s' = [c2s EXCEPT ![c][ce[c]] =
                    Append(@, Packet(sent[c] + 1, k, v, Len(applied), 0))]
       /\ due' = [due EXCEPT ![c] = IF k \in Answerable THEN Append(@, sent[c] + 1) ELSE @]
  /\ sent' = [sent EXCEPT ![c] = @ + 1]
  /\ UNCHANGED <<alive, server, disk, ce, open, s2c, reset>>

\* A client that waits takes one answer, as the answer to the oldest command it
\* waits for: nothing in an answer says which command it belongs to.
Receive(c) ==
  /\ open[c] /\ due[c] # <<>> /\ s2c[c] # <<>>
  /\ due' = [due EXCEPT ![c] = Tail(@)]
  /\ s2c' = [s2c EXCEPT ![c] = Tail(@)]
  /\ UNCHANGED <<alive, server, disk, ce, open, sent, c2s, reset>>

\* The client closes, or exits; unread answers make the peer's next recv fail.
Close(c) ==
  /\ open[c]
  /\ Closes \/ ~alive
  /\ open' = [open EXCEPT ![c] = FALSE]
  /\ due' = [due EXCEPT ![c] = <<>>]
  /\ reset' = [reset EXCEPT ![c] = @ \/ s2c[c] # <<>>]
  /\ s2c' = [s2c EXCEPT ![c] = <<>>]
  /\ UNCHANGED <<alive, server, disk, ce, sent, c2s>>

-----------------------------------------------------------------------------
(* socketManager.                                                           *)

\* The connection the manager holds has lost its client.
PeerClosed(c) == se[c] < ce[c] \/ ~open[c]

At(c, l)   == alive /\ mpc[c] = l
Goto(c, l) == mpc' = [mpc EXCEPT ![c] = l]

Accept(c) ==
  /\ At(c, "accept")
  /\ se[c] < ce[c]
  /\ se' = [se EXCEPT ![c] = @ + 1]
  /\ status' = [status EXCEPT ![c] = "ESTABLISHED"]
  /\ Goto(c, "recv")
  /\ UNCHANGED <<alive, rx, tx, in, out, main, client, wire>>

\* One recv returns everything that has arrived and only the first command in
\* it is parsed.  (It returns maxPayloadSize = 500 bytes at most: that more has arrived
\* from a client that does not wait, so that the next recv begins inside a command, is
\* left out.)
RecvData(c) ==
  LET q == c2s[c][se[c]]
  IN /\ At(c, "recv")
     /\ q # <<>>
     /\ in' = [in EXCEPT ![c] = Head(q)]
     /\ c2s' = [c2s EXCEPT ![c][se[c]] = <<>>]
     /\ Goto(c, "push")
     /\ UNCHANGED <<alive, rx, tx, out, se, status, main, client, s2c, reset>>

\* recv returns -1: EAGAIN on the open connection, ECONNRESET once after a
\* close.  Either way the manager goes on to look for something to send.
RecvNothing(c) ==
  /\ At(c, "recv")
  /\ c2s[c][se[c]] = <<>>
  /\ ~PeerClosed(c) \/ reset[c]
  /\ reset' = [reset EXCEPT ![c] = FALSE]
  /\ Goto(c, "peek")
  /\ UNCHANGED <<alive, rx, tx, in, out, se, status, main, client, c2s, s2c>>

\* Mutant: no break when recv returns 0.
RecvClosedGoesOn(c) ==
  /\ At(c, "recv")
  /\ c2s[c][se[c]] = <<>>
  /\ PeerClosed(c) /\ ~reset[c]
  /\ Goto(c, "peek")
  /\ UNCHANGED <<alive, rx, tx, in, out, se, status, main, client, wire>>

\* recv returns 0: back to accept; socketStatus is left as it is.
RecvClosed(c) ==
  /\ At(c, "recv")
  /\ c2s[c][se[c]] = <<>>
  /\ PeerClosed(c) /\ ~reset[c]
  /\ Goto(c, "accept")
  /\ UNCHANGED <<alive, rx, tx, in, out, se, status, main, client, wire>>

Push(c) ==
  /\ At(c, "push")
  /\ rx' = [rx EXCEPT ![c] = PushFront(@, in[c])]
  /\ in' = [in EXCEPT ![c] = None]
  /\ Goto(c, "peek")
  /\ UNCHANGED <<alive, tx, out, se, status, main, client, wire>>

Peek(c) ==
  /\ At(c, "peek")
  /\ out' = [out EXCEPT ![c] = Back(tx[c])]
  /\ Goto(c, "check")
  /\ UNCHANGED <<alive, rx, tx, in, se, status, main, client, wire>>

Check(c) ==
  /\ At(c, "check")
  /\ Goto(c, IF out[c] = None \/ tx[c] = <<>> THEN "recv" ELSE "send")
  /\ UNCHANGED <<alive, rx, tx, in, out, se, status, main, client, wire>>

SendOut(c) ==
  /\ At(c, "send")
  /\ ~PeerClosed(c) /\ Len(s2c[c]) < SockBuf
  /\ s2c' = [s2c EXCEPT ![c] = Append(@, out[c])]
  /\ Goto(c, "remove")
  /\ UNCHANGED <<alive, rx, tx, in, out, se, status, main, client, c2s, reset>>

\* sendall fails with EAGAIN: the packet stays in the list.
SendFull(c) ==
  /\ At(c, "send")
  /\ ~PeerClosed(c) /\ Len(s2c[c]) >= SockBuf
  /\ Goto(c, "recv")
  /\ UNCHANGED <<alive, rx, tx, in, out, se, status, main, client, wire>>

\* Mutant: the packet stays in the list.
KeepSent(c) ==
  /\ At(c, "remove")
  /\ out' = [out EXCEPT ![c] = None]
  /\ Goto(c, "recv")
  /\ UNCHANGED <<alive, rx, tx, in, se, status, main, client, wire>>

RemoveSent(c) ==
  /\ At(c, "remove")
  /\ tx' = [tx EXCEPT ![c] = RemoveBack(@)]
  /\ out' = [out EXCEPT ![c] = None]
  /\ Goto(c, "recv")
  /\ UNCHANGED <<alive, rx, in, se, status, main, client, wire>>

\* send on a connection whose peer is gone raises SIGPIPE, which nothing
\* handles: the process ends, in whatever its other threads were doing.
SendBroken(c) ==
  /\ At(c, "send")
  /\ PeerClosed(c)
  /\ alive' = FALSE
  /\ UNCHANGED <<server, disk, client, wire>>

Manager(c) ==
  \/ Accept(c) \/ RecvData(c) \/ RecvNothing(c) \/ RecvClosed(c) \/ Push(c)
  \/ Peek(c) \/ Check(c) \/ SendOut(c) \/ SendFull(c) \/ RemoveSent(c)
  \/ SendBroken(c)

-----------------------------------------------------------------------------
(* main and the two handlers socketApp_f and socketSnmp_f.                  *)

AtMain(l) == alive /\ cpc = l

MainBack ==
  /\ AtMain("back")
  /\ hand' = Back(rx[turn])
  /\ cpc' = "check"
  /\ UNCHANGED <<alive, rx, tx, manager, turn, cfg, disk, applied, handled, client, wire>>

\* Mutant: main stays with its channel.
SameTurn ==
  /\ turn' = turn
  /\ hand' = None
  /\ cpc' = "back"

NextTurn ==
  /\ turn' = NextChannel[turn]
  /\ hand' = None
  /\ cpc' = "back"

MainSkip ==
  /\ AtMain("check")
  /\ hand = None \/ rx[turn] = <<>>
  /\ NextTurn
  /\ UNCHANGED <<alive, rx, tx, manager, cfg, disk, applied, handled, client, wire>>

\* The command to handle, once back and is_empty have both found one.  Its kind is one of
\* those a client sends; one of another kind would be removed without an answer.
Handling(dac) ==
  /\ AtMain("check")
  /\ hand # None /\ rx[turn] # <<>>
  /\ hand.dac = dac

Done(l) ==
  /\ cpc' = l
  /\ handled' = [handled EXCEPT ![turn] = hand.n]

\* Mutant: the answer is taken from the parsed file.
HandleReqFromFile ==
  /\ Handling("REQ")
  /\ tx' = [tx EXCEPT ![turn] =
              PushFront(@, Packet(hand.n, "RES", InitCfg, hand.asOf, Len(applied)))]
  /\ Done("remove")
  /\ UNCHANGED <<alive, rx, manager, turn, hand, cfg, disk, applied, client, wire>>

\* getCfg copies G_jsonCfg, genCfg_Res wraps the copy.
HandleReq ==
  /\ Handling("REQ")
  /\ tx' = [tx EXCEPT ![turn] =
              PushFront(@, Packet(hand.n, "RES", cfg, hand.asOf, Len(applied)))]
  /\ Done("remove")
  /\ UNCHANGED <<alive, rx, manager, turn, hand, cfg, disk, applied, client, wire>>

\* genSys_Dbg sends the text of the command back.
HandleDbg ==
  /\ Handling("DBG")
  /\ tx' = [tx EXCEPT ![turn] =
              PushFront(@, Packet(hand.n, "DBG", None, hand.asOf, Len(applied)))]
  /\ Done("remove")
  /\ UNCHANGED <<alive, rx, manager, turn, hand, cfg, disk, applied, client, wire>>

\* mdfCfg: G_jsonCfg takes the new values, then ./config.json is rewritten.
HandleMdfy ==
  /\ Handling("MDFY")
  /\ cfg' = hand.cfg
  /\ applied' = Append(applied, hand.cfg)
  /\ Done("fopen")
  /\ UNCHANGED <<alive, rx, tx, manager, turn, hand, disk, client, wire>>

\* fopen(..., "w") truncates the file ...
MdfyOpen ==
  /\ AtMain("fopen")
  /\ disk' = Torn
  /\ cpc' = "fclose"
  /\ UNCHANGED <<alive, rx, tx, manager, turn, hand, cfg, applied, handled, client, wire>>

\* ... and fprintf and fclose write `root', the configuration that was parsed
\* when the server started.
MdfyWrite ==
  /\ AtMain("fclose")
  /\ disk' = InitCfg
  /\ cpc' = "remove"
  /\ UNCHANGED <<alive, rx, tx, manager, turn, hand, cfg, applied, handled, client, wire>>

\* Mutant: the handler's branch has removed the packet already.
RemoveTwice ==
  /\ AtMain("remove")
  /\ rx' = [rx EXCEPT ![turn] = RemoveBack(RemoveBack(@))]
  /\ NextTurn
  /\ UNCHANGED <<alive, tx, manager, cfg, disk, applied, handled, client, wire>>

RemoveHandled ==
  /\ AtMain("remove")
  /\ rx' = [rx EXCEPT ![turn] = RemoveBack(@)]
  /\ NextTurn
  /\ UNCHANGED <<alive, tx, manager, cfg, disk, applied, handled, client, wire>>

Main == MainBack \/ MainSkip \/ HandleReq \/ HandleDbg \/ HandleMdfy
        \/ MdfyOpen \/ MdfyWrite \/ RemoveHandled

-----------------------------------------------------------------------------
\* The server is started again, with the configuration file it always reads,
\* once the clients have noticed that it ended.
Restart ==
  /\ ~alive
  /\ \A c \in Channels : ~open[c]
  /\ alive' = TRUE
  /\ rx' = Each(<<>>) /\ tx' = Each(<<>>)
  /\ mpc' = Each("accept") /\ in' = Each(None) /\ out' = Each(None)
  /\ se' = ce /\ status' = Each("WAITING")
  /\ cpc' = "back" /\ turn' = First /\ hand' = None
  /\ cfg' = InitCfg /\ applied' = <<InitCfg>>
  /\ c2s' = NoBytes /\ reset' = Each(FALSE)
  /\ UNCHANGED <<disk, client, s2c, handled>>

Client(c) == Connect(c) \/ Send(c) \/ Receive(c) \/ Close(c)

Next == \/ \E c \in Channels : Client(c) \/ Manager(c)
        \/ Main
        \/ Restart

Spec == Init /\ [][Next]_vars

\* The threads keep running; a client that waits for an answer reads it when it
\* arrives.  Nothing obliges a client to send or to close.
FairSpec ==
  /\ Spec
  /\ WF_vars(Main)
  /\ \A c \in Channels : WF_vars(Manager(c)) /\ WF_vars(Receive(c))

-----------------------------------------------------------------------------
(* Properties.                                                             *)

\* The variables keep to their domains.
TypeOK ==
  /\ alive \in BOOLEAN
  /\ rx \in [Channels -> Seq(Packets)]
  /\ tx \in [Channels -> Seq(Packets)]
  /\ mpc \in [Channels -> {"accept", "recv", "push", "peek", "check", "send", "remove"}]
  /\ in \in [Channels -> Packets \union {None}]
  /\ out \in [Channels -> Packets \union {None}]
  /\ se \in [Channels -> Nat]
  /\ ce \in [Channels -> Nat]
  /\ status \in [Channels -> {"WAITING", "ESTABLISHED", "LOST"}]
  /\ cpc \in {"back", "check", "fopen", "fclose", "remove"}
  /\ turn \in Channels
  /\ hand \in Packets \union {None}
  /\ cfg \in Cfg
  /\ disk \in Cfg \union {None, Torn}
  /\ open \in [Channels -> BOOLEAN]
  /\ DOMAIN c2s = Channels
  /\ \A c \in Channels : c2s[c] \in [1 .. MaxConn[c] -> Seq(Packets)]
  /\ s2c \in [Channels -> Seq(Packets)]
  /\ reset \in [Channels -> BOOLEAN]
  /\ sent \in [Channels -> Nat]
  /\ due \in [Channels -> Seq(Nat)]
  /\ applied \in Seq(Cfg)
  /\ handled \in [Channels -> Nat]

\* Both sides read the back of a list, work on the packet outside the lock and
\* then remove and free whatever is at the back: it is still the packet they
\* worked on, however many the other side has added meanwhile.
NoDanglingPacket ==
  /\ \A c \in Channels : mpc[c] \in {"check", "send", "remove"} /\ out[c] # None =>
       tx[c] # <<>> /\ Last(tx[c]) = out[c]
  /\ cpc # "back" /\ hand # None => rx[turn] # <<>> /\ Last(rx[turn]) = hand

Ids(s) == [k \in 1 .. Len(s) |-> s[k].n]

\* The answers on their way to the client, oldest first; the packet the manager
\* has sent and not yet removed is counted once.
Answers(c) ==
  s2c[c] \o Reverse(IF mpc[c] = "remove" THEN Front(tx[c]) ELSE tx[c])

\* Main has handled the command at the back of c and not yet removed it.
Handled(c) == turn = c /\ cpc \in {"fopen", "fclose", "remove"}

\* The commands the server has received and not handled, oldest first.
Received(c) ==
  Reverse(IF Handled(c) THEN Front(rx[c]) ELSE rx[c]) \o (IF in[c] = None THEN <<>> ELSE <<in[c]>>)

\* The commands on their way to main from the connection made last.
Commands(c) == Received(c) \o c2s[c][ce[c]]

\* The channel is on its first connection and nothing has gone wrong on it.
Undisturbed(c) == alive /\ open[c] /\ ce[c] = 1

Numbers(ps) == { ps[k].n : k \in DOMAIN ps }
Asking(ps)  == { ps[k].n : k \in { j \in DOMAIN ps : ps[j].dac \in Answerable } }

\* On an undisturbed channel the commands whose answers the client awaits are
\* those that are answered and those that are still on their way to be handled,
\* and the answer it reads next is the one to the oldest of them.
OneAnswerEach ==
  \A c \in Channels : Undisturbed(c) =>
    /\ Numbers(Answers(c)) \union Asking(Commands(c)) = { due[c][k] : k \in 1 .. Len(due[c]) }
    /\ s2c[c] # <<>> => s2c[c][1].n = due[c][1]

\* No command gets lost between a client and main, and none is handled twice.
NoCommandLost ==
  \A c \in Channels : Undisturbed(c) =>
    Ids(Commands(c)) = [k \in 1 .. sent[c] - handled[c] |-> handled[c] + k]

\* What the server holds of a channel, as 0, and what is under way to it on each
\* connection.
Held(c, e) == IF e = 0 THEN Answers(c) \o Received(c) ELSE c2s[c][e]

\* Whatever connections were closed and reopened and however often the server
\* was restarted, commands are handled and answers sent in the order in which
\* the commands were sent, and none twice.
InOrder ==
  \A c \in Channels : \A e, f \in 0 .. MaxConn[c] :
    \A j \in 1 .. Len(Held(c, e)), k \in 1 .. Len(Held(c, f)) :
      e < f \/ (e = f /\ j < k) => Held(c, e)[j].n < Held(c, f)[k].n

\* An answer shows the configuration as it was at one instant between its
\* request and its sending: it holds what every earlier modification of either
\* client has set, and successive answers never go back.
AnswersAreFresh ==
  \A c \in Channels :
    LET a == Answers(c)
    IN \A k \in 1 .. Len(a) :
         /\ a[k].asOf <= a[k].ver /\ a[k].ver <= Len(applied)
         /\ a[k].dac = "RES" => a[k].cfg = applied[a[k].ver]
         /\ k > 1 => a[k - 1].ver <= a[k].ver

\* A client that waits on an open connection is answered: main serves the
\* channels in turn and a send that would block is tried again.
Answered ==
  \A c \in Channels :
    (Connected(c) /\ due[c] # <<>>) ~> (due[c] = <<>> \/ ~Connected(c))

\* A new connection is accepted although the manager may still be busy with the
\* one before, unless the server ends.
NewConnectionAccepted ==
  \A c \in Channels :
    (Connected(c) /\ se[c] < ce[c]) ~> (se[c] = ce[c] \/ ~Connected(c))
=============================================================================
