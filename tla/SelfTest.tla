-------------------------------- MODULE SelfTest -------------------------------
(***************************************************************************)
(* rigOsc::smokeLoopback: ten checks, the legs, each of which can end the  *)
(* self-test early, run on the SUDE thread against the live endpoint of    *)
(* the caller while the socket thread performs what they queue.            *)
(*                                                                         *)
(* A configuration is named by who asks for it: the caller, the bind the   *)
(* test begins with, the same once sendPort is the port it got, a TCP leg  *)
(* by its framing, what such a leg leaves behind, or the multicast leg.    *)
(* A message is the leg that sent it.  With tcpPort 0 the TCP listener has *)
(* the number of the UDP port, so that what is sent to it arrives by one   *)
(* or the other.  cmds is one queue (CommandQueue), of which the first     *)
(* batch are being performed.  Both ends of every socket are in one        *)
(* process: what a turn sends it drains, and a dialer sees its connection  *)
(* closed in the drain of the turn that closed it.                         *)
(***************************************************************************)
EXTENDS Integers, Sequences, SequencesExt, SeqFilter

CONSTANTS
    MaxTries,       \* bound: updates a leg waits for, 4, 20 or 40 in the code
    MaxTimeouts     \* bound: applies given up on after two seconds

ASSUME BoundAssumption == MaxTries \in Nat \ {0} /\ MaxTimeouts \in Nat

Legs == <<"directed", "broadcast", "other", "codec", "size", "slip", "timed",
          "wildcard", "garbage", "mcast">>
BusLegs == {"directed", "broadcast", "other"}
TcpLegs == {"size", "slip"}
Configs == {"caller", "bind", "udp", "size", "slip", "off", "mcast"}
Message == [leg : Range(Legs), via : {"udp", "size", "slip"}]
Nothing == [leg |-> "none"]
Requests == [kind : {"apply"}, cfg : Configs, token : Nat] \cup [kind : {"connect"}]
            \cup [kind : {"send"}, leg : Range(Legs), udpOnly : BOOLEAN]

\* What restore puts back.
Saved == {"listenEnabled", "sendEnabled", "listenPort", "sendPort", "sendHost",
          "bindAddress", "tcpListen", "tcpConnect", "tcpPort", "streamFraming",
          "multicastGroup", "multicastTtl"}
Fields == Saved \cup {"addressPrefix"}

VARIABLES
    pc, after,      \* where the test is; where it goes on after an apply
    at,             \* the leg it is in, an index into Legs
    tries, slept,   \* the leg's loop counter; the timed leg has slept 200 ms
    changed,        \* fields of the PODs that differ from the caller's
    cfg, liveCfg,   \* the PODs; applyEndpoint's cache, "none" if it is not valid
    ok,             \* the last apply's answer
    listeners,      \* the test's rows of m_listeners
    got,            \* the last message the leg's callback took
    ignored,        \* m_ignoredPackets has grown in this leg
    due, ripe,      \* the timed message is held in m_due; its time has come
    token, answer,  \* nextToken; what doneToken and doneOk say of it
    cmds, inbound,  \* Net::cmds and Net::inbound
    net,            \* Net::netCfg
    batch,          \* commands swapped out of cmds and not yet performed
    listen, dialed, \* there is a TCP listener; the test's connection to it
    dgrams, stream, \* messages in the UDP socket and in the connection
    passed,         \* history: legs passed, and by which message
    timeouts

test == <<pc, after, at, tries, slept>>
pods == <<changed, cfg, liveCfg, ok>>
heard == <<listeners, got, ignored, due, ripe, passed>>
queue == <<token, answer, cmds>>
socks == <<net, batch, listen, dialed, dgrams, stream>>
vars == <<test, pods, heard, queue, inbound, socks, timeouts>>

leg == Legs[at]
ListenerOf(l) == IF l \in BusLegs THEN "bus" ELSE IF l \in TcpLegs THEN "tcp" ELSE l
Hears(row, m) == row = ListenerOf(m.leg)

\* The applies that are queued.
Asked == {k \in DOMAIN cmds : cmds[k].kind = "apply"}

\* Types; the test never has two callbacks registered, and asks one thing at a time.
TypeOK ==
    /\ pc \in {"idle", "asking", "setup", "enter", "bound", "listen", "send", "update",
               "sweep", "check", "leave", "verdict", "done"}
    /\ after \in {"setup", "bound", "sweep", "verdict", "done"}
    /\ at \in 1 .. Len(Legs)
    /\ tries \in 0 .. MaxTries + 1 /\ slept \in BOOLEAN
    /\ changed \subseteq Fields
    /\ cfg \in Configs /\ liveCfg \in Configs \cup {"none"} /\ ok \in BOOLEAN
    /\ \E row \in {ListenerOf(l) : l \in Range(Legs)} : listeners \subseteq {row}
    /\ got \in Message \cup {Nothing}
    /\ {ignored, due, ripe, listen, dialed} \subseteq BOOLEAN
    /\ token \in Nat /\ answer \in {"none", "ok", "failed"}
    /\ cmds \in Seq(Requests) /\ \A k \in Asked : cmds[k].token <= token
    /\ inbound \in Seq(Message)
    /\ net \in Configs /\ batch \in 0 .. Len(cmds)
    /\ dgrams \in Seq(Range(Legs)) /\ stream \in Seq(Range(Legs))
    /\ passed \subseteq [leg : Range(Legs), by : Message \cup {Nothing}]
    /\ timeouts \in 0 .. MaxTimeouts

Init ==
    /\ pc = "idle" /\ after = "setup" /\ at = 1 /\ tries = 0 /\ slept = FALSE
    /\ changed = {} /\ cfg = "caller" /\ liveCfg = "caller" /\ ok = TRUE
    /\ listeners = {} /\ got = Nothing /\ ignored = FALSE
    /\ due = FALSE /\ ripe = FALSE /\ passed = {}
    /\ token = 0 /\ answer = "none" /\ cmds = <<>> /\ inbound = <<>>
    /\ net = "caller" /\ batch = 0 /\ listen = FALSE /\ dialed = FALSE /\ dgrams = <<>> /\ stream = <<>>
    /\ timeouts = 0

-------------------------------------------------------------------------------
(* applyEndpoint.                                                          *)

Ask(c, then) ==
    /\ cfg' = c
    /\ token' = token + 1
    /\ answer' = "none"
    /\ cmds' = Append(cmds, [kind |-> "apply", cfg |-> c, token |-> token + 1])
    /\ pc' = "asking"
    /\ after' = then

Answered ==
    /\ pc = "asking"
    /\ answer # "none"
    /\ pc' = after
    /\ ok' = (answer = "ok")
    /\ liveCfg' = cfg
    /\ UNCHANGED <<after, at, tries, slept, changed, cfg, heard, queue, inbound, socks, timeouts>>

TimedOut ==
    /\ pc = "asking"
    /\ answer = "none"
    /\ timeouts < MaxTimeouts
    /\ timeouts' = timeouts + 1
    /\ pc' = after
    /\ ok' = FALSE
    /\ liveCfg' = "none"
    /\ UNCHANGED <<after, at, tries, slept, changed, cfg, heard, queue, inbound, socks>>

-------------------------------------------------------------------------------
(* The way out.                                                            *)

\* Mutant of Restore: the snapshot has no multicastTtl.
RestoreMost ==
    /\ changed' = changed \ (Saved \ {"multicastTtl"})
    /\ Ask("caller", "done")

Restore ==
    /\ changed' = changed \ Saved
    /\ Ask("caller", "done")

-------------------------------------------------------------------------------
(* The test, on the SUDE thread.                                           *)

Begin ==
    /\ pc = "idle"
    /\ changed' = Saved \ {"sendPort"}
    /\ Ask("bind", "setup")
    /\ UNCHANGED <<at, tries, slept, liveCfg, ok, heard, inbound, socks, timeouts>>

\* sendPort becomes the port that was bound, unless it is that already, with no
\* apply of its own: the next update asks.  An address prefix that is empty is
\* filled in; the shape of the bus addresses then is what it should be (Codec).
Setup ==
    /\ pc = "setup"
    /\ \/ /\ ok
          /\ \E prefix \in {{}, {"addressPrefix"}} :
                changed' = changed \cup {"sendPort"} \cup prefix
          /\ cfg' \in {cfg, "udp"}
          /\ pc' = "enter"
          /\ UNCHANGED <<after, queue>>
       \/ ~ok /\ Restore
    /\ UNCHANGED <<at, tries, slept, liveCfg, ok, heard, inbound, socks, timeouts>>

\* Mutant of Fresh: hits is not set back between two legs.
FreshTries ==
    /\ tries' = 0 /\ slept' = FALSE
    /\ UNCHANGED <<got, ignored>>

Fresh ==
    /\ tries' = 0 /\ slept' = FALSE
    /\ got' = Nothing /\ ignored' = FALSE

Enter ==
    /\ pc = "enter"
    /\ leg # "codec"
    /\ Fresh
    /\ IF leg \in TcpLegs \cup {"mcast"} THEN Ask(leg, "bound")
       ELSE pc' = "listen" /\ UNCHANGED <<after, cfg, queue>>
    /\ UNCHANGED <<at, changed, liveCfg, ok, listeners, due, ripe, passed, inbound, socks,
                   timeouts>>

\* The legs between the bus and TCP are local: matchAddress and round trips.
CodecLeg ==
    /\ pc = "enter"
    /\ leg = "codec"
    /\ \/ /\ at' = at + 1
          /\ UNCHANGED <<pc, after, changed, cfg, queue>>
       \/ Restore /\ UNCHANGED at
    /\ UNCHANGED <<tries, slept, liveCfg, ok, heard, inbound, socks, timeouts>>

Bound ==
    /\ pc = "bound"
    /\ \/ /\ ok
          /\ pc' = "listen"
          /\ cmds' = IF leg \in TcpLegs THEN Append(cmds, [kind |-> "connect"]) ELSE cmds
          /\ UNCHANGED <<after, changed, cfg, token, answer>>
       \/ ~ok /\ Restore
    /\ UNCHANGED <<at, tries, slept, liveCfg, ok, heard, inbound, socks, timeouts>>

Listen ==
    /\ pc = "listen"
    /\ listeners' = IF leg = "garbage" THEN listeners ELSE listeners \cup {ListenerOf(leg)}
    /\ pc' = "send"
    /\ UNCHANGED <<after, at, tries, slept, pods, got, ignored, due, ripe, passed, queue,
                   inbound, socks, timeouts>>

\* Mutant of Unlisten: only the bus listener is removed.
UnlistenBus(last) ==
    listeners' = IF last /\ leg \in BusLegs THEN listeners \ {ListenerOf(leg)} ELSE listeners

\* removeListener, unless the next leg has the same one.
Unlisten(last) == listeners' = IF last THEN listeners \ {ListenerOf(leg)} ELSE listeners

\* sendDatagram, or sendTo in the legs that let the peer decide.
Send ==
    /\ pc = "send"
    /\ cmds' = Append(cmds, [kind |-> "send", leg |-> leg,
                             udpOnly |-> leg \notin TcpLegs \cup {"wildcard", "mcast"}])
    /\ pc' = "update"
    /\ UNCHANGED <<after, at, tries, slept, pods, heard, token, answer, inbound, socks,
                   timeouts>>

\* Encoding or sending failed; the TCP legs do not look.
SendFails ==
    /\ pc = "send"
    /\ leg \notin TcpLegs
    /\ Unlisten(TRUE)
    /\ Restore
    /\ UNCHANGED <<at, tries, slept, liveCfg, ok, got, ignored, due, ripe, passed, inbound,
                   socks, timeouts>>

\* update: applyEndpoint answers from its cache or asks, then the sweep.
UpdateAsks ==
    /\ pc = "update"
    /\ cfg # liveCfg
    /\ Ask(cfg, "sweep")
    /\ UNCHANGED <<at, tries, slept, changed, liveCfg, ok, heard, inbound, socks, timeouts>>

\* flushDue and offer: what the callback takes, the last of it.
Offered ==
    LET now == Filter(inbound, {m \in Range(inbound) : m.leg # "timed" \/ ripe})
    IN (IF due /\ ripe THEN <<[leg |-> "timed", via |-> "udp"]>> ELSE <<>>) \o now
Sweep ==
    /\ pc = "sweep" \/ (pc = "update" /\ cfg = liveCfg)
    /\ LET mine == Filter(Offered, {m \in Message : \E row \in listeners : Hears(row, m)})
       IN got' = IF mine = <<>> THEN got ELSE mine[Len(mine)]
    /\ due' = (~ripe /\ (due \/ \E k \in DOMAIN inbound : inbound[k].leg = "timed"))
    /\ inbound' = <<>>
    /\ tries' = tries + 1
    /\ pc' = "check"
    /\ UNCHANGED <<after, at, slept, pods, listeners, ignored, ripe, passed, queue, socks,
                   timeouts>>

\* What the leg looks for.
Heard ==
    CASE leg \in BusLegs -> got.leg = leg
      [] leg = "garbage" -> ignored
      [] leg = "timed" -> slept /\ got # Nothing
      [] OTHER -> got # Nothing
Early == leg = "timed" /\ ~slept /\ got # Nothing

Sleep ==
    /\ pc = "check"
    /\ leg = "timed" /\ ~slept /\ ~Early
    /\ tries = MaxTries
    /\ slept' = TRUE
    /\ ripe' = TRUE
    /\ pc' = "update"
    /\ UNCHANGED <<after, at, tries, pods, listeners, got, ignored, due, passed, queue,
                   inbound, socks, timeouts>>

Again ==
    /\ pc = "check"
    /\ ~Heard
    /\ tries < MaxTries
    /\ pc' = IF leg \in TcpLegs \cup {"mcast"} THEN "send" ELSE "update"
    /\ UNCHANGED <<after, at, tries, slept, pods, heard, queue, inbound, socks, timeouts>>

\* Mutant of Stop: only a message ends the wait.
StopHeard ==
    /\ pc = "check"
    /\ Heard
    /\ pc' = "leave"
    /\ UNCHANGED <<after, at, tries, slept, pods, heard, queue, inbound, socks, timeouts>>

Stop ==
    /\ pc = "check"
    /\ Heard \/ (tries >= MaxTries /\ (leg = "timed" => slept \/ Early))
    /\ pc' = "leave"
    /\ UNCHANGED <<after, at, tries, slept, pods, heard, queue, inbound, socks, timeouts>>

\* The answer to the apply that ends a TCP leg is not looked at.
Leave ==
    /\ pc = "leave"
    /\ passed' = IF Heard THEN passed \cup {[leg |-> leg, by |-> got]} ELSE passed
    /\ Unlisten(~Heard \/ leg \notin {"directed", "broadcast"})
    /\ IF leg \in TcpLegs THEN Ask("off", "verdict")
       ELSE pc' = "verdict" /\ UNCHANGED <<after, cfg, queue>>
    /\ UNCHANGED <<at, tries, slept, changed, liveCfg, ok, got, ignored, due, ripe, inbound,
                   socks, timeouts>>

Verdict ==
    /\ pc = "verdict"
    /\ \/ /\ Heard /\ at < Len(Legs)
          /\ at' = at + 1
          /\ pc' = "enter"
          /\ UNCHANGED <<after, changed, cfg, queue>>
       \/ /\ ~Heard \/ at = Len(Legs)
          /\ Restore
          /\ UNCHANGED at
    /\ UNCHANGED <<tries, slept, liveCfg, ok, heard, inbound, socks, timeouts>>

\* The host goes on calling update.
HostUpdate ==
    /\ pc = "done"
    /\ cfg # liveCfg
    /\ Ask(cfg, "done")
    /\ UNCHANGED <<at, tries, slept, changed, liveCfg, ok, heard, inbound, socks, timeouts>>

-------------------------------------------------------------------------------
(* The socket thread.                                                      *)

Swap ==
    /\ batch = 0
    /\ dgrams = <<>> /\ stream = <<>>
    /\ cmds # <<>>
    /\ batch' = Len(cmds)
    /\ UNCHANGED <<test, pods, heard, queue, inbound, net, listen, dialed, dgrams, stream,
                   timeouts>>

Perform(kind) ==
    /\ batch > 0
    /\ Head(cmds).kind = kind
    /\ batch' = batch - 1
    /\ cmds' = Tail(cmds)

\* applyOnNet.  Listening begins with close; any other TCP configuration closes
\* the listener and what it accepted.  UDP is bound again unless its part is the same.
PerformApply ==
    /\ Perform("apply")
    /\ net' = Head(cmds).cfg
    /\ \E works \in BOOLEAN :
        /\ answer' = IF Head(cmds).token # token THEN answer ELSE IF works THEN "ok" ELSE "failed"
        /\ listen' = (works /\ net' \in TcpLegs)
    /\ dialed' = FALSE
    /\ stream' = <<>>
    /\ dgrams' = IF net' \in TcpLegs \cup {"udp", "off"} THEN dgrams ELSE <<>>
    /\ UNCHANGED <<test, pods, heard, token, inbound, timeouts>>

\* The dial works or does not; without a listener it does not.
PerformConnect ==
    /\ Perform("connect")
    /\ dialed' \in {FALSE, listen}
    /\ UNCHANGED <<test, pods, heard, token, answer, inbound, net, listen, dgrams, stream,
                   timeouts>>

\* A Send goes to the peer if there is one, and by UDP otherwise.
PerformSend ==
    /\ Perform("send")
    /\ IF dialed /\ ~Head(cmds).udpOnly
       THEN stream' = Append(stream, Head(cmds).leg) /\ UNCHANGED dgrams
       ELSE dgrams' = Append(dgrams, Head(cmds).leg) /\ UNCHANGED stream
    /\ UNCHANGED <<test, pods, heard, token, answer, inbound, net, listen, dialed, timeouts>>

\* drainSockets: the datagrams, then the connection; what is no packet is counted.
Received(legs, via) ==
    LET packets == Filter(legs, Range(Legs) \ {"garbage"})
    IN [k \in DOMAIN packets |-> [leg |-> packets[k], via |-> via]]
Drain ==
    /\ batch = 0
    /\ dgrams # <<>> \/ stream # <<>>
    /\ ignored' = (ignored \/ Contains(dgrams, "garbage"))
    /\ inbound' = inbound \o Received(dgrams, "udp") \o Received(stream, net)
    /\ dgrams' = <<>> /\ stream' = <<>>
    /\ UNCHANGED <<test, pods, listeners, got, due, ripe, passed, queue, net, listen, dialed,
                   batch, timeouts>>

\* The machine is slow: the timed bundle's time comes before the test sleeps.
TimeComes ==
    /\ leg = "timed" /\ ~ripe
    /\ ripe' = TRUE
    /\ UNCHANGED <<test, pods, listeners, got, ignored, due, passed, queue, inbound, socks,
                   timeouts>>

-------------------------------------------------------------------------------
Sude == \/ Begin \/ Setup \/ Enter \/ CodecLeg \/ Bound \/ Listen \/ Send \/ SendFails
        \/ UpdateAsks \/ Sweep \/ Sleep \/ Again \/ Stop \/ Leave \/ Verdict
        \/ HostUpdate \/ Answered
Net == Swap \/ PerformApply \/ PerformConnect \/ PerformSend \/ Drain

Next == Sude \/ TimedOut \/ Net \/ TimeComes

Spec == Init /\ [][Next]_vars

\* The host runs and netLoop turns.
FairSpec == Spec /\ WF_vars(Sude) /\ WF_vars(Net)

-------------------------------------------------------------------------------
(* Properties.                                                             *)

\* Whatever ends the self-test, the caller's endpoint is back but for an empty
\* address prefix, the last thing asked of the socket thread is that endpoint, and
\* no callback is left that would write to the test's variables.
CallerIsBack ==
    pc = "done" =>
        /\ changed \subseteq {"addressPrefix"}
        /\ listeners = {}
        /\ IF Asked = {} THEN net = "caller" ELSE cmds[Max(Asked)].cfg = "caller"

\* A leg is passed by a message it sent itself: not by one that an earlier leg
\* left in a queue or a socket, whatever the order in which they come.  The SLIP
\* leg is left to SlipHeardItself.
HeardItsOwn ==
    \A p \in passed : p.leg \notin {"slip", "garbage"} => p.by.leg = p.leg

\* The test ends and the caller's endpoint is in force again, also when an apply was
\* given up on and is performed late.
Settles == <>[](pc = "done" /\ net = "caller" /\ cmds = <<>>)

\* What the round trip labelled "slip" stands for: it hears a message that was
\* sent while SLIP was in force.
SlipHeardItself == \A p \in passed : p.leg = "slip" => p.by.leg = "slip"
===============================================================================
