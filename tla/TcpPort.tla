------------------------------- MODULE TcpPort --------------------------------
(***************************************************************************)
(* The connection table of TcpPort and the turn of netLoop around it: run  *)
(* commands, redial, poll, sleep on the interests.  Connections are dialed *)
(* or accepted; a dial stays pending until the kernel decides it; a socket *)
(* is known by its descriptor, and the kernel gives the lowest free one to *)
(* the next socket, so that a stale handle is somebody else's.             *)
(*                                                                         *)
(* What travels is counted in packets: cutting them out of the bytes is    *)
(* StreamFraming's.  Left out: the counter of discarded connections.       *)
(***************************************************************************)
EXTENDS Integers, Sequences, FiniteSets, Functions, FiniteSetsExt, SeqFilter

CONSTANTS
    Peers,          \* host and port pairs
    NoPeer,         \* tcpConnect or sendEnabled off, or no host or port
    Dialable,       \* bound: those that are dialed
    Fds,            \* the descriptors the process may have open
    MaxOut          \* bound: packets waiting in one Conn::out

ASSUME PeersAssumption == NoPeer \notin Peers
ASSUME DialableAssumption == Dialable \subseteq Peers
ASSUME FdsAssumption == Fds \subseteq Nat \ {0} /\ IsFiniteSet(Fds)
ASSUME MaxOutAssumption == MaxOut \in Nat \ {0}

NoFd == 0           \* ~uintptr_t{0}

VARIABLES
    tcp,            \* the TcpPort: m_listen, m_conns
    kernel,         \* the socket behind each descriptor
    backlog,        \* connections the kernel holds for accept
    dial,           \* whom netCfg wants dialed
    dialFail,       \* m_dialHost and m_dialPort while m_dialFailed, else NoPeer
    phase           \* where netLoop is

vars == <<tcp, kernel, backlog, dial, dialFail, phase>>

AnyPeer == Peers \cup {NoPeer}
Conn == [sock : Fds \cup {NoFd}, peer : Peers, outbound : BOOLEAN, ready : BOOLEAN,
         out : 0 .. MaxOut]
Socket == [st : {"free", "listening", "dialing", "refused", "open", "eof", "reset"},
           peer : AnyPeer, room : 0 .. 1, rx : {"none", "packet", "bad"}]
Free == [st |-> "free", peer |-> NoPeer, room |-> 0, rx |-> "none"]

\* Types; every connection is somebody's.
TypeOK ==
    /\ tcp.listen \in Fds \cup {NoFd}
    /\ tcp.conns \in Seq(Conn)
    /\ kernel \in [Fds -> Socket]
    /\ backlog \in Seq(Peers)
    /\ dial \in AnyPeer
    /\ dialFail \in AnyPeer
    /\ phase \in {"commands", "poll", "sleep", "joined"}

Init ==
    /\ tcp = [listen |-> NoFd, conns |-> <<>>]
    /\ kernel = [fd \in Fds |-> Free]
    /\ backlog = <<>>
    /\ dial = NoPeer
    /\ dialFail = NoPeer
    /\ phase = "commands"

-------------------------------------------------------------------------------
(* The code as functions of the table t, a record [listen, conns, kernel,  *)
(* backlog], and of one entry e of it, a connection c and its socket k.    *)

Table == [listen |-> tcp.listen, conns |-> tcp.conns, kernel |-> kernel, backlog |-> backlog]
Becomes(table) ==
    \E t \in {table} : /\ tcp' = [listen |-> t.listen, conns |-> t.conns]
                        /\ kernel' = t.kernel
                        /\ backlog' = t.backlog

FreeFds(t) == {fd \in Fds : t.kernel[fd].st = "free"}
New(st, p) == [st |-> st, peer |-> p, room |-> 1, rx |-> "none"]
Alive(t) == {i \in DOMAIN t.conns : t.conns[i].sock # NoFd}

Live(c) == c.sock # NoFd

\* The entries of the table, their sockets with them; the table with other ones.
Entries(t) ==
    [i \in DOMAIN t.conns |->
        [c |-> t.conns[i],
         k |-> IF Live(t.conns[i]) THEN t.kernel[t.conns[i].sock] ELSE Free]]
Rewrite(t, new) ==
    LET Mine(fd) == {i \in DOMAIN t.conns : t.conns[i].sock = fd}
    IN [t EXCEPT !.conns = [i \in DOMAIN t.conns |-> new[i].c],
                 !.kernel = [fd \in Fds |->
                     IF Mine(fd) = {} THEN t.kernel[fd]
                     ELSE new[CHOOSE i \in Mine(fd) : TRUE].k]]

\* A loop over m_conns whose body changes the entry and its socket only.
EachConn(Step(_), t) ==
    Rewrite(t, [i \in DOMAIN t.conns |-> Step(Entries(t)[i])])

\* The compaction: what has a socket moves to a new vector.
Sweep(t) == [t EXCEPT !.conns = Filter(t.conns, {c \in Range(t.conns) : Live(c)})]

\* Mutant of Drop: the handle outlives the socket.
DropKeepsHandle(e) == [e EXCEPT !.k = Free]

Drop(e) == [c |-> [e.c EXCEPT !.sock = NoFd], k |-> Free]

\* Mutant of Find: an accepted connection is as good as the dialed one.
FindLast(t, p) == Max({i \in DOMAIN t.conns : t.conns[i].peer = p} \cup {0})

\* find: the dialed connection, else the last accepted one, else 0.
Find(t, p) ==
    LET mine == {i \in DOMAIN t.conns : t.conns[i].peer = p}
        dialed == {i \in mine : t.conns[i].outbound}
    IN IF dialed # {} THEN Min(dialed) ELSE Max(mine \cup {0})

\* flush: as much as the kernel takes; any error but "would block" drops.
Broken(e) == ~Live(e.c) \/ e.k.st \in {"reset", "refused"}
Flush(e) ==
    LET n == Min({e.c.out, e.k.room})
    IN IF e.c.out = 0 THEN e
       ELSE IF Broken(e) THEN Drop(e)
       ELSE [c |-> [e.c EXCEPT !.out = @ - n], k |-> [e.k EXCEPT !.room = @ - n]]

-------------------------------------------------------------------------------
(* Commands.                                                               *)

\* closeListen: accepted clients go with the listener, and those the kernel held
\* for it; dialed peers stay.
CloseListen(t) ==
    LET u == Sweep(EachConn(LAMBDA e : IF e.c.outbound THEN e ELSE Drop(e), t))
    IN IF t.listen = NoFd THEN u
       ELSE [u EXCEPT !.listen = NoFd, !.kernel[t.listen] = Free, !.backlog = <<>>]

\* close, and listen, which begins with it.
CloseAll(t) == CloseListen([EachConn(Drop, t) EXCEPT !.conns = <<>>])
Listen(t) ==
    LET u == CloseAll(t)
        fd == Min(FreeFds(u))
    IN [u EXCEPT !.listen = fd, !.kernel[fd] = New("listening", NoPeer)]

\* connect, with st what the kernel says at once.  Succeeds without a word if the
\* table has the peer, in whatever state; needs a descriptor.
Dials(t, p, st) ==
    LET fd == Min(FreeFds(t))
    IN IF Find(t, p) # 0 \/ FreeFds(t) = {} \/ st = "refused" THEN t
       ELSE [t EXCEPT !.kernel[fd] = New(st, p),
                      !.conns = Append(@, [sock |-> fd, peer |-> p, outbound |-> TRUE,
                                           ready |-> st = "open", out |-> 0])]
DialOutcomes == {"dialing", "open", "refused"}

\* maintainTcpConnect, for the configured peer d.
MaintainDials(t, d) == d # NoPeer /\ Find(t, d) = 0 /\ dialFail # d
MaintainAfter(t, d, st) ==
    \E u \in {IF MaintainDials(t, d) THEN Dials(t, d, st) ELSE t} :
       /\ Becomes(u)
       /\ dialFail' = IF MaintainDials(t, d) /\ Find(u, d) = 0 THEN d ELSE dialFail

\* applyOnNet on the peers: the TCP half keeps, opens or closes the listener, or
\* fails before or after closing it and leaves the dial to the end of the batch.
TcpHalf == {Table, CloseListen(Table)} \cup {Listen(Table) : fd \in FreeFds(CloseAll(Table))}
Apply(d, st) ==
    /\ phase = "commands"
    /\ dial' = d
    /\ \/ \E t \in TcpHalf : MaintainAfter(t, d, st)
       \/ \E t \in {Table, CloseAll(Table)} : Becomes(t) /\ UNCHANGED dialFail
    /\ UNCHANGED phase

Connect(p, st) ==
    /\ phase = "commands"
    /\ Becomes(Dials(Table, p, st))
    /\ dialFail' = NoPeer
    /\ UNCHANGED <<dial, phase>>

\* sendTo, where netLoop prefers it to UDP.  A pending dial keeps the packet.
Queued(e) == [e EXCEPT !.c.out = @ + 1]
SendOn(e) == IF e.c.ready THEN Flush(Queued(e)) ELSE Queued(e)
Send(p) ==
    /\ phase = "commands"
    /\ LET i == Find(Table, p)
       IN /\ i # 0
          /\ tcp.conns[i].out < MaxOut
          /\ Becomes(Rewrite(Table, [Entries(Table) EXCEPT ![i] = SendOn(@)]))
    /\ UNCHANGED <<dial, dialFail, phase>>

\* The batch is done: redial.
Maintain(st) ==
    /\ phase = "commands"
    /\ phase' = "poll"
    /\ MaintainAfter(Table, dial, st)
    /\ UNCHANGED dial

-------------------------------------------------------------------------------
(* poll.  What the kernel does meanwhile is as if it came after.           *)

\* Mutant of Accepted: the address of the peer is not taken over.
AcceptedUnnamed(fd, p) ==
    [sock |-> fd, peer |-> NoPeer, outbound |-> FALSE, ready |-> TRUE, out |-> 0]

Accepted(fd, p) ==
    [sock |-> fd, peer |-> p, outbound |-> FALSE, ready |-> TRUE, out |-> 0]

\* The descriptors that accept gives out until it would block: one for each
\* connection while there are any, the lowest free one each time.
Lowest(t) ==
    LET free == FreeFds(t)
    IN {fds \in [1 .. Min({Len(t.backlog), Cardinality(free)}) -> free] :
            \A j \in DOMAIN fds, fd \in free :
                fd < fds[j] <=> \E m \in 1 .. j - 1 : fds[m] = fd}
AcceptAll(t, fds) ==
    LET n == Cardinality(DOMAIN fds)
    IN [t EXCEPT !.conns = @ \o [j \in 1 .. n |-> Accepted(fds[j], t.backlog[j])],
                 !.kernel = [fd \in Fds |->
                     IF \E j \in 1 .. n : fds[j] = fd
                     THEN New("open", t.backlog[CHOOSE j \in 1 .. n : fds[j] = fd])
                     ELSE t.kernel[fd]],
                 !.backlog = SubSeq(@, n + 1, Len(@))]

FinishDial(e) ==
    IF e.c.ready \/ ~Live(e.c) THEN e
    ELSE IF Broken(e) THEN Drop(e)
    ELSE [e EXCEPT !.c.ready = e.k.st # "dialing"]

FlushReady(e) == IF e.c.ready /\ Live(e.c) THEN Flush(e) ELSE e

\* recv until it would block; a hang-up, an error or a bad escape drops.
Receive(e) ==
    IF ~e.c.ready \/ ~Live(e.c) THEN e
    ELSE IF e.k.st \in {"eof", "reset"} \/ e.k.rx = "bad" THEN Drop(e)
    ELSE [e EXCEPT !.k.rx = "none"]

Poll ==
    /\ phase = "poll"
    /\ phase' = "sleep"
    /\ \E fds \in Lowest(Table) :
          Becomes(Sweep(EachConn(LAMBDA e : Receive(FlushReady(FinishDial(e))),
                                 AcceptAll(Table, fds))))
    /\ UNCHANGED <<dial, dialFail>>

-------------------------------------------------------------------------------
(* interests and waitSockets.                                              *)

\* Mutant of WantsWrite: a pending dial is not waited for.
WantsWriteOutput(c) == c.out > 0

\* Mutant of WantsWrite: every connection is.
WantsWriteAlways(c) == c.out >= 0

WantsRead(c) == c.ready
WantsWrite(c) == ~c.ready \/ c.out > 0
Readable(k) == k.rx # "none" \/ k.st = "eof"
Writable(k) == k.st \in {"open", "eof"} /\ k.room > 0
Failed(k) == k.st \in {"reset", "refused"}   \* reported whether asked for or not

Wakes ==
    \/ tcp.listen # NoFd /\ backlog # <<>>
    \/ \E i \in Alive(Table) :
        LET c == tcp.conns[i]
            k == kernel[c.sock]
        IN \/ WantsRead(c) /\ Readable(k)
           \/ WantsWrite(c) /\ Writable(k)
           \/ Failed(k)

Woken ==
    /\ phase = "sleep"
    /\ Wakes
    /\ phase' = "commands"
    /\ UNCHANGED <<tcp, kernel, backlog, dial, dialFail>>

\* cleanup, once the thread has seen stop and is joined.
Cleanup ==
    /\ phase \in {"commands", "sleep"}
    /\ phase' = "joined"
    /\ Becomes(CloseAll(Table))
    /\ dialFail' = NoPeer
    /\ UNCHANGED dial

\* The 200 ms are over, or the wake socket was knocked at.
Elapsed ==
    /\ phase = "sleep"
    /\ phase' = "commands"
    /\ UNCHANGED <<tcp, kernel, backlog, dial, dialFail>>

-------------------------------------------------------------------------------
(* The kernel and the peers.                                               *)

Happens(fd, k) ==
    /\ kernel' = [kernel EXCEPT ![fd] = k]
    /\ UNCHANGED <<tcp, backlog, dial, dialFail, phase>>
DialEnds(fd, st) ==
    /\ kernel[fd].st = "dialing"
    /\ st \in {"open", "refused"}
    /\ Happens(fd, [kernel[fd] EXCEPT !.st = st])
PeerSends(fd, rx) ==
    /\ kernel[fd].st = "open"
    /\ kernel[fd].rx = "none"
    /\ Happens(fd, [kernel[fd] EXCEPT !.rx = rx])
PeerReads(fd) ==
    /\ kernel[fd].st = "open"
    /\ kernel[fd].room = 0
    /\ Happens(fd, [kernel[fd] EXCEPT !.room = 1])
PeerLeaves(fd, st) ==
    /\ kernel[fd].st = "open"
    /\ st \in {"eof", "reset"}
    /\ Happens(fd, [kernel[fd] EXCEPT !.st = st])

\* A connection arrives; the kernel has no second one for the same two ends.
Incoming(p) ==
    /\ tcp.listen # NoFd
    /\ p \notin Range(backlog)
    /\ \A i \in Alive(Table) :
        tcp.conns[i].peer = p /\ ~tcp.conns[i].outbound => kernel[tcp.conns[i].sock].st = "reset"
    /\ backlog' = Append(backlog, p)
    /\ UNCHANGED <<tcp, kernel, dial, dialFail, phase>>

Peer ==
    \/ \E fd \in Fds :
        \/ PeerReads(fd)
        \/ \E st \in {"open", "refused"} : DialEnds(fd, st)
        \/ \E rx \in {"packet", "bad"} : PeerSends(fd, rx)
        \/ \E st \in {"eof", "reset"} : PeerLeaves(fd, st)
    \/ \E p \in Peers : Incoming(p)

Command ==
    \/ \E p \in Peers : Send(p)
    \/ \E p \in Dialable, st \in DialOutcomes : Connect(p, st)
    \/ \E d \in Dialable \cup {NoPeer}, st \in DialOutcomes : Apply(d, st)

NetLoop == Poll \/ Woken \/ \E st \in DialOutcomes : Maintain(st)
Next == Command \/ NetLoop \/ Elapsed \/ Cleanup \/ Peer

Spec == Init /\ [][Next]_vars

\* netLoop goes on: it is never blocked but in poll, and there only while nothing
\* it waits for is ready.  The 200 ms and the knock get no fairness.
NextPhase == [commands |-> "poll", poll |-> "sleep", sleep |-> "commands"]
Turns ==
    /\ phase \in DOMAIN NextPhase
    /\ phase = "sleep" => Wakes
    /\ phase' = NextPhase[phase]
FairSpec == Spec /\ WF_phase(Turns)

-------------------------------------------------------------------------------
(* Properties.                                                             *)

\* Whatever is dialed, accepted, dropped, refused and closed: each descriptor the
\* kernel has open belongs to one place of the table, the listener or one entry
\* for the same peer, and no handle is left of a closed one.
HandlesOwned ==
    \A fd \in Fds :
        LET owners == {i \in DOMAIN tcp.conns : tcp.conns[i].sock = fd}
        IN CASE kernel[fd].st = "free" -> owners = {} /\ tcp.listen # fd
             [] kernel[fd].st = "listening" -> owners = {} /\ tcp.listen = fd
             [] OTHER -> /\ tcp.listen # fd
                         /\ \E i \in owners : /\ owners = {i}
                                              /\ tcp.conns[i].peer = kernel[fd].peer

\* Packets to one peer wait on one connection only, dialed and accepted ones of
\* the same address together: none can overtake another.
OneStream ==
    \A i, j \in Alive(Table) :
        tcp.conns[i].peer = tcp.conns[j].peer /\ tcp.conns[i].out > 0 /\ tcp.conns[j].out > 0
        => i = j

\* The thread does not run hot: after a poll nothing it waits for is ready, unless
\* there were more connections to accept than descriptors for them.
NoSpin ==
    [][phase = "poll" /\ phase' = "sleep" /\ Len(backlog) <= Cardinality(FreeFds(Table))
       => ~Wakes']_phase

\* Something to be done at a socket: input, a hang-up, a dial decided, or output
\* the kernel has room for; at the listener, connections there are descriptors for.
PendingAt(fd) ==
    \/ kernel[fd].rx # "none" \/ kernel[fd].st \in {"refused", "eof", "reset"}
    \/ \E i \in Alive(Table) :
        LET c == tcp.conns[i]
        IN /\ c.sock = fd /\ kernel[fd].st = "open"
           /\ ~c.ready \/ (c.out > 0 /\ kernel[fd].room > 0)
Acceptable == backlog # <<>> /\ Len(backlog) <= Cardinality(FreeFds(Table))

\* By its interests alone, with no time running out and nobody knocking, the
\* thread comes to everything there is to be done at its sockets.
Handled == []<>~Acceptable /\ \A fd \in Fds : []<>~PendingAt(fd)

\* What rigOsc.h says of sendTo: "Uses the TCP client already connected to that
\* pair when one exists.  Otherwise UDP."
ConnectedOrUdp ==
    [][\A p \in Peers :
        Send(p) => \E i \in Alive(Table) :
                        /\ tcp.conns[i].peer = p
                        /\ kernel[tcp.conns[i].sock].st # "dialing"]_vars
===============================================================================
