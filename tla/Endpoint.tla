------------------------------- MODULE Endpoint -------------------------------
(***************************************************************************)
(* What the socket thread does to the sockets: applyOnNet with             *)
(* UdpSocket::bind and TcpPort::listen under it, the ephemeral bind of a   *)
(* Send, the dial of a Connect and of every turn of netLoop, and cleanup.  *)
(* Each is one step: all run on the socket thread, cleanup after its end.  *)
(*                                                                         *)
(* The environment is the kernel, which may refuse any bind, listen or     *)
(* dial and picks the ephemeral ports, and the peers, who may hang up.     *)
(***************************************************************************)
EXTENDS Integers, FiniteSets

CONSTANTS
    Ports,          \* real port numbers
    Ephemeral,      \* those the kernel picks for port 0
    Addrs,          \* bind addresses
    NoAddr, AllAddr,\* the empty string and "0.0.0.0", two names for every interface
    Groups,         \* multicast groups
    NoGroup,        \* the empty string: unicast
    Ttls,           \* multicast TTLs
    Peers,          \* a host and port that a client socket is aimed at
    NoPeer,         \* nobody: tcpConnect or sendEnabled off, or no host or port
    Framings,       \* size prefix or SLIP
    Configs,        \* bound: the configurations the PODs take
    Default         \* NetConfig{}

Config == [listen : BOOLEAN, port : Ports \cup {0}, addr : Addrs,
           group : Groups \cup {NoGroup}, ttl : Ttls,
           tcp : BOOLEAN, tcpPort : Ports \cup {0},
           dial : Peers \cup {NoPeer}, framing : Framings]

ASSUME PortsAssumption == Ports \subseteq Nat \ {0} /\ Ephemeral \subseteq Ports
ASSUME AddrsAssumption == {NoAddr, AllAddr} \subseteq Addrs
ASSUME NamesAssumption == NoGroup \notin Groups /\ NoPeer \notin Peers
ASSUME ConfigsAssumption == Configs \subseteq Config /\ Default \in Config

VARIABLES
    udp,            \* the UdpSocket: is it open, where did the kernel bind it, and
                    \* the group it joined, on which interface, with which TTL
    bound,          \* m_boundPort, m_boundAddress, m_boundGroup, m_boundTtl
    udpOpen,        \* m_udpOpen, what listening() says
    bindFail,       \* m_bindFailed, m_bindFailPort, -Address, -Group
    tcp,            \* the TcpPort: is it listening, and where did the kernel bind it
    tcpBound,       \* m_tcpPort, m_tcpAddress, m_tcpFraming
    tcpOpen,        \* m_tcpOpen, what tcpListening() says
    tcpFail,        \* m_tcpBindFailed, m_tcpFailPort, -Address
    dialed,         \* the outbound entries of TcpPort::m_conns
    dialFail,       \* m_dialHost and m_dialPort while m_dialFailed, else NoPeer
    netCfg,         \* Net::netCfg
    running,        \* FALSE once cleanup has joined the socket thread
    answer          \* history: what the last apply answered

udpVars == <<udp, bound, udpOpen, bindFail>>
tcpVars == <<tcp, tcpBound, tcpOpen, tcpFail>>
dialVars == <<dialed, dialFail>>
vars == <<udpVars, tcpVars, dialVars, netCfg, running, answer>>

AnyPort == Ports \cup {-1, 0}
AnyGroup == Groups \cup {NoGroup}
ClosedUdp == [open |-> FALSE, port |-> 0, addr |-> NoAddr,
              group |-> NoGroup, iface |-> NoAddr, ttl |-> Default.ttl]
ClosedTcp == [open |-> FALSE, port |-> 0, addr |-> NoAddr]
NoBind == [port |-> -1, addr |-> NoAddr, group |-> NoGroup, ttl |-> Default.ttl]
NoUdpFail == [failed |-> FALSE, port |-> -1, addr |-> NoAddr, group |-> NoGroup]
NoTcpFail == [failed |-> FALSE, port |-> -1, addr |-> NoAddr]

\* Types; a remembered port is a port, 0, or -1 for "none", and what the kernel
\* picked is a port in host byte order.
TypeOK ==
    /\ udp \in [open : BOOLEAN, port : Ports \cup {0}, addr : Addrs,
                group : AnyGroup, iface : Addrs, ttl : Ttls]
    /\ bound \in [port : AnyPort, addr : Addrs, group : AnyGroup, ttl : Ttls]
    /\ udpOpen \in BOOLEAN
    /\ bindFail \in [failed : BOOLEAN, port : AnyPort, addr : Addrs, group : AnyGroup]
    /\ tcp \in [open : BOOLEAN, port : Ports \cup {0}, addr : Addrs]
    /\ tcpBound \in [port : AnyPort, addr : Addrs, framing : Framings]
    /\ tcpOpen \in BOOLEAN
    /\ tcpFail \in [failed : BOOLEAN, port : AnyPort, addr : Addrs]
    /\ dialed \subseteq Peers
    /\ dialFail \in Peers \cup {NoPeer}
    /\ netCfg \in Config
    /\ running \in BOOLEAN
    /\ answer \in {"none", "ok", "failed"}

Init ==
    /\ udp = ClosedUdp
    /\ bound = NoBind
    /\ udpOpen = FALSE
    /\ bindFail = NoUdpFail
    /\ tcp = ClosedTcp
    /\ tcpBound = [port |-> -1, addr |-> NoAddr, framing |-> Default.framing]
    /\ tcpOpen = FALSE
    /\ tcpFail = NoTcpFail
    /\ dialed = {}
    /\ dialFail = NoPeer
    /\ netCfg = Default
    /\ running = TRUE
    /\ answer = "none"

-------------------------------------------------------------------------------
(* applyOnNet, listening enabled, the UDP half.                            *)

\* Mutant of Picks: getsockname's port is not turned to host order.
PicksRaw(port) == IF port = 0 THEN {256 * p : p \in Ephemeral} ELSE {port}

\* The interface a configured address stands for.
Iface(addr) == IF addr = NoAddr THEN AllAddr ELSE addr

\* UdpSocket::bind: the sockets it may return; it closes the old one first and
\* may fail whatever it is asked for (a bad address, no such group, port in use).
\* With a group it binds every interface, and the address says where to join; the
\* TTL is set for a group only, a new socket's is 1 like NetConfig's.
Picks(port) == IF port = 0 THEN Ephemeral ELSE {port}
Bindable(port, addr, group, ttl) ==
    IF group = NoGroup
    THEN [open : {TRUE}, port : Picks(port), addr : {Iface(addr)},
          group : {NoGroup}, iface : {NoAddr}, ttl : {Default.ttl}]
    ELSE [open : {TRUE}, port : Picks(port), addr : {AllAddr},
          group : {group}, iface : {Iface(addr)}, ttl : {ttl}]

Wanted(c) == [port |-> c.port, addr |-> c.addr, group |-> c.group, ttl |-> c.ttl]

\* Mutant of UdpSame: the socket of another group will do.
UdpSameUngrouped(c) == udp.open /\ [bound EXCEPT !.group = c.group] = Wanted(c)

UdpSame(c) == udp.open /\ bound = Wanted(c)
UdpKey(c) == [failed |-> TRUE, port |-> c.port, addr |-> c.addr, group |-> c.group]
UdpSticky(c) == bindFail = UdpKey(c)

UdpKept(c) ==
    /\ UdpSame(c)
    /\ udpOpen' = TRUE
    /\ UNCHANGED <<udp, bound, bindFail>>

UdpBinds(c, force) ==
    /\ ~UdpSame(c)
    /\ force \/ ~UdpSticky(c)
    /\ udp' \in Bindable(c.port, c.addr, c.group, c.ttl)
    /\ bound' = [Wanted(c) EXCEPT !.port = udp'.port]
    /\ bindFail' = NoUdpFail
    /\ udpOpen' = TRUE

UdpRefused(c, force) ==
    /\ ~UdpSame(c)
    /\ ~force /\ UdpSticky(c)
    /\ udpOpen' = FALSE
    /\ UNCHANGED <<udp, bound, bindFail>>

UdpFails(c, force) ==
    /\ ~UdpSame(c)
    /\ force \/ ~UdpSticky(c)
    /\ udp' = ClosedUdp
    /\ bindFail' = UdpKey(c)
    /\ udpOpen' = FALSE
    /\ UNCHANGED bound

-------------------------------------------------------------------------------
(* The TCP half, with the UDP port in force, and the dial that ends it.    *)

TcpWant(c, udpPort) ==
    IF ~c.tcp THEN -1 ELSE IF c.tcpPort > 0 THEN c.tcpPort ELSE udpPort

\* Mutant of TcpSame: a listener with the other framing will do.
TcpSameUnframed(c, want) ==
    IF want < 0 THEN tcpBound.port < 0
    ELSE tcp.open /\ tcpBound.port = want /\ tcpBound.addr = c.addr

TcpSame(c, want) ==
    IF want < 0 THEN tcpBound.port < 0
    ELSE tcp.open /\ tcpBound = [port |-> want, addr |-> c.addr, framing |-> c.framing]
TcpKey(c, want) == [failed |-> TRUE, port |-> want, addr |-> c.addr]
TcpSticky(c, want) == tcpFail = TcpKey(c, want)

\* Mutant of Maintain: one failed dial keeps every other peer from being dialed.
MaintainOnce(peer, left) ==
    \/ /\ peer = NoPeer \/ peer \in left \/ dialFail # NoPeer
       /\ dialed' = left
       /\ UNCHANGED dialFail
    \/ /\ peer # NoPeer /\ peer \notin left /\ dialFail = NoPeer
       /\ \/ dialed' = left \cup {peer} /\ UNCHANGED dialFail
          \/ dialed' = left /\ dialFail' = peer

\* maintainTcpConnect, `left' being the outbound connections there are.
Maintain(peer, left) ==
    \/ /\ peer = NoPeer \/ peer \in left \/ dialFail = peer
       /\ dialed' = left
       /\ UNCHANGED dialFail
    \/ /\ peer # NoPeer /\ peer \notin left /\ dialFail # peer
       /\ \/ dialed' = left \cup {peer} /\ UNCHANGED dialFail
          \/ dialed' = left /\ dialFail' = peer

TcpKept(c, want) ==
    /\ TcpSame(c, want)
    /\ tcpOpen' = (want >= 0)
    /\ Maintain(c.dial, dialed)
    /\ UNCHANGED <<tcp, tcpBound, tcpFail>>

\* TcpPort::closeListen keeps the dialed peers.
TcpCloses ==
    /\ tcp' = ClosedTcp
    /\ tcpBound' = [tcpBound EXCEPT !.port = -1, !.addr = NoAddr]
    /\ tcpOpen' = FALSE
    /\ tcpFail' = [tcpFail EXCEPT !.failed = FALSE]
TcpOff(c, want) ==
    /\ ~TcpSame(c, want)
    /\ want < 0
    /\ TcpCloses
    /\ Maintain(c.dial, dialed)

\* TcpPort::listen begins with close, which drops the dialed peers as well.
TcpListens(c, want, force) ==
    /\ ~TcpSame(c, want)
    /\ want >= 0
    /\ force \/ ~TcpSticky(c, want)
    /\ tcp' = [open |-> TRUE, port |-> want, addr |-> Iface(c.addr)]
    /\ tcpBound' = [port |-> want, addr |-> c.addr, framing |-> c.framing]
    /\ tcpOpen' = TRUE
    /\ tcpFail' = NoTcpFail
    /\ Maintain(c.dial, {})

TcpRefused(c, want, force) ==
    /\ ~TcpSame(c, want)
    /\ want >= 0
    /\ ~force /\ TcpSticky(c, want)
    /\ UNCHANGED <<tcpVars, dialVars>>

\* Mutant of TcpFails: tcpListening() is left as it was.
TcpFailsQuietly(c, want, force) ==
    /\ ~TcpSame(c, want)
    /\ want >= 0
    /\ force \/ ~TcpSticky(c, want)
    /\ tcp' = ClosedTcp
    /\ tcpFail' = TcpKey(c, want)
    /\ dialed' = {}
    /\ UNCHANGED <<tcpOpen, tcpBound, dialFail>>

TcpFails(c, want, force) ==
    /\ ~TcpSame(c, want)
    /\ want >= 0
    /\ force \/ ~TcpSticky(c, want)
    /\ tcp' = ClosedTcp
    /\ tcpOpen' = FALSE
    /\ tcpFail' = TcpKey(c, want)
    /\ dialed' = {}
    /\ UNCHANGED <<tcpBound, dialFail>>

-------------------------------------------------------------------------------
(* The commands of the socket thread.                                      *)

Answer(a) == answer' = a /\ UNCHANGED running

ApplyUdpFails(c, force) ==
    /\ UdpRefused(c, force) \/ UdpFails(c, force)
    /\ netCfg' = c
    /\ Answer("failed")
    /\ UNCHANGED <<tcpVars, dialVars>>

ApplyTcpFails(c, force) ==
    /\ UdpKept(c) \/ UdpBinds(c, force)
    /\ LET want == TcpWant(c, bound'.port)
       IN TcpRefused(c, want, force) \/ TcpFails(c, want, force)
    /\ netCfg' = c
    /\ Answer("failed")

ApplyWorks(c, force) ==
    /\ UdpKept(c) \/ UdpBinds(c, force)
    /\ LET want == TcpWant(c, bound'.port)
       IN TcpKept(c, want) \/ TcpOff(c, want) \/ TcpListens(c, want, force)
    /\ netCfg' = IF c.port = 0 THEN [c EXCEPT !.port = bound'.port] ELSE c
    /\ Answer("ok")

\* Listening disabled.
DropListen(c) == udp.open /\ bound.port = c.port
ApplyOff(c) ==
    /\ udp' = IF DropListen(c) THEN ClosedUdp ELSE udp
    /\ bound' = IF DropListen(c) THEN [NoBind EXCEPT !.ttl = bound.ttl] ELSE bound
    /\ udpOpen' = FALSE
    /\ bindFail' = [bindFail EXCEPT !.failed = FALSE]
    /\ TcpCloses
    /\ Maintain(c.dial, dialed)
    /\ netCfg' = c
    /\ Answer("ok")

Apply(c, force) ==
    /\ running
    /\ \/ ~c.listen /\ ApplyOff(c)
       \/ c.listen /\ (ApplyUdpFails(c, force) \/ ApplyTcpFails(c, force)
                       \/ ApplyWorks(c, force))

\* What a Send binds if there is no socket.
SendOn == Iface(netCfg.addr)

\* Mutant of SendBinds: the address is forgotten like the group.
SendBindsPort ==
    /\ running
    /\ ~udp.open
    /\ udp' \in Bindable(0, SendOn, NoGroup, Default.ttl)
    /\ bound' = [bound EXCEPT !.port = udp'.port]
    /\ UNCHANGED <<udpOpen, bindFail, tcpVars, dialVars, netCfg, running, answer>>

\* A Send with no socket open: an ephemeral bind that notes the port and the
\* address only; a bind that fails leaves everything as it is.
SendBinds ==
    /\ running
    /\ ~udp.open
    /\ udp' \in Bindable(0, SendOn, NoGroup, Default.ttl)
    /\ bound' = [bound EXCEPT !.port = udp'.port, !.addr = SendOn]
    /\ UNCHANGED <<udpOpen, bindFail, tcpVars, dialVars, netCfg, running, answer>>

\* A Connect command forgets the failed dial and dials.
Connect(p) ==
    /\ running
    /\ dialFail' = NoPeer
    /\ dialed' \in {dialed, dialed \cup {p}}
    /\ UNCHANGED <<udpVars, tcpVars, netCfg, running, answer>>

\* Every turn of netLoop calls maintainTcpConnect for the configuration in force.
Turn ==
    /\ running
    /\ netCfg.dial # NoPeer
    /\ Maintain(netCfg.dial, dialed)
    /\ UNCHANGED <<udpVars, tcpVars, netCfg, running, answer>>

\* TcpPort::poll finds that a dial failed after all or the peer hung up.
Lose(p) ==
    /\ running
    /\ p \in dialed
    /\ dialed' = dialed \ {p}
    /\ UNCHANGED <<udpVars, tcpVars, dialFail, netCfg, running, answer>>

Cleanup ==
    /\ running
    /\ running' = FALSE
    /\ udp' = ClosedUdp
    /\ bound' = [NoBind EXCEPT !.ttl = bound.ttl]
    /\ udpOpen' = FALSE
    /\ bindFail' = NoUdpFail
    /\ tcp' = ClosedTcp
    /\ tcpBound' = [tcpBound EXCEPT !.port = -1, !.addr = NoAddr]
    /\ tcpOpen' = FALSE
    /\ tcpFail' = NoTcpFail
    /\ dialed' = {}
    /\ dialFail' = NoPeer
    /\ answer' = "none"
    /\ UNCHANGED netCfg

Next ==
    \/ \E c \in Configs, force \in BOOLEAN : Apply(c, force)
    \/ SendBinds
    \/ \E p \in Peers : Connect(p) \/ Lose(p)
    \/ Turn
    \/ Cleanup

Spec == Init /\ [][Next]_vars

\* netLoop keeps turning.
FairSpec == Spec /\ WF_vars(Turn)

-------------------------------------------------------------------------------
(* Properties.                                                             *)

\* The kernel has the socket that c, a memory or a configuration, describes: on
\* c's port; without a group on c's address; with one on every interface, and the
\* group is c's, joined on c's interface with c's TTL.  A c with a group may get a
\* socket without one only if that socket was bound to send.
UdpIs(c) ==
    /\ udp.open /\ udp.port = c.port
    /\ IF udp.group = NoGroup
       THEN /\ udp.addr = Iface(c.addr)
            /\ c.group = NoGroup \/ udp.port \in Ephemeral
       ELSE /\ udp.addr = AllAddr
            /\ udp.group = c.group /\ udp.iface = Iface(c.addr) /\ udp.ttl = c.ttl

\* The memory from which the pack decides whether to rebind, to close, and what to
\* report never describes another socket than there is, through failed binds,
\* refusals, sends and cleanup; its group and TTL may only be left over from a
\* socket that is gone while a sender's has its place.  listening() never speaks of
\* a closed socket.
UdpAgrees ==
    /\ udp.open => UdpIs(bound)
    /\ udpOpen => udp.open

\* The same of the TCP listener, through failed listens, refusals and framing
\* changes: tcpListening() is exactly whether a listener is there.
TcpAgrees ==
    /\ tcpOpen = tcp.open
    /\ tcp.open => tcpBound.port = tcp.port /\ Iface(tcpBound.addr) = tcp.addr

\* An apply that answered true means it, until the next apply or cleanup, whatever
\* is sent, dialed or lost: the UDP socket is the one the PODs describe, its group
\* and TTL included but for a sender's socket taken for the listener (NoFakeOpen);
\* the TCP listener is where the PODs want it; and drainSockets, which cuts every
\* stream by netCfg's framing, cuts those of the accepted connections by the framing
\* they were accepted under.
AnswerHolds ==
    answer = "ok" /\ netCfg.listen =>
        /\ udpOpen /\ UdpIs(netCfg)
        /\ tcp.open = netCfg.tcp
        /\ netCfg.tcp =>
              /\ tcp.port = IF netCfg.tcpPort > 0 THEN netCfg.tcpPort ELSE udp.port
              /\ tcp.addr = Iface(netCfg.addr)
              /\ tcpBound.framing = netCfg.framing

\* README: bind failures surface, no fake open.  Listening with a group in the
\* PODs means that the socket has joined it.
NoFakeOpen == udpOpen => udp.group = netCfg.group

\* The comment in applyOnNet: with listening disabled, drop a listen bind, keep
\* an ephemeral send socket.  A multicast membership is a listen bind.
ListenDropped == ~netCfg.listen => udp.group = NoGroup

\* A configured TCP peer is dialed, and dialed again when it is lost or when a
\* new listener swept it away, unless its dial failed outright.
Redialed ==
    \A p \in Peers :
        netCfg.dial = p ~> p \in dialed \/ dialFail = p \/ netCfg.dial # p \/ ~running
===============================================================================
