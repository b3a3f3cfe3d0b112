---------------------------- MODULE EndpointProofs ----------------------------
(***************************************************************************)
(* The pack's memory describes the sockets the kernel has, and an apply    *)
(* that answered true means it: for every set of ports, addresses, groups  *)
(* and peers and every configuration.  The four invariants of Endpoint are *)
(* inductive together (Inv), so each step is proved half by half: first    *)
(* what any outcome of the UDP and the TCP half guarantees, then actions.  *)
(***************************************************************************)
EXTENDS Endpoint, TLAPS

\* The inductive invariant.
Inv == TypeOK /\ UdpAgrees /\ TcpAgrees /\ AnswerHolds

UdpType == /\ udp \in [open : BOOLEAN, port : Ports \cup {0}, addr : Addrs,
                       group : AnyGroup, iface : Addrs, ttl : Ttls]
           /\ bound \in [port : AnyPort, addr : Addrs, group : AnyGroup, ttl : Ttls]
           /\ udpOpen \in BOOLEAN
           /\ bindFail \in [failed : BOOLEAN, port : AnyPort, addr : Addrs, group : AnyGroup]
TcpType == /\ tcp \in [open : BOOLEAN, port : Ports \cup {0}, addr : Addrs]
           /\ tcpBound \in [port : AnyPort, addr : Addrs, framing : Framings]
           /\ tcpOpen \in BOOLEAN
           /\ tcpFail \in [failed : BOOLEAN, port : AnyPort, addr : Addrs]
DialType == dialed \subseteq Peers /\ dialFail \in Peers \cup {NoPeer}

\* The socket is there, the memory is true of it and is what the configuration
\* describes, whose port may be 0 (UdpSocket::bind worked now or before).
UdpServes(c) == /\ udpOpen /\ udp.open
                /\ UdpIs(bound)
                /\ bound.addr = c.addr /\ bound.group = c.group /\ bound.ttl = c.ttl
                /\ c.port # 0 => udp.port = c.port

\* The listener the configuration asks for is there and no other.
TcpServes(c, udpPort) ==
    /\ tcp.open = c.tcp
    /\ c.tcp => /\ tcp.port = IF c.tcpPort > 0 THEN c.tcpPort ELSE udpPort
                /\ tcp.addr = Iface(c.addr)
                /\ tcpBound.framing = c.framing

USE PortsAssumption, AddrsAssumption, NamesAssumption, ConfigsAssumption

-------------------------------------------------------------------------------
(* The UDP half.                                                           *)

\* An interface is an address.
LEMMA IfaceType ==
    ASSUME NEW addr \in Addrs
    PROVE  Iface(addr) \in Addrs
BY DEF Iface

\* A socket that UdpSocket::bind returns is the one that was asked for.
LEMMA BindGives ==
    ASSUME NEW port \in Ports \cup {0}, NEW addr \in Addrs, NEW group \in AnyGroup,
           NEW ttl \in Ttls, Default.ttl \in Ttls, udp' \in Bindable(port, addr, group, ttl)
    PROVE  /\ udp' \in [open : BOOLEAN, port : Ports \cup {0}, addr : Addrs,
                        group : AnyGroup, iface : Addrs, ttl : Ttls]
           /\ udp'.open /\ udp'.port \in Ports /\ udp'.group = group
           /\ port # 0 => udp'.port = port
           /\ port = 0 => udp'.port \in Ephemeral
           /\ IF group = NoGroup THEN udp'.addr = Iface(addr)
              ELSE udp'.addr = AllAddr /\ udp'.iface = Iface(addr) /\ udp'.ttl = ttl
<1>1. Picks(port) \subseteq Ports /\ Iface(addr) \in Addrs
  BY IfaceType DEF Picks
<1>2. CASE group = NoGroup
  BY <1>1, <1>2 DEF Bindable, Picks, AnyGroup
<1>3. CASE group # NoGroup
  BY <1>1, <1>3 DEF Bindable, Picks, AnyGroup
<1> QED BY <1>2, <1>3

\* The TTL of a new socket is one.
LEMMA DefaultTtl == Default.ttl \in Ttls /\ Default.framing \in Framings
BY DEF Config

\* The UDP half succeeded: the socket is the one the configuration wants.
LEMMA UdpWorks ==
    ASSUME UdpType, UdpAgrees, NEW c \in Config, NEW force \in BOOLEAN,
           UdpKept(c) \/ UdpBinds(c, force)
    PROVE  UdpType' /\ UdpServes(c)'
<1>0. /\ c.port \in Ports \cup {0} /\ c.addr \in Addrs /\ c.group \in AnyGroup
      /\ c.ttl \in Ttls /\ Default.ttl \in Ttls
  BY DefaultTtl DEF Config, AnyGroup
<1>1. CASE UdpKept(c)
  <2>1. udp.open /\ bound = [port |-> c.port, addr |-> c.addr, group |-> c.group, ttl |-> c.ttl]
    BY <1>1 DEF UdpKept, UdpSame, Wanted
  <2>2. udpOpen' = TRUE /\ udp' = udp /\ bound' = bound /\ bindFail' = bindFail
    BY <1>1 DEF UdpKept
  <2>3. UdpIs(bound) /\ udp.port = c.port
    BY <2>1 DEF UdpAgrees, UdpIs
  <2>4. UdpIs(bound)'
    BY <2>2, <2>3 DEF UdpIs
  <2> QED BY <2>1, <2>2, <2>3, <2>4 DEF UdpType, UdpServes
<1>2. CASE UdpBinds(c, force)
  <2>1. /\ udp' \in Bindable(c.port, c.addr, c.group, c.ttl)
        /\ bound' = [port |-> udp'.port, addr |-> c.addr, group |-> c.group, ttl |-> c.ttl]
        /\ udpOpen' = TRUE
    BY <1>2 DEF UdpBinds, Wanted
  <2>2. bindFail' \in [failed : BOOLEAN, port : AnyPort, addr : Addrs, group : AnyGroup]
    BY <1>2 DEF UdpBinds, NoUdpFail, AnyPort, AnyGroup
  <2>3. /\ udp' \in [open : BOOLEAN, port : Ports \cup {0}, addr : Addrs,
                     group : AnyGroup, iface : Addrs, ttl : Ttls]
        /\ udp'.open /\ udp'.port \in Ports /\ udp'.group = c.group
        /\ c.port # 0 => udp'.port = c.port
        /\ IF c.group = NoGroup THEN udp'.addr = Iface(c.addr)
           ELSE udp'.addr = AllAddr /\ udp'.iface = Iface(c.addr) /\ udp'.ttl = c.ttl
    BY <1>0, <2>1, BindGives
  <2>4. UdpIs(bound)'
    BY <2>1, <2>3 DEF UdpIs
  <2>5. UdpType'
    BY <1>0, <2>1, <2>2, <2>3 DEF UdpType, AnyPort
  <2> QED BY <2>1, <2>3, <2>4, <2>5 DEF UdpServes
<1> QED BY <1>1, <1>2

\* The UDP half failed: listening() is false and the memory still agrees.
LEMMA UdpBroken ==
    ASSUME UdpType, UdpAgrees, NEW c \in Config, NEW force \in BOOLEAN,
           UdpRefused(c, force) \/ UdpFails(c, force)
    PROVE  UdpType' /\ UdpAgrees'
<1>1. CASE UdpRefused(c, force)
  BY <1>1 DEF UdpType, UdpAgrees, UdpIs, UdpRefused
<1>2. CASE UdpFails(c, force)
  <2>1. UdpType'
    BY <1>2, DefaultTtl DEF UdpType, UdpFails, ClosedUdp, UdpKey, Config, AnyPort, AnyGroup
  <2>2. UdpAgrees'
    BY <1>2 DEF UdpAgrees, UdpFails, ClosedUdp
  <2> QED BY <2>1, <2>2
<1> QED BY <1>1, <1>2

-------------------------------------------------------------------------------
(* The TCP half and the dial.                                              *)

\* maintainTcpConnect dials peers and nothing else.
LEMMA MaintainType ==
    ASSUME DialType, NEW peer \in Peers \cup {NoPeer}, NEW left \in SUBSET Peers,
           Maintain(peer, left)
    PROVE  DialType'
BY DEF DialType, Maintain

\* With TCP listening on, the TCP half looks for its own port, or the UDP one's.
LEMMA WantPort ==
    ASSUME NEW c \in Config, NEW udpPort \in Ports \cup {0}, c.tcp
    PROVE  /\ TcpWant(c, udpPort) \in Ports \cup {0}
           /\ TcpWant(c, udpPort) = IF c.tcpPort > 0 THEN c.tcpPort ELSE udpPort
BY DEF TcpWant, Config

\* With TCP listening off there is no port to look for.
LEMMA WantNone ==
    ASSUME NEW c \in Config, NEW udpPort, ~c.tcp
    PROVE  TcpWant(c, udpPort) = -1
BY DEF TcpWant

\* A port is no negative number, which is how the code marks "none".
LEMMA PortsNat ==
    ASSUME NEW p \in Ports \cup {0}
    PROVE  p \in Nat /\ p >= 0 /\ ~(p < 0) /\ p # -1
OBVIOUS

\* The TCP half succeeded: there is the listener the configuration asks for.
LEMMA TcpWorks ==
    ASSUME TcpType, DialType, TcpAgrees, NEW c \in Config, NEW force \in BOOLEAN,
           NEW udpPort \in Ports \cup {0}, NEW want, want = TcpWant(c, udpPort),
           TcpKept(c, want) \/ TcpOff(c, want) \/ TcpListens(c, want, force)
    PROVE  TcpType' /\ DialType' /\ TcpAgrees' /\ TcpServes(c, udpPort)'
<1>0. /\ c.tcp \in BOOLEAN
      /\ c.addr \in Addrs /\ c.framing \in Framings
      /\ c.dial \in Peers \cup {NoPeer}
  BY DEF Config
<1>1. CASE c.tcp
  <2>1. /\ want \in Ports \cup {0}
        /\ want = IF c.tcpPort > 0 THEN c.tcpPort ELSE udpPort
        /\ ~(want < 0)
    BY <1>1, WantPort, PortsNat
  <2>2. CASE TcpKept(c, want)
    <3>1. DialType'
      BY <1>0, <2>2, MaintainType DEF TcpKept, DialType
    <3>2. tcp.open /\ tcpBound = [port |-> want, addr |-> c.addr, framing |-> c.framing]
      BY <2>1, <2>2 DEF TcpKept, TcpSame
    <3>3. tcpOpen' = TRUE /\ UNCHANGED <<tcp, tcpBound, tcpFail>>
      <4>1. (want >= 0) = TRUE
        BY <2>1, PortsNat
      <4> QED BY <2>2, <4>1, Zenon DEF TcpKept
    <3> QED BY <1>0, <1>1, <2>1, <3>1, <3>2, <3>3 DEF TcpType, TcpAgrees, TcpServes
  <2>3. CASE TcpListens(c, want, force)
    <3>1. DialType'
      <4>1. Maintain(c.dial, {})
        BY <2>3 DEF TcpListens
      <4> QED BY <1>0, <4>1, MaintainType
    <3>2. want \in AnyPort
      BY <2>1 DEF AnyPort
    <3>3. Iface(c.addr) \in Addrs
      BY <1>0, IfaceType
    <3>4. /\ tcp' = [open |-> TRUE, port |-> want, addr |-> Iface(c.addr)]
          /\ tcpBound' = [port |-> want, addr |-> c.addr, framing |-> c.framing]
          /\ tcpOpen' = TRUE
          /\ tcpFail' = NoTcpFail
      BY <2>3 DEF TcpListens
    <3>5. TcpType'
      BY <1>0, <2>1, <3>2, <3>3, <3>4 DEF TcpType, NoTcpFail, AnyPort
    <3>6. TcpAgrees' /\ TcpServes(c, udpPort)'
      BY <1>0, <1>1, <2>1, <3>4 DEF TcpAgrees, TcpServes, Iface
    <3> QED BY <3>1, <3>5, <3>6
  <2>4. ~TcpOff(c, want)
    BY <2>1 DEF TcpOff
  <2> QED BY <2>2, <2>3, <2>4
<1>2. CASE ~c.tcp
  <2>1. want = -1
    BY <1>2, WantNone
  <2>2. CASE TcpKept(c, want)
    <3>1. DialType'
      BY <1>0, <2>2, MaintainType DEF TcpKept, DialType
    <3>2. tcpBound.port < 0
      BY <2>1, <2>2 DEF TcpKept, TcpSame
    <3>3. tcpOpen' = FALSE /\ UNCHANGED <<tcp, tcpBound, tcpFail>>
      <4>1. (want >= 0) = FALSE
        BY <2>1
      <4> QED BY <2>2, <4>1, Zenon DEF TcpKept
    <3>4. ~tcp.open
      <4>1. tcp.open => tcpBound.port \in Ports \cup {0}
        BY DEF TcpType, TcpAgrees
      <4> QED BY <3>2, <4>1, PortsNat
    <3> QED BY <1>0, <1>2, <3>1, <3>3, <3>4 DEF TcpType, TcpAgrees, TcpServes
  <2>3. CASE TcpOff(c, want)
    <3>1. DialType'
      BY <1>0, <2>3, MaintainType DEF TcpOff, DialType
    <3>2. TcpType' /\ TcpAgrees' /\ TcpServes(c, udpPort)'
      BY <1>0, <1>2, <2>3 DEF TcpType, TcpAgrees, TcpOff, TcpCloses, ClosedTcp, TcpServes, AnyPort
    <3> QED BY <3>1, <3>2
  <2>4. ~TcpListens(c, want, force)
    BY <2>1 DEF TcpListens
  <2> QED BY <2>2, <2>3, <2>4
<1> QED BY <1>0, <1>1, <1>2

\* The TCP half failed: tcpListening() still tells the truth.
LEMMA TcpBroken ==
    ASSUME TcpType, DialType, TcpAgrees, NEW c \in Config, NEW force \in BOOLEAN,
           NEW want \in AnyPort, TcpRefused(c, want, force) \/ TcpFails(c, want, force)
    PROVE  TcpType' /\ DialType' /\ TcpAgrees'
<1>1. CASE TcpRefused(c, want, force)
  BY <1>1 DEF TcpType, DialType, TcpAgrees, TcpRefused, tcpVars, dialVars
<1>2. CASE TcpFails(c, want, force)
  BY <1>2 DEF TcpType, DialType, TcpAgrees, TcpFails, ClosedTcp, TcpKey, Config, AnyPort
<1> QED BY <1>1, <1>2

-------------------------------------------------------------------------------
(* The actions.                                                            *)

\* TypeOK taken apart the way the steps above need it, before and after a step.
LEMMA TypeParts ==
    TypeOK <=> /\ UdpType /\ TcpType /\ DialType
               /\ netCfg \in Config /\ running \in BOOLEAN
               /\ answer \in {"none", "ok", "failed"}
BY DEF TypeOK, UdpType, TcpType, DialType

\* The same of the next state.
LEMMA TypeParts2 ==
    TypeOK' <=> /\ UdpType' /\ TcpType' /\ DialType'
                /\ netCfg' \in Config /\ running' \in BOOLEAN
                /\ answer' \in {"none", "ok", "failed"}
BY DEF TypeOK, UdpType, TcpType, DialType

\* The constructor's state: no socket, nothing remembered, nothing answered.
LEMMA InitInv == Init => Inv
<1> SUFFICES ASSUME Init PROVE Inv
  OBVIOUS
<1>1. Default.framing \in Framings /\ Default.ttl \in Ttls
  BY DEF Config
<1>2. TypeOK
  <2>1. UdpType
    BY <1>1 DEF Init, UdpType, ClosedUdp, NoBind, NoUdpFail, AnyPort, AnyGroup
  <2>2. TcpType /\ DialType
    BY <1>1 DEF Init, TcpType, DialType, ClosedTcp, NoTcpFail, AnyPort
  <2> QED BY <2>1, <2>2, TypeParts DEF Init
<1>3. UdpAgrees /\ TcpAgrees /\ AnswerHolds
  BY DEF Init, UdpAgrees, TcpAgrees, AnswerHolds, ClosedUdp, ClosedTcp
<1> QED BY <1>2, <1>3 DEF Inv

\* An apply that answers true leaves both listeners where they are wanted.
LEMMA ApplyWorksInv ==
    ASSUME Inv, NEW c \in Config, NEW force \in BOOLEAN, running, c.listen,
           ApplyWorks(c, force)
    PROVE  Inv'
<1>1. UdpType' /\ UdpServes(c)'
  BY UdpWorks, TypeParts DEF Inv, ApplyWorks
<1>2. PICK p \in Ports \cup {0} : p = bound'.port /\ p = udp'.port
  BY <1>1 DEF UdpType, UdpServes, UdpIs
<1>3. PICK want : /\ want = TcpWant(c, p)
                  /\ TcpKept(c, want) \/ TcpOff(c, want) \/ TcpListens(c, want, force)
  BY <1>2 DEF ApplyWorks
<1>4. TcpType' /\ DialType' /\ TcpAgrees' /\ TcpServes(c, p)'
  BY <1>3, TcpWorks, TypeParts DEF Inv
<1>5. netCfg' = IF c.port = 0 THEN [c EXCEPT !.port = p] ELSE c
  BY <1>2 DEF ApplyWorks
<1>6. netCfg' \in Config
  BY <1>5 DEF Config
<1>7. answer' = "ok" /\ running' = running
  BY DEF ApplyWorks, Answer
<1>8. TypeOK'
  BY <1>1, <1>4, <1>6, <1>7, TypeParts, TypeParts2 DEF Inv
<1>9. UdpAgrees'
  BY <1>1 DEF UdpServes, UdpAgrees
<1>10. /\ netCfg'.port = udp'.port
       /\ netCfg'.addr = c.addr /\ netCfg'.group = c.group /\ netCfg'.ttl = c.ttl
       /\ netCfg'.tcp = c.tcp /\ netCfg'.tcpPort = c.tcpPort /\ netCfg'.framing = c.framing
  BY <1>1, <1>2, <1>5 DEF Config, UdpServes
<1>11. udpOpen' /\ UdpIs(netCfg)'
  BY <1>1, <1>10 DEF UdpServes, UdpIs
<1>12. AnswerHolds'
  BY <1>1, <1>2, <1>4, <1>10, <1>11 DEF AnswerHolds, UdpServes, TcpServes
<1> QED BY <1>4, <1>8, <1>9, <1>12 DEF Inv

\* An apply whose TCP half fails answers false and claims nothing of the TCP half.
LEMMA ApplyTcpFailsInv ==
    ASSUME Inv, NEW c \in Config, NEW force \in BOOLEAN, running, c.listen,
           ApplyTcpFails(c, force)
    PROVE  Inv'
<1>1. UdpType' /\ UdpServes(c)'
  BY UdpWorks, TypeParts DEF Inv, ApplyTcpFails
<1>2. PICK p \in Ports \cup {0} : p = bound'.port
  BY <1>1 DEF UdpType, UdpServes, UdpIs
<1>3. PICK want \in AnyPort :
          TcpRefused(c, want, force) \/ TcpFails(c, want, force)
  <2>1. TcpWant(c, p) \in AnyPort
    BY WantPort, WantNone DEF AnyPort
  <2> QED BY <1>2, <2>1 DEF ApplyTcpFails
<1>4. TcpType' /\ DialType' /\ TcpAgrees'
  BY <1>3, TcpBroken, TypeParts DEF Inv
<1>5. answer' = "failed" /\ running' = running /\ netCfg' = c
  BY DEF ApplyTcpFails, Answer
<1>6. TypeOK'
  BY <1>1, <1>4, <1>5, TypeParts, TypeParts2 DEF Inv
<1>7. UdpAgrees' /\ AnswerHolds'
  <2>1. UdpAgrees'
    BY <1>1 DEF UdpServes, UdpAgrees
  <2>2. AnswerHolds'
    BY <1>5 DEF AnswerHolds
  <2> QED BY <2>1, <2>2
<1> QED BY <1>4, <1>6, <1>7 DEF Inv

\* An apply whose UDP half fails returns before the TCP half.
LEMMA ApplyUdpFailsInv ==
    ASSUME Inv, NEW c \in Config, NEW force \in BOOLEAN, running, c.listen,
           ApplyUdpFails(c, force)
    PROVE  Inv'
<1>1. UdpType' /\ UdpAgrees'
  BY UdpBroken, TypeParts DEF Inv, ApplyUdpFails
<1>2. UNCHANGED <<tcpVars, dialVars>>
  BY DEF ApplyUdpFails
<1>3. TcpType' /\ DialType' /\ TcpAgrees'
  BY <1>2, TypeParts DEF Inv, TcpType, DialType, TcpAgrees, tcpVars, dialVars
<1>4. answer' = "failed" /\ running' = running /\ netCfg' = c
  BY DEF ApplyUdpFails, Answer
<1>5. TypeOK'
  BY <1>1, <1>3, <1>4, TypeParts, TypeParts2 DEF Inv
<1> QED BY <1>1, <1>3, <1>4, <1>5 DEF Inv, AnswerHolds

\* Listening disabled: the ephemeral send socket may stay, nothing is claimed.
LEMMA ApplyOffInv ==
    ASSUME Inv, NEW c \in Config, running, ~c.listen, ApplyOff(c)
    PROVE  Inv'
<1>0. UdpType /\ UdpAgrees
  BY TypeParts DEF Inv
<1>1. UdpType' /\ UdpAgrees'
  <2>1. CASE DropListen(c)
    <3>1. udp' = ClosedUdp /\ bound' = [NoBind EXCEPT !.ttl = bound.ttl] /\ udpOpen' = FALSE
      BY <2>1 DEF ApplyOff
    <3>2. UdpType'
      <4>1. bound' = [port |-> -1, addr |-> NoAddr, group |-> NoGroup, ttl |-> bound.ttl]
        BY <3>1, Zenon DEF NoBind
      <4>2. bound' \in [port : AnyPort, addr : Addrs, group : AnyGroup, ttl : Ttls]
        BY <1>0, <4>1 DEF UdpType, AnyPort, AnyGroup
      <4>3. udp' \in [open : BOOLEAN, port : Ports \cup {0}, addr : Addrs,
                     group : AnyGroup, iface : Addrs, ttl : Ttls]
        BY <3>1, DefaultTtl DEF ClosedUdp, AnyGroup
      <4>4. bindFail' \in [failed : BOOLEAN, port : AnyPort, addr : Addrs, group : AnyGroup]
        BY <1>0 DEF UdpType, ApplyOff
      <4> QED BY <3>1, <4>2, <4>3, <4>4 DEF UdpType
    <3>3. UdpAgrees'
      BY <3>1 DEF UdpAgrees, ClosedUdp
    <3> QED BY <3>2, <3>3
  <2>2. CASE ~DropListen(c)
    <3>1. UNCHANGED <<udp, bound>> /\ udpOpen' = FALSE
      BY <2>2 DEF ApplyOff
    <3>2. UdpType'
      BY <1>0, <3>1 DEF ApplyOff, UdpType
    <3>3. UdpAgrees'
      BY <1>0, <3>1 DEF UdpAgrees, UdpIs
    <3> QED BY <3>2, <3>3
  <2> QED BY <2>1, <2>2
<1>2. DialType'
  <2>1. c.dial \in Peers \cup {NoPeer}
    BY DEF Config
  <2> QED BY <2>1, MaintainType, TypeParts DEF Inv, ApplyOff, DialType
<1>3. TcpType' /\ TcpAgrees'
  BY TypeParts DEF Inv, ApplyOff, TcpCloses, TcpType, TcpAgrees, ClosedTcp, AnyPort
<1>4. answer' = "ok" /\ running' = running /\ netCfg' = c
  BY DEF ApplyOff, Answer
<1>5. TypeOK'
  BY <1>1, <1>2, <1>3, <1>4, TypeParts, TypeParts2 DEF Inv
<1> QED BY <1>1, <1>3, <1>4, <1>5 DEF Inv, AnswerHolds

\* A Send that binds a socket does so only where no apply has claimed one.
LEMMA SendBindsInv ==
    ASSUME Inv, SendBinds
    PROVE  Inv'
<1>1. SendOn \in Addrs /\ UdpType
  BY IfaceType, TypeParts DEF Inv, SendOn, Config
<1>2. /\ ~udp.open
      /\ udp' \in Bindable(0, SendOn, NoGroup, Default.ttl)
      /\ bound' = [bound EXCEPT !.port = udp'.port, !.addr = SendOn]
      /\ UNCHANGED <<udpOpen, bindFail, tcpVars, dialVars, netCfg, running, answer>>
  BY DEF SendBinds
<1>3. UdpType' /\ UdpAgrees'
  <2>1. /\ udp' \in [open : BOOLEAN, port : Ports \cup {0}, addr : Addrs,
                     group : AnyGroup, iface : Addrs, ttl : Ttls]
        /\ udp'.open /\ udp'.port \in Ports /\ udp'.group = NoGroup
        /\ udp'.port \in Ephemeral /\ udp'.addr = Iface(SendOn)
    BY <1>1, <1>2, BindGives, DefaultTtl DEF AnyGroup
  <2>2. bound'.port = udp'.port /\ bound'.addr = SendOn
    BY <1>1, <1>2 DEF UdpType
  <2>3. UdpType'
    BY <1>1, <1>2, <2>1 DEF UdpType, AnyPort
  <2>4. UdpIs(bound)'
    BY <2>1, <2>2 DEF UdpIs
  <2> QED BY <2>1, <2>3, <2>4 DEF UdpAgrees
<1>4. TcpType' /\ DialType' /\ TcpAgrees'
  BY <1>2, TypeParts DEF Inv, TcpType, DialType, TcpAgrees, tcpVars, dialVars
<1>5. TypeOK'
  BY <1>2, <1>3, <1>4, TypeParts, TypeParts2 DEF Inv
<1>6. AnswerHolds'
  <2>1. ~(answer = "ok" /\ netCfg.listen)
    BY <1>2 DEF Inv, UdpAgrees, AnswerHolds
  <2> QED BY <1>2, <2>1 DEF AnswerHolds
<1> QED BY <1>3, <1>4, <1>5, <1>6 DEF Inv

\* Dials and lost peers touch neither listener.
LEMMA DialInv ==
    ASSUME Inv, Turn \/ (\E p \in Peers : Connect(p) \/ Lose(p))
    PROVE  Inv'
<1>1. UNCHANGED <<udpVars, tcpVars, netCfg, running, answer>>
  BY DEF Turn, Connect, Lose
<1>2. DialType'
  <2>1. CASE Turn
    <3>1. netCfg.dial \in Peers \cup {NoPeer}
      BY DEF Inv, TypeOK, Config
    <3> QED BY <2>1, <3>1, MaintainType, TypeParts DEF Inv, Turn, DialType
  <2>2. CASE \E p \in Peers : Connect(p) \/ Lose(p)
    BY <2>2, TypeParts DEF Inv, Connect, Lose, DialType
  <2> QED BY <2>1, <2>2
<1>3. UdpType' /\ TcpType' /\ UdpAgrees' /\ TcpAgrees' /\ AnswerHolds'
  BY <1>1, TypeParts DEF Inv, UdpType, TcpType, UdpAgrees, UdpIs, TcpAgrees, AnswerHolds,
                         udpVars, tcpVars
<1> QED BY <1>1, <1>2, <1>3, TypeParts, TypeParts2 DEF Inv

\* cleanup closes everything and forgets every answer.
LEMMA CleanupInv ==
    ASSUME Inv, Cleanup
    PROVE  Inv'
<1>1. UdpType' /\ UdpAgrees'
  BY TypeParts, DefaultTtl DEF Inv, Cleanup, UdpType, UdpAgrees, ClosedUdp, NoBind,
                               NoUdpFail, AnyPort, AnyGroup
<1>2. TcpType' /\ TcpAgrees' /\ DialType'
  BY TypeParts DEF Inv, Cleanup, TcpType, TcpAgrees, DialType, ClosedTcp, NoTcpFail, AnyPort
<1>3. answer' = "none" /\ running' = FALSE /\ netCfg' = netCfg
  BY DEF Cleanup
<1> QED BY <1>1, <1>2, <1>3, TypeParts, TypeParts2 DEF Inv, AnswerHolds

\* Every step of the socket thread, and cleanup after it, preserves Inv.
LEMMA StepInv == Inv /\ [Next]_vars => Inv'
<1> SUFFICES ASSUME Inv, [Next]_vars PROVE Inv'
  OBVIOUS
<1>1. CASE \E c \in Configs, force \in BOOLEAN : Apply(c, force)
  <2>1. PICK c \in Config, force \in BOOLEAN : Apply(c, force)
    BY <1>1
  <2> QED BY <2>1, ApplyWorksInv, ApplyTcpFailsInv, ApplyUdpFailsInv, ApplyOffInv DEF Apply
<1>2. CASE SendBinds
  BY <1>2, SendBindsInv
<1>3. CASE Turn \/ (\E p \in Peers : Connect(p) \/ Lose(p))
  BY <1>3, DialInv
<1>4. CASE Cleanup
  BY <1>4, CleanupInv
<1>5. CASE UNCHANGED vars
  BY <1>5 DEF Inv, TypeOK, UdpAgrees, UdpIs, TcpAgrees, AnswerHolds,
              vars, udpVars, tcpVars, dialVars
<1> QED BY <1>1, <1>2, <1>3, <1>4, <1>5 DEF Next

-------------------------------------------------------------------------------
(* The theorems.                                                           *)

\* The four invariants of Endpoint hold together: TypeOK and the two memories are
\* what the two halves of applyOnNet need to keep each other true.
THEOREM Invariance == Spec => []Inv
BY InitInv, StepInv, PTL DEF Spec

\* Every variable of the endpoint keeps its type whatever is applied, sent,
\* dialed, lost or refused.
THEOREM TypeCorrect == Spec => []TypeOK
BY Invariance, PTL DEF Inv

\* The pack never misremembers its UDP socket: m_boundPort is its port; of a socket
\* without a group, m_boundAddress is where it is bound; one with a group is bound
\* everywhere and joined m_boundGroup on m_boundAddress's interface with m_boundTtl.
\* Only a sender's socket may have a group's memory.  listening() implies a socket.
THEOREM UdpMemory == Spec => []UdpAgrees
BY Invariance, PTL DEF Inv

\* tcpListening() is exactly whether TcpPort listens, and m_tcpPort and
\* m_tcpAddress are where.
THEOREM TcpMemory == Spec => []TcpAgrees
BY Invariance, PTL DEF Inv

\* An applyEndpoint that answered true tells the truth until the next apply or
\* cleanup: the UDP socket is the one the PODs describe, its group, interface and TTL
\* included unless it was bound to send, and the TCP listener is where they want it.
THEOREM TrueMeansOpen == Spec => []AnswerHolds
BY Invariance, PTL DEF Inv
===============================================================================
