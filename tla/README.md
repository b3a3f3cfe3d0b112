# rigOsc in TLA+

Models, model checks and proofs for the rigOsc pack: an OSC 1.0/1.1 endpoint for
rigkit applications, with one UDP socket, one TCP listener with dialed and accepted
peers, timed bundles, address patterns, and a socket thread beside the thread the
application runs on. Paths below are those of the repository.

## The system

| Part | State | Operations | Hard behaviour |
|---|---|---|---|
| Two threads (`src/rigOsc.cpp`) | `Net`: `mu`, `cv`, `cmds`, `inbound`, `stop`, `wake`, tokens, the last answer; `m_live*` | `update`, `applyEndpoint`, `submitApply`, `enqueueSend`, `enqueueConnect`, `stopNet`, `cleanup`; `netLoop` | wakeups, answers later than the two seconds a caller waits, a cache over asynchronous work, shutdown |
| Endpoint (`applyOnNet`) | the UDP socket and `m_bound*`, the TCP listener and `m_tcp*`, sticky failures, `netCfg` | apply, ephemeral bind of a send, connect, `maintainTcpConnect`, cleanup | one step of several failing, stale memory of a socket that is gone |
| Timed delivery | `inbound`, `m_due` | `drainSockets`, `flushDue`, `offer`, `deliver` | in-place compaction while listeners run, several readings of a clock that may be set back, era of the timetag |
| `TcpPort` (`src/TcpSocket.cpp`) | `m_listen`, `m_conns` with `acc`, `out`, `ready`, SLIP decoder | `listen`, `connect`, `sendTo`, `poll`, `interests`, `close` | pending dials, peers that hang up in the middle of a turn, reused descriptors, partial reads and writes |
| `UdpSocket` | socket, port | `bind`, `sendTo`, `recvFrom`, `close` | ephemeral ports; with a multicast group every interface is bound, and the address says where to join |
| Patterns (`src/OscCodec.cpp`) | none | `matchAddress` | backtracking, classes, braces, `*` and `**` |
| Codec (`src/OscCodec.cpp`) | none | `parsePacket`, `encodeMessage`, `encodeBundle` | nesting, padding, times of nested bundles, broken elements |
| Bus addresses | the identity POD | `makeAddress`, `busSenderId`, `busLeafMatches` | prefixes of prefixes |
| Self-test | locals of `smokeLoopback` | ten legs over the live endpoint | more than thirty exits, leftovers of one leg in another, applies performed late |
| Listeners | `m_listeners` | add, remove, `dispatch` | listeners that change the list |
| PODs, command line, example, build | plain data | | |

**How they interact.** The SUDE thread writes the PODs and, once per frame, calls
`update`: `applyEndpoint` compares the PODs with its cache and, if they differ,
pushes an Apply under `Net::mu`, sends one datagram to the loopback socket
`Net::wake` and waits on `Net::cv`; then held messages that have come due are
delivered, then the new ones. `send`, `sendTo` and `connectTcp` push a command, knock
and return. The socket thread swaps the command vector, runs it, redials, drains the
sockets into `Net::inbound`, and sleeps in `poll` until something is readable or
200 ms are over. Listeners run on the SUDE thread only.

**What makes each part correct.** Threads: every command is performed once, in
order, without waiting for the poll timeout; the cache never lies; cleanup ends;
PODs and sockets converge. Endpoint: what is remembered is what is open, and true
means open. Delivery: each message once, not early, held ones in order, all in the
end. Connections: every open socket belongs to one entry, packets to a peer go one way,
the thread waits for what there is to be done and for nothing else. Framing: packets
survive any cutting of the stream. Pure functions: patterns hit exactly the addresses that
the documentation promises, what is encoded is what is parsed, bus names agree. Self-test:
the caller's endpoint is back, and a leg is passed by what it sent. `PROJECT.json` lists
the hazards one by one.

## Modules

| Module | Models | Abstracts from |
|---|---|---|
| `CommandQueue` | the promise to callers: one queue, first in first out, the token of the last apply performed, nothing after close | threads, buffers, knocks |
| `NetThread` | both threads; one action per section under `Net::mu` and per step of `netLoop` | what `applyOnNet` decides (any outcome it can report), contents of sends |
| `Endpoint` | `applyOnNet` with `UdpSocket::bind`, `TcpPort::listen`, `connect` and `closeListen` under it; sends, dials, hang-ups, cleanup | threads: all of it runs on the socket thread |
| `TcpPort` | the connection table and the turn of `netLoop` around it: commands, redial, `poll`, sleep on the interests; kernel and peers as actions | bytes (a packet is a count), the discarded counter, UDP |
| `StreamFraming` | one direction of one connection from `sendTo` to the packets of `poll`; loops over bytes are recursive functions | sockets (a wire that is cut anywhere), the values 4 and 256 |
| `TimedMailbox` | the promise to listeners: one box, each message given out once and not before its time, closed by cleanup | queues, sweeps, readings of the clock, the order |
| `OscDelivery` | `drainSockets` to `dispatch`; `flushDue` one element at a time | contents of messages |
| `OscCodec` | encoding and parsing, operators over bytes; loops and the recursion of `parsePacket` are recursive functions | what the values of a byte are (`Base`, `Digit`; 25 letters in the runs, 256 in the code), what the bytes of a number mean |
| `OscPattern` | `matchAddress` and a meaning of patterns to compare it with | characters that behave alike |
| `OscBus` | `oscSegment`, `busPrefix` and the four functions on bus addresses | letters that behave alike |
| `CodecInputs` | what `OscCodec` and `OscBus` are given, growing piece by piece: arguments of a message, elements of bundles, letters of the names two hosts give; and their properties | |
| `Codec` | the same beside patterns, which grow letter by letter, and the properties of patterns | |
| `SeqFilter` | the loop that keeps what is to stay, in order | |
| `SelfTest` | `smokeLoopback`, one action per step of a leg, with the socket thread as far as it matters to it | which configuration binds where; the legs without I/O (`CodecLeg`: they pass or fail) |
| `MC*` | the constants of the small instances | |
| `NetThreadProofs`, `EndpointProofs`, `OscDeliveryProofs`, `TcpPortProofs`, `SelfTestProofs`, `StreamFramingProofs`, `CodecProofs` | theorems and proofs | |
| `SeqFilterProofs` | what a loop does: lemmas the last four of them use | |

**How they compose.** `NetThread` implements `CommandQueue` (`InOrder`), `OscDelivery`
implements `TimedMailbox` (`OneBox`); `SelfTest` builds on
that result and has one queue where `NetThread` has two buffers. `MCOscDelivery` makes the
packets of `OscDelivery` with `OscCodec`: bundles in bundles are encoded, parsed, and what
`parsePacket` says of their times is what is delivered or held. `CodecInputs` puts `OscCodec`
and `OscBus` together, `Codec` adds `OscPattern`: it is apart because its matcher is a
RECURSIVE operator, which no module with a proof may reach. `TcpPort` (compaction of connections), `SelfTest`
(removal of listeners) and `OscBus` (illegal letters) throw out with `SeqFilter`. `Endpoint` and `TcpPort` are two views of the same code:
`Endpoint` keeps what `applyOnNet` remembers and leaves a connection at "dialed or not";
`TcpPort` keeps the connections and leaves the outcome of an apply open (`TcpHalf`).

State and code: variables keep the code's names where they have one (`cmds`, `batch` for
netLoop's local vector, `due` for `m_due`, `bound` for `m_boundPort`, `m_boundAddress`,
`m_boundGroup` and `m_boundTtl`, and so on); each declaration names the members it stands
for. An action is a handler, or the part of it between two points where another thread can
act. History variables (`answer`, `delivered`, `held`, `dropped`, `peak`) exist for the
properties only, and are commented as such.

Two things are deliberate. In `NetThread` a knock is a step of its own after the push,
since `wakeNet` runs outside the mutex. In `OscDelivery` the clock, the socket thread
and the sweep interleave at every element, since a listener runs for as long as it likes.

In `TcpPort` what the kernel and the peers do comes between the steps of the thread; what
comes in the middle of `poll` has the same effect as coming after it. A descriptor is a
number that the kernel gives out lowest first, so that an entry that keeps a closed one
holds somebody else's socket. Where `Endpoint` treats an accepted connection with the very
host and port of a dialed peer as not happening, `TcpPort` has it.

In `SelfTest` a message is the leg that sent it. `sendPort` is part of a configuration and
becomes the bound port after the first apply, so the first `update` applies again ("bind", then
"udp"), which keeps the socket. Both ends of its sockets are in one
process, so a turn of the socket thread drains what it sent; what is in flight over a
second apply is lost or not as `applyOnNet` closes the socket or keeps it.

`UdpSocket::bind` and `TcpPort::listen` may fail whatever they are
asked for; `getsockname` may not. `udp` of `Endpoint` is the socket as the kernel has it
and `bound` what the pack remembers, and the two are never copies of each other. The empty address
and "0.0.0.0" are one bind (`Iface`); with a group the bind is to every interface, whatever
`m_boundAddress` says, and the configured address, the group and the TTL are those of the
membership (`Bindable`). `UdpIs` says when a memory or a configuration describes a socket.

Operators introduced by the words "Mutant of" in their comment are wrong variants of
the definition after them. They are used only to show that a property notices the
bug: with the variant in its place TLC refutes the property.

## Runs

Run a check with `tlc -config <run>.cfg <module>`, a proof with `tlapm <module>.tla`.

| Run | Question | Bounds |
|---|---|---|
| `NetThread` | types, `NoLostWakeup`, `CacheCoherent`, refinement of `CommandQueue` (`InOrder`); `Performed`, `CleanupEnds`, `Converges` | 3 calls, 1 late answer, port 0 or the one bound, one other configuration that is clamped; the wake socket bound or not |
| `Endpoint` | types, `UdpAgrees`, `TcpAgrees`, `AnswerHolds`, `Redialed` | ports 0, one fixed, two ephemeral; one group with two TTLs, two framings; TCP port from UDP or its own; two peers to dial |
| `OscDelivery` | types, `ExactlyOnce`, `NeverEarly`, `HeldInOrder`, `AllDelivered`, refinement of `TimedMailbox` (`OneBox`) | 3 messages, the packets of five encodings up to two bundles deep, clock 0..3, set back once |
| `Framing` | types, `Faithful`, `Prompt`, for both framings | prefix of two binary digits, packets up to one byte too long and made of the four SLIP codes, garbage before the first frame, 3 packets |
| `TcpPort` | types, `HandlesOwned`, `OneStream`, `NoSpin`, `Handled` | two peers of which one is dialed, three descriptors (a listener and two connections; a third meets the limit), one packet waiting per connection, one in the kernel |
| `Codec` | `NoMiss`, `NoStray`; `RoundTrip`, `NoShortRead`, `BundleMeaning`; `BusHears`, `BusAnswers` | patterns to length 7 over stars and over braces, 6 over classes, against addresses to length 4; three arguments out of ten kinds and lengths on either side of the padding, or five with arrays; bundles put together in three steps, three deep; three names to length 2 against addresses of four segments |
| `SelfTest` | types, `CallerIsBack`, `HeardItsOwn`, `Settles` | 3 updates per leg instead of 4, 20 or 40; 2 applies given up on |

The longest of them, `Endpoint`, takes about two minutes with two workers.

Why the bounds are enough: a lost wakeup takes one command and one turn of the loop;
a stale cache takes one late apply, a second apply and the swap between them, so three
calls with one timeout. A sweep goes wrong with three held messages of which the middle one
is due, or with two and one that arrives meanwhile. A stale descriptor takes one connection
that is dropped and one that is opened, two streams to one peer a dialed and an accepted
connection. A leftover of a leg takes two tries of one and one of the next; a late apply
that comes after the restoring one would take two applies given up on. Ports, addresses and
groups enter only by comparison with what is remembered, so one value besides the
remembered one is enough. Except for patterns and for liveness the proofs remove these
bounds. Symmetry is not used, as the values are few and the liveness runs could not use it.

Deadlock is not checked: with the calls used up and cleanup done, with the clock and the
message bound reached, with the self-test over, or with an input at its longest, the models
stop because the program has nothing to do. That it does not stop earlier is what
`Performed`, `CleanupEnds`, `AllDelivered`, `Redialed`, `Handled` and `Settles` say.

### What the code does otherwise than its documents say

Five runs end in a counterexample. Each checks what one place in the repository says.

| Run | Sentence | What happens |
|---|---|---|
| `BundleOrder` | `rigOsc.h`: a timed bundle is "held until that time, then delivered in order" | `offer` reads the clock per message. If the time comes between two messages of a bundle the first is held and the second delivered at once |
| `FakeOpen` | README: bind failures surface, "no fake open" | bind with group g; a rebind fails; a send binds an ephemeral socket, leaving `m_boundGroup` = g; an apply for that port, address and g believes it has the socket and answers true, the group is not joined |
| `ListenLeft` | `applyOnNet`: "Drop a listen bind; keep an ephemeral send socket" | what is a listen bind is told from the port in the new configuration; change the port in the same edit and the listening socket stays, in its group |
| `PendingDial` | `rigOsc.h` on `sendTo`: "Uses the TCP client already connected to that pair when one exists. Otherwise UDP." | `hasPeer` is true of a dial that is not decided yet; the packet waits in its buffer and is lost without an error if the dial fails |
| `SlipLeg` | the self-test's round trip labelled "slip" | the size leg resends until it hears one; a second packet of its, drained later, is in `Net::inbound` when the SLIP leg registers the same address, and passes it |

Some peculiarities are taken as they are.

- The matcher. The `/` after `**` belongs to the `**` (`/bus/**/level` hits `/bus/sublevel`).
  `restEmptyOk` skips `/` before the first star only, so `/a/*` hits `/a`, which `NoStray`
  allows, and `/a*` hits `/a` while `/a*/**` does not, although `OscCodec.h` says that a
  pattern ending in `/**` matches that node: `NoMiss` leaves this form out. An alternative is
  pasted to the text after the brace, so `/{*}*` is read as `/**`: the grammars of `Codec`
  keep stars and braces apart. Patterns with an empty alternative, an unclosed bracket or a
  class with `]` in it are left out by `WellFormed`.
- Timetags are compared without an era; a time after the rollover of 2036 counts as past.
  With `Era = 2` in place of 100 in `OscDelivery.cfg` TLC refutes `NeverEarly`.
- At the limit of descriptors the listener stays readable and the thread runs hot until a
  connection closes; `NoSpin` and `Handled` exempt this.
- The self-test fills an empty `addressPrefix` and leaves it filled; `CallerIsBack` exempts
  this field. Its TCP legs fall back to UDP and pass when the dial fails, since with
  `tcpPort` 0 both listeners have the same port number.
- `applyOnNet` takes the new configuration for `netCfg` before it binds. If the UDP half
  fails, connections accepted earlier are cut by the new framing. `AnswerHolds` speaks of
  applies that answered true.
- With TCP listening off a change of framing keeps the dialed peers (`closeListen`), and what is
  in their `acc` is cut by the new rule. `rigOsc.h` says that a dialed peer's framing follows the
  PODs, so the peer has to change with it; no property is about this.

## Fairness

- `netLoop` runs: weak fairness of its steps together (`NetWork`), as the thread is never
  blocked except in `poll` and every other step is always enabled. With the wake socket
  bound, the timeout of `poll` gets **no** fairness, so that `Performed` and `CleanupEnds`
  depend on the knock. Where it could not be bound (`hasWake` is false) the timeout is what
  there is, and gets weak fairness.
- The host calls `update` every frame: weak fairness of `Update \/ UpdateCached`, of `Sude` in
  `OscDelivery`. Listeners return.
- A call that has begun goes on: `Knock`, `TakeAnswer`, `Join`. Giving up is never forced.
- Nothing makes the application call anything, the clock be set back, or a peer hang up.
- `Endpoint`: `netLoop` keeps turning (`Turn`). `Tick`: time goes on, up to its bound.
- `TcpPort`: the thread goes through commands, `poll` and sleep (`Turns`), and wakes while
  something it is interested in is ready. The 200 ms and the knock get no fairness, so that
  `Handled` depends on the interests. Kernel and peers get none.
- `SelfTest`: both threads go on (`Sude`, `Net`). Giving up on an apply is never forced.

## Proofs

Checked by tlapm for every value of the constants, from the named assumptions of the
modules: ports are positive numbers, the default configuration is one, the two names for
every interface are addresses, "no group" and "no peer" are not a group or a peer,
clamping (`Normal`) is idempotent and leaves the port alone; descriptors are a finite set of
positive numbers and who is dialed is a peer; the era is positive; the base of the size
prefix is at least two and its width at least one, the four SLIP codes are different bytes,
packets are not empty (`encodeMessage` makes none that is); `oscChar` lets "a" and "p" through
and not "/"; a byte has two values at least, which differ, among them the letters of tags
and of "#bundle", none of which is NUL; addresses and strings have no NUL in them and
addresses begin with "/", blobs and packets are shorter than four bytes can say, and the time of a
bundle is not 0 and fits eight bytes (`effectiveTimetag` takes 1, immediate, for the least time). Bounds that are numbers (calls, timeouts, tries, messages, clock) may be any.

`EndpointProofs`
- `TypeCorrect`, `UdpMemory`, `TcpMemory`, `TrueMeansOpen`. The four invariants are
  inductive together: that `TcpKept` may report "no listener" when the remembered port is
  negative needs `TcpAgrees` and the types (a listening port is not negative); that an
  apply that keeps the UDP socket may answer true needs `UdpAgrees`. `UdpAgrees` compares
  port, address, group, interface and TTL with the socket's own (`UdpIs`); group and TTL may be
  left over only while a socket without a group, on an ephemeral port, has the place of the one
  that had them. That a send leaves them, and that an apply then takes the sender's socket for the
  listener, is what `FakeOpen` shows, so neither theorem claims the group of such a
  socket. The proof first says
  what any outcome of the UDP half (`UdpWorks`, `UdpBroken`) and of the TCP half
  (`TcpWorks`, `TcpBroken`) guarantees, then combines them per kind of apply.

- `AnswerHolds` includes that the accepted connections are cut by the framing they were accepted
  under: `TcpSame` compares the framing, and `listen` drops them. It says nothing of dialed
  ones (see the peculiarities).

`NetThreadProofs`
- `TypeCorrect`.
- `WakeupNeverLost`. `NoLostWakeup` is not inductive: a stop request may come between the
  check of `stop` and the check of the queue. `Covered` adds that window (`net = "more"`),
  and is inductive without any other fact.
- `CacheTellsTheTruth`. `CacheCoherent` needs to know that an answer with the caller's token
  is the last one there will be. `Tokens` says that the tokens of queued applies increase
  over both buffers, lie between the last one answered and the next one issued, and that the
  one being waited for carries the caller's configuration. With the newest token answered the
  interval is empty (`NothingLeft`).
- `OneQueue`: the step simulation from `NetThread` to `CommandQueue` under
  `todo <- batch \o cmds`; `QueueInv` adds that the batch is empty whenever the thread is not
  running it, so that `Swap` overwrites nothing.

`OscDeliveryProofs`
- `DeliveryTypes`, with `Places`: where the two sweeps stand in their vectors.
- `DeliveryExactlyOnce`. `ExactlyOnce` looks at four vectors, two of which are being rewritten.
  `Tally` says that the ids in them are apart from each other and make up all that has been
  received, less what cleanup dropped; the in-place sweep is `Kept \o Ahead` (before `keep`,
  from `i` on), so each step moves one message between two parts.
- `DeliveryNeverEarly`, under `OneEra`: tags and clock stay below the era. A tag is then the
  time it was made from (`Punctual`), and every reading of the clock is at most the latest
  time it ever showed (`Clocks`), which is why setting it back does no harm. The hypothesis
  is true of the run and of the program until NTP's rollover in 2036; without it the theorem is
  false of the code (see the peculiarities above).
- `DeliveryHeldInOrder`, under `TagsInEra` (tags only). `Order` adds that ids rise along
  `m_due` and along what is to come (`InOrder`), that what was held came before what is still
  in `taken` or `inbound`, that the sweep has kept only what was not due at its reading
  (`KeptNotDue`), and `Overtakes`: only a message of an earlier time passes one that waits.

- `DeliveryIsOneBox`, under `OneEra`: `OscDelivery` implements `TimedMailbox`, the three
  vectors being one set. The refinement adds to `Tally` that a step's message leaves the set for
  good (its id is apart from all others, `GivenAway`), and to `NeverEarly` that what is given was
  due at the latest time there was: the reading of the clock that let it go may be older.

`TcpPortProofs`
- `TcpTypes`, `TcpHandlesOwned`, `TcpOneStream`, `TcpNoSpin`. `Sound` says `HandlesOwned` of
  entries: the live ones have different descriptors, each an open socket to the entry's
  peer, and every socket that is neither free nor listening has one. `Lined` says why
  packets to a peer wait in one place: a peer was dialed once at most; of its accepted
  connections all but one are reset; nothing waits on an accepted one while a dialed one would
  be found first. The loops of `poll` and `flush` are one argument: a loop each of whose
  rounds changes its own entry `Tame`ly (`EachConn`, `RewriteIs`) keeps both, and so does the
  compaction (`SweepIs`). Accepting is the only step that breaks `Single` and mends it in the
  same turn (`AtMostReset`). `Calm`: after its round nothing of an entry is ready.

`SelfTestProofs`
- `SelfTestTypes`, `SelfTestGivesBack`, `SelfTestHearsItself`. `CallerIsBack` needs
  `LastAsked` (the newest request in the queue carries what the PODs say, or what they said
  before `sendPort` followed the bind, whatever applies were given up on) and `Home` (on every way out the PODs are back). `HeardItsOwn` needs `Rows`
  (which callback is registered at which step), `Mine` (what was heard is for that callback)
  and `SlipIsLater` (nothing of the SLIP leg travels before it begins: the size-prefix leg has
  the same callback).

`StreamFramingProofs`
- `FramingTypes`, `FramingFaithful`, `FramingPrompt`, for every base and width of the prefix.
  That no returned packet is empty follows from `FramingFaithful`.
  SLIP: `TakeSlipOver` says that decoding x and then y is decoding `x \o y`, so the invariant
  (`Slipped`) is that the decoder, given all that is on its way, will rest with the accepted
  packets. Size prefix: the digits of a length below `Power[Width]` are read as that length
  (`SizeOfDigits`), so the invariant (`Sized`) is that the frames of the packets to come begin
  where `acc` begins and follow each other to the end of `out`, and that none is complete in
  `acc`.

`CodecProofs`, of `InputsSpec`, the inputs of `Codec` less the patterns
- `BusHeard`: a leaf is hit by `/<app>/<leaf>`, `/<app>/<any id>/<leaf>` and nothing else, for all
  names and every address; `LeavesHear` is the same as `BusHears` states it.
  `ListenerKeepsSegment`: `addBusListener` takes the segment of a leaf and `busLeafMatches` takes
  it again. `BusAlwaysAnswers` for the names of any two hosts. A segment is never empty and has
  no "/", so an address has one reading.
- `MessagesRoundTrip`. `At` says where bytes lie in bytes. Each kind of argument is read
  where it was written (`ArgRead`, which needs the positions to be multiples of four: a string's
  padding counts from the start of the packet in `readString`, from its own in
  `writePaddedString`, `StringRead`). `Laid` says where `encodeMessage`'s loop
  put each argument, and `ArgsParsed` follows `parseArgs`' loop over them, the open arrays being
  counted on both sides (`DepthsAre`).
- `MessagesWhole`. What a reader finds in the front of the bytes it finds, at the same
  positions, in all of them (`StringMore`, `BlobMore`, `TagMore`, `WalkMore`). Were the front a
  message its arguments would end before the end of the whole, where those of the whole end
  (`Incomplete`).
- `BundlesMean`. That a bundle which is still open is read as what it says is not inductive: it
  says nothing of what follows, of the time around it, or of a call less deep. `LevelOK` is:
  the first `r` rounds of the loop over `b.bytes \o z`, for any `z` that may follow and any later
  time around it, push what it says and come to the end of `b.bytes` (`Reads`). An
  element is one round more (`ElementGrows`), an impossible size stops all rounds
  (`CutGrows`); when a bundle is closed it is an element of the one around it, and what is in it comes
  out with the later of the two times (`BundlePushes`, `AroundAround`). That `Parse[n]` is the same for
  every `n` not below the length is part of the induction (`Pushes`). The recursion itself is reached
  through `ParseIs`: the CHOOSE behind a recursive function has a value.

`SeqFilterProofs`
- `FilterPicks`, `FilterAll`: what the filtering loop leaves. The library's induction theorems
  take an operator and cannot be cited; `Least` (the smallest counterexample), `UpTo`
  (induction over a set of numbers) and `LoopIs` (a typed loop has a value) take its place, for
  recursive functions over the positions of a sequence.

Only model-checked:
- every liveness property (`Performed`, `CleanupEnds`, `Converges`, `Redialed`, `AllDelivered`,
  `Handled`, `Settles`): fairness and ENABLED are beyond the prover;
- `NoMiss`, `NoStray`: `OscPattern` and the meaning it is compared with are RECURSIVE operators over
  patterns with braces in braces, which the prover cannot reason about;
- the five counterexamples.

## Not modelled, and why

- Listeners that add or remove listeners while `dispatch` walks `m_listeners`: the iterator
  is invalid then, and no document says whether an application may do it.
- `applyCommandLine` writes the PODs once, from options: any `Edit` of `NetThread`. The PODs
  are plain data. The example is user interface.
- What a number, a colour or a MIDI message in an argument means: the codec copies its bytes.
- `TcpPort::discarded` and `m_ignoredPackets` as numbers: statistics. (A discard in `sendTo`
  is never added to `m_ignoredPackets`.)
- A flood that keeps the drain of a socket from ending, and data races on strings in the
  self-test: below the level of these models.
- `recvFrom`, `sendTo` and `waitSockets` of `UdpSocket`, and the differences between
  Windows and POSIX: I/O.

## Plan

Done: all modules of the table above; proofs of every safety invariant and action property
of the runs except the two about patterns, and of the refinements `OneQueue` and
`DeliveryIsOneBox`.

What is left:

1. The matcher as recursive functions over positions of pattern and address, so that `NoStray`
   can be proved for patterns without braces.
2. A statement of `Endpoint`'s four invariants as an abstract specification (what is remembered
   is what is open) that `Endpoint` implements, as `NetThread` implements `CommandQueue`.
3. `StreamFraming` as an implementation of a channel that hands over packets one by one:
   `Faithful` and `Prompt` say it in two invariants.
