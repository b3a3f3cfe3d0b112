----------------------------- MODULE OscDelivery ------------------------------
(***************************************************************************)
(* How a received message reaches a listener at its time.                  *)
(*                                                                         *)
(* The socket thread (drainSockets) appends what it parsed to Net::inbound *)
(* under Net::mu.  On the SUDE thread each update first sweeps m_due with  *)
(* one reading of the host clock, compacting it in place (flushDue), then  *)
(* swaps inbound out under the mutex and offers every message, reading the *)
(* clock afresh for each one.  Listeners run inside both loops, so time    *)
(* passes and packets arrive between any two of their iterations.          *)
(*                                                                         *)
(* A timetag is a 64-bit NTP stamp: seconds wrap every 2^32 of them, and   *)
(* timetagCompare knows nothing of eras.  Era is that modulus.             *)
(***************************************************************************)
EXTENDS Integers, Sequences, FiniteSets, Functions

CONSTANTS
    Era,            \* modulus of a timetag
    Packets,        \* packets that may arrive: the intended time of each message
    MaxClock,       \* bound: the host clock stops here
    MaxMsgs,        \* bound: messages received
    MaxBack         \* bound: times the host clock is set back

Immediate == -1     \* OscTimetag::immediate(), before every tag

ASSUME EraAssumption == Era \in Nat \ {0}
ASSUME PacketsAssumption == Packets \subseteq Seq(Nat \cup {Immediate})
ASSUME BoundAssumption == MaxClock \in Nat /\ MaxMsgs \in Nat /\ MaxBack \in Nat

\* OscRx: `at' is when the sender meant it to run, `time' what the tag can say.
Tag(t) == IF t = Immediate THEN Immediate ELSE t % Era
Msg == [id : Nat \ {0}, packet : Nat \ {0}, at : Nat \cup {Immediate},
        time : Nat \cup {Immediate}]

VARIABLES
    clock,          \* the host clock (system_clock, may be set back)
    inbound,        \* Net::inbound
    due,            \* m_due, moved-from elements included
    taken,          \* update's local inbound, the part not yet offered
    pc,             \* where update is
    i, keep, now,   \* flushDue's locals: elements before i are swept, keep are kept
    open,           \* FALSE after cleanup
    received,       \* messages received so far, in order
    packets,        \* packets received so far
    delivered,      \* history: messages handed to dispatch, in order
    held,           \* history: ids that went through m_due
    dropped,        \* history: ids cleanup threw away
    peak,           \* history: the latest time the clock ever showed
    back            \* times the clock was set back

flushVars == <<i, keep, now>>
history == <<delivered, held, dropped>>
vars == <<clock, inbound, due, taken, pc, flushVars, open, received, packets,
          history, peak, back>>

Ids(s) == {m.id : m \in Range(s)}

\* Types; flushDue's indices stay inside what they index.
TypeOK ==
    /\ clock \in 0 .. MaxClock
    /\ inbound \in Seq(Msg)
    /\ due \in Seq(Msg)
    /\ taken \in Seq(Msg)
    /\ pc \in {"idle", "flush", "swap", "offer"}
    /\ i \in Nat \ {0}
    /\ keep \in Nat
    /\ now \in Nat
    /\ open \in BOOLEAN
    /\ received \in 0 .. MaxMsgs
    /\ packets \in Nat
    /\ delivered \in Seq(Msg)
    /\ held \subseteq Nat
    /\ dropped \subseteq Nat
    /\ peak \in 0 .. MaxClock
    /\ back \in 0 .. MaxBack

Init ==
    /\ clock = 0
    /\ inbound = <<>>
    /\ due = <<>>
    /\ taken = <<>>
    /\ pc = "idle"
    /\ i = 1
    /\ keep = 0
    /\ now = 0
    /\ open = TRUE
    /\ received = 0
    /\ packets = 0
    /\ delivered = <<>>
    /\ held = {}
    /\ dropped = {}
    /\ peak = 0
    /\ back = 0

-------------------------------------------------------------------------------
(* The environment: the clock and the socket thread.                       *)

Tick ==
    /\ clock < MaxClock
    /\ clock' = clock + 1
    /\ peak' = IF clock' > peak THEN clock' ELSE peak
    /\ UNCHANGED <<inbound, due, taken, pc, flushVars, open, received, packets,
                   history, back>>

SetBack ==
    /\ back < MaxBack
    /\ clock > 0
    /\ clock' \in 0 .. clock - 1
    /\ back' = back + 1
    /\ UNCHANGED <<inbound, due, taken, pc, flushVars, open, received, packets,
                   history, peak>>

\* drainSockets: the messages of a packet, in bundle order, under the mutex.
Parsed(p) == [k \in DOMAIN p |-> [id |-> received + k, packet |-> packets + 1,
                                  at |-> p[k], time |-> Tag(p[k])]]
Arrive(p) ==
    /\ open
    /\ received + Len(p) <= MaxMsgs
    /\ inbound' = inbound \o Parsed(p)
    /\ received' = received + Len(p)
    /\ packets' = packets + 1
    /\ UNCHANGED <<clock, due, taken, pc, flushVars, open, history, peak, back>>

-------------------------------------------------------------------------------
(* The SUDE thread.                                                        *)

Deliver(m) == delivered' = Append(delivered, m)

\* Mutant of IsDue: a tick too early.
IsNearlyDue(m, at) == m.time = Immediate \/ m.time <= Tag(at) + 1

IsDue(m, at) == m.time = Immediate \/ m.time <= Tag(at)

\* Mutant of Update: the sweep starts one element before the first.
UpdateFromZero ==
    /\ pc = "idle"
    /\ IF due = <<>>
       THEN pc' = "swap" /\ UNCHANGED flushVars
       ELSE pc' = "flush" /\ i' = 0 /\ keep' = 0 /\ now' = clock
    /\ UNCHANGED <<clock, inbound, due, taken, open, received, packets, history,
                   peak, back>>

\* Mutant of Update: the clock is read once and for all.
UpdateByOldClock ==
    /\ pc = "idle"
    /\ IF due = <<>>
       THEN pc' = "swap" /\ UNCHANGED flushVars
       ELSE pc' = "flush" /\ i' = 1 /\ keep' = 0 /\ UNCHANGED now
    /\ UNCHANGED <<clock, inbound, due, taken, open, received, packets, history,
                   peak, back>>

Update ==
    /\ pc = "idle"
    /\ IF due = <<>>
       THEN pc' = "swap" /\ UNCHANGED flushVars
       ELSE pc' = "flush" /\ i' = 1 /\ keep' = 0 /\ now' = clock
    /\ UNCHANGED <<clock, inbound, due, taken, open, received, packets, history,
                   peak, back>>

\* One round of flushDue's loop; a delivered element stays behind, moved from.
FlushDeliver ==
    /\ pc = "flush"
    /\ i <= Len(due)
    /\ IsDue(due[i], now)
    /\ Deliver(due[i])
    /\ i' = i + 1
    /\ UNCHANGED <<clock, inbound, due, taken, pc, keep, now, open, received,
                   packets, held, dropped, peak, back>>

FlushKeep ==
    /\ pc = "flush"
    /\ i <= Len(due)
    /\ ~IsDue(due[i], now)
    /\ due' = [due EXCEPT ![keep + 1] = due[i]]
    /\ keep' = keep + 1
    /\ i' = i + 1
    /\ UNCHANGED <<clock, inbound, taken, pc, now, open, received, packets,
                   history, peak, back>>

\* Mutant of FlushEnd: m_due is not resized to what was kept.
FlushEndAsIs ==
    /\ pc = "flush"
    /\ i > Len(due)
    /\ pc' = "swap"
    /\ UNCHANGED <<clock, inbound, due, taken, flushVars, open, received, packets,
                   history, peak, back>>

FlushEnd ==
    /\ pc = "flush"
    /\ i > Len(due)
    /\ due' = SubSeq(due, 1, keep)
    /\ pc' = "swap"
    /\ UNCHANGED <<clock, inbound, taken, flushVars, open, received, packets,
                   history, peak, back>>

\* Mutant of Swap: inbound is copied, not swapped.
SwapCopies ==
    /\ pc = "swap"
    /\ taken' = inbound
    /\ pc' = "offer"
    /\ UNCHANGED <<clock, inbound, due, flushVars, open, received, packets, history,
                   peak, back>>

Swap ==
    /\ pc = "swap"
    /\ taken' = inbound
    /\ inbound' = <<>>
    /\ pc' = "offer"
    /\ UNCHANGED <<clock, due, flushVars, open, received, packets, history, peak,
                   back>>

\* offer, with timetagNow read for this message alone.
OfferDeliver ==
    /\ pc = "offer"
    /\ taken # <<>>
    /\ IsDue(Head(taken), clock)
    /\ Deliver(Head(taken))
    /\ taken' = Tail(taken)
    /\ UNCHANGED <<clock, inbound, due, pc, flushVars, open, received, packets,
                   held, dropped, peak, back>>

\* Mutant of OfferHold: held messages form a stack.
OfferHoldFirst ==
    /\ pc = "offer"
    /\ taken # <<>>
    /\ ~IsDue(Head(taken), clock)
    /\ due' = <<Head(taken)>> \o due
    /\ held' = held \cup {Head(taken).id}
    /\ taken' = Tail(taken)
    /\ UNCHANGED <<clock, inbound, pc, flushVars, open, received, packets,
                   delivered, dropped, peak, back>>

OfferHold ==
    /\ pc = "offer"
    /\ taken # <<>>
    /\ ~IsDue(Head(taken), clock)
    /\ due' = Append(due, Head(taken))
    /\ held' = held \cup {Head(taken).id}
    /\ taken' = Tail(taken)
    /\ UNCHANGED <<clock, inbound, pc, flushVars, open, received, packets,
                   delivered, dropped, peak, back>>

OfferEnd ==
    /\ pc = "offer"
    /\ taken = <<>>
    /\ pc' = "idle"
    /\ UNCHANGED <<clock, inbound, due, taken, flushVars, open, received, packets,
                   history, peak, back>>

\* cleanup: the socket thread is joined, m_due is cleared, inbound is not.
Cleanup ==
    /\ pc = "idle"
    /\ open
    /\ open' = FALSE
    /\ dropped' = Ids(due)
    /\ due' = <<>>
    /\ UNCHANGED <<clock, inbound, taken, pc, flushVars, received, packets,
                   delivered, held, peak, back>>

-------------------------------------------------------------------------------
Sude == \/ Update \/ FlushDeliver \/ FlushKeep \/ FlushEnd
        \/ Swap \/ OfferDeliver \/ OfferHold \/ OfferEnd

Next == Tick \/ SetBack \/ (\E p \in Packets : Arrive(p)) \/ Sude \/ Cleanup

Spec == Init /\ [][Next]_vars

\* The host calls update every frame, listeners return, time goes on.
FairSpec == Spec /\ WF_vars(Sude) /\ WF_vars(Tick)

-------------------------------------------------------------------------------
(* Properties.                                                             *)

\* The elements of m_due that hold a message: while flushDue sweeps, those it
\* kept and those it has not reached.
Waiting ==
    IF pc = "flush" THEN SubSeq(due, 1, keep) \o SubSeq(due, i, Len(due)) ELSE due

\* Every message received is in exactly one place, once: on its way, held,
\* delivered, or thrown away by cleanup.  The in-place compaction of flushDue
\* with its moved-from holes neither loses, repeats nor resurrects one.
InFlight == delivered \o Waiting \o taken \o inbound
ExactlyOnce ==
    /\ IsInjective([k \in DOMAIN InFlight |-> InFlight[k].id])
    /\ Ids(InFlight) \cap dropped = {}
    /\ Ids(InFlight) \cup dropped = 1 .. received

\* No message is delivered before its time, although flushDue works from a
\* reading of the clock that is old by the time it delivers, and although the
\* clock may be set back.
NeverEarly == \A k \in DOMAIN delivered : delivered[k].at <= peak

\* The two queues, the sweep in place and the readings of the clock are one box of
\* messages: every step puts new ones in, takes one that is due out for good, or does
\* nothing that a listener could tell; only cleanup throws any away.
Mailbox == INSTANCE TimedMailbox WITH
    time <- peak, box <- Range(Waiting \o taken \o inbound), given <- delivered,
    closed <- ~open
OneBox == Mailbox!Spec

\* Two messages that were both held come out in the order they came in, unless
\* the later one was meant for an earlier time; whatever the clock does.
HeldInOrder ==
    \A j, k \in DOMAIN delivered :
        /\ j < k
        /\ delivered[j].id > delivered[k].id
        /\ {delivered[j].id, delivered[k].id} \subseteq held
        => delivered[j].at < delivered[k].at

\* What the comment on class rigOsc says of a timed bundle: held until that
\* time, then delivered in order.
BundleInOrder ==
    \A j, k \in DOMAIN delivered :
        /\ j < k
        /\ delivered[j].packet = delivered[k].packet
        /\ delivered[j].at = delivered[k].at
        => delivered[j].id < delivered[k].id

\* Every message received is delivered, unless cleanup comes first: a held
\* message is found again by a later update, even after the clock was set back.
AllDelivered ==
    \A m \in 1 .. MaxMsgs : (received >= m) ~> (~open \/ m \in Ids(delivered))
===============================================================================
