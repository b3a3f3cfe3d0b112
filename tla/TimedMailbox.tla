----------------------------- MODULE TimedMailbox -----------------------------
(***************************************************************************)
(* What update promises the listeners about the messages the socket thread *)
(* has received, free of queues, sweeps and readings of the clock: there   *)
(* is one box; a message stays in it until its time has come, is given out *)
(* once, and never comes back.  Closing the box (cleanup) may throw        *)
(* messages away, and after it none is put in.                             *)
(***************************************************************************)
EXTENDS Integers, Sequences

VARIABLES
    time,               \* the latest time there was
    box,                \* messages, each with the time it is for (at)
    given,              \* messages given out, in order
    closed

vars == <<time, box, given, closed>>

Init ==
    /\ time = 0
    /\ box = {}
    /\ given = <<>>
    /\ closed = FALSE

Pass ==
    /\ time' > time
    /\ UNCHANGED <<box, given, closed>>

\* New messages: none that is there, none that was there before.
Put ==
    /\ ~closed
    /\ box \subseteq box'
    /\ \A k \in DOMAIN given : given[k] \notin box'
    /\ UNCHANGED <<time, given, closed>>

Give ==
    /\ \E m \in box :
        /\ m.at <= time
        /\ box' = box \ {m}
        /\ given' = Append(given, m)
    /\ UNCHANGED <<time, closed>>

Close ==
    /\ ~closed
    /\ closed' = TRUE
    /\ box' \subseteq box
    /\ UNCHANGED <<time, given>>

Next == Pass \/ Put \/ Give \/ Close

Spec == Init /\ [][Next]_vars
===============================================================================
