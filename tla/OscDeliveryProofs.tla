-------------------------- MODULE OscDeliveryProofs ---------------------------
(***************************************************************************)
(* A received message is somewhere, once; it is not delivered before its   *)
(* time; and what flushDue held comes out in order: for every set of       *)
(* packets and every bound.  The in-place compaction and the swap only cut *)
(* and join sequences, so the proofs rest on how the ids of a joined       *)
(* sequence follow from those of its parts.                                *)
(***************************************************************************)
EXTENDS OscDelivery, SequenceTheorems, TLAPS

\* No two messages of s have the same id; and: the ids of s rise.
Once(s) == \A j, k \in 1 .. Len(s) : s[j].id = s[k].id => j = k
Rising(s) == \A j, k \in 1 .. Len(s) : j < k => s[j].id < s[k].id

USE EraAssumption, PacketsAssumption, BoundAssumption

-------------------------------------------------------------------------------
(* Sequences of messages.                                                  *)

\* Ids over the indices of a sequence instead of over its range.
LEMMA IdsOf ==
    ASSUME NEW s \in Seq(Msg)
    PROVE  Ids(s) = {s[k].id : k \in 1 .. Len(s)} /\ Ids(s) \subseteq Nat \ {0}
<1>1. DOMAIN s = 1 .. Len(s) /\ \A k \in 1 .. Len(s) : s[k] \in Msg
  OBVIOUS
<1>2. \A k \in 1 .. Len(s) : s[k].id \in Nat \ {0}
  BY <1>1 DEF Msg
<1> QED BY <1>1, <1>2 DEF Ids, Range

\* Where the elements of a joined sequence come from.
LEMMA Joined ==
    ASSUME NEW a \in Seq(Msg), NEW b \in Seq(Msg)
    PROVE  /\ a \o b \in Seq(Msg)
           /\ Len(a \o b) = Len(a) + Len(b)
           /\ \A k \in 1 .. Len(a) : (a \o b)[k] = a[k]
           /\ \A k \in 1 .. Len(b) : (a \o b)[Len(a) + k] = b[k]
           /\ \A k \in 1 .. Len(a) + Len(b) :
                 k \in 1 .. Len(a) \/ \E n \in 1 .. Len(b) : k = Len(a) + n
<1>1. Len(a) \in Nat /\ Len(b) \in Nat
  OBVIOUS
<1>2. ASSUME NEW k \in 1 .. Len(a) + Len(b), k \notin 1 .. Len(a)
      PROVE  \E n \in 1 .. Len(b) : k = Len(a) + n
  <2>1. k - Len(a) \in 1 .. Len(b) /\ k = Len(a) + (k - Len(a))
    BY <1>1, <1>2
  <2> QED BY <2>1
<1> QED BY <1>1, <1>2

\* The ids of a joined sequence are those of its parts.
LEMMA IdsConcat ==
    ASSUME NEW a \in Seq(Msg), NEW b \in Seq(Msg)
    PROVE  Ids(a \o b) = Ids(a) \cup Ids(b)
<1> DEFINE c == a \o b
<1>1. /\ Ids(a) = {a[k].id : k \in 1 .. Len(a)} /\ Ids(b) = {b[k].id : k \in 1 .. Len(b)}
      /\ Ids(c) = {c[k].id : k \in 1 .. Len(c)}
  BY IdsOf, Joined
<1>2. Len(c) = Len(a) + Len(b) /\ Len(a) \in Nat /\ Len(b) \in Nat
  BY Joined
<1>3. \A k \in 1 .. Len(a) : k \in 1 .. Len(c) /\ c[k].id = a[k].id
  BY Joined, <1>2
<1>4. \A k \in 1 .. Len(b) : Len(a) + k \in 1 .. Len(c) /\ c[Len(a) + k].id = b[k].id
  BY Joined, <1>2
<1>5. \A k \in 1 .. Len(c) : k \in 1 .. Len(a) \/ \E n \in 1 .. Len(b) : k = Len(a) + n
  BY Joined, <1>2
<1> HIDE DEF c
<1>6. ASSUME NEW k \in 1 .. Len(c) PROVE c[k].id \in Ids(a) \cup Ids(b)
  <2>1. CASE k \in 1 .. Len(a)
    BY <2>1, <1>1, <1>3
  <2>2. ASSUME NEW n \in 1 .. Len(b), k = Len(a) + n PROVE c[k].id \in Ids(b)
    BY <2>2, <1>1, <1>4
  <2> QED BY <2>1, <2>2, <1>5
<1>7. Ids(c) \subseteq Ids(a) \cup Ids(b)
  BY <1>1, <1>6
<1>8. Ids(a) \cup Ids(b) \subseteq Ids(c)
  BY <1>1, <1>3, <1>4
<1> QED BY <1>7, <1>8 DEF c

\* A joined sequence has no id twice when its parts have none twice and share
\* none.
LEMMA OnceConcat ==
    ASSUME NEW a \in Seq(Msg), NEW b \in Seq(Msg)
    PROVE  Once(a \o b) <=> Once(a) /\ Once(b) /\ Ids(a) \cap Ids(b) = {}
<1> DEFINE c == a \o b
<1>1. /\ Ids(a) = {a[k].id : k \in 1 .. Len(a)} /\ Ids(b) = {b[k].id : k \in 1 .. Len(b)}
  BY IdsOf
<1>2. Len(c) = Len(a) + Len(b) /\ Len(a) \in Nat /\ Len(b) \in Nat
  BY Joined
<1>3. \A k \in 1 .. Len(a) : k \in 1 .. Len(c) /\ c[k] = a[k]
  BY Joined, <1>2
<1>4. \A k \in 1 .. Len(b) : Len(a) + k \in 1 .. Len(c) /\ c[Len(a) + k] = b[k]
  BY Joined, <1>2
<1>5. \A k \in 1 .. Len(c) : k \in 1 .. Len(a) \/ \E n \in 1 .. Len(b) : k = Len(a) + n
  BY Joined, <1>2
<1> HIDE DEF c
<1>6. ASSUME Once(c) PROVE Once(a) /\ Once(b) /\ Ids(a) \cap Ids(b) = {}
  <2>1. Once(a)
    BY <1>6, <1>3 DEF Once
  <2>2. \A j, k \in 1 .. Len(b) : b[j].id = b[k].id => Len(a) + j = Len(a) + k
    BY <1>6, <1>4 DEF Once
  <2>3. Once(b)
    BY <2>2, <1>2 DEF Once
  <2>4. \A j \in 1 .. Len(a), k \in 1 .. Len(b) : a[j].id = b[k].id => j = Len(a) + k
    BY <1>6, <1>3, <1>4 DEF Once
  <2>5. \A j \in 1 .. Len(a), k \in 1 .. Len(b) : a[j].id # b[k].id
    BY <2>4, <1>2
  <2> QED BY <2>1, <2>3, <2>5, <1>1
<1>7. ASSUME Once(a), Once(b), Ids(a) \cap Ids(b) = {} PROVE Once(c)
  <2>1. \A j \in 1 .. Len(a), k \in 1 .. Len(b) : a[j].id # b[k].id
    BY <1>7, <1>1
  <2> SUFFICES ASSUME NEW j \in 1 .. Len(c), NEW k \in 1 .. Len(c), c[j].id = c[k].id
               PROVE  j = k
    BY DEF Once
  <2>2. ASSUME NEW x \in 1 .. Len(c), NEW y \in 1 .. Len(c), c[x].id = c[y].id,
               x \in 1 .. Len(a)
        PROVE  x = y
    <3>1. CASE y \in 1 .. Len(a)
      BY <3>1, <2>2, <1>3, <1>7 DEF Once
    <3>2. ASSUME NEW n \in 1 .. Len(b), y = Len(a) + n PROVE FALSE
      BY <3>2, <2>1, <2>2, <1>3, <1>4
    <3> QED BY <3>1, <3>2, <1>5
  <2>3. ASSUME NEW l \in 1 .. Len(b), NEW n \in 1 .. Len(b), j = Len(a) + l, k = Len(a) + n
        PROVE  j = k
    BY <2>3, <1>4, <1>7 DEF Once
  <2> QED BY <2>2, <2>3, <1>5
<1> QED BY <1>6, <1>7 DEF c

\* The ids of a joined sequence rise when those of its parts do and the first
\* part is below the second.
LEMMA RisingConcat ==
    ASSUME NEW a \in Seq(Msg), NEW b \in Seq(Msg)
    PROVE  Rising(a \o b) <=> /\ Rising(a) /\ Rising(b)
                              /\ \A x \in Ids(a), y \in Ids(b) : x < y
<1> DEFINE c == a \o b
<1>1. /\ Ids(a) = {a[k].id : k \in 1 .. Len(a)} /\ Ids(b) = {b[k].id : k \in 1 .. Len(b)}
  BY IdsOf
<1>2. Len(c) = Len(a) + Len(b) /\ Len(a) \in Nat /\ Len(b) \in Nat
  BY Joined
<1>3. \A k \in 1 .. Len(a) : k \in 1 .. Len(c) /\ c[k] = a[k]
  BY Joined, <1>2
<1>4. \A k \in 1 .. Len(b) : Len(a) + k \in 1 .. Len(c) /\ c[Len(a) + k] = b[k]
  BY Joined, <1>2
<1>5. \A k \in 1 .. Len(c) : k \in 1 .. Len(a) \/ \E n \in 1 .. Len(b) : k = Len(a) + n
  BY Joined, <1>2
<1> HIDE DEF c
<1>6. ASSUME Rising(c)
      PROVE  Rising(a) /\ Rising(b) /\ \A x \in Ids(a), y \in Ids(b) : x < y
  <2>1. Rising(a)
    BY <1>6, <1>3 DEF Rising
  <2>2. \A j, k \in 1 .. Len(b) : j < k => Len(a) + j < Len(a) + k
    BY <1>2
  <2>3. Rising(b)
    BY <1>6, <1>4, <2>2 DEF Rising
  <2>4. \A j \in 1 .. Len(a), k \in 1 .. Len(b) : j < Len(a) + k
    BY <1>2
  <2>5. \A j \in 1 .. Len(a), k \in 1 .. Len(b) : a[j].id < b[k].id
    BY <1>6, <1>3, <1>4, <2>4 DEF Rising
  <2> QED BY <2>1, <2>3, <2>5, <1>1
<1>7. ASSUME Rising(a), Rising(b), \A x \in Ids(a), y \in Ids(b) : x < y
      PROVE  Rising(c)
  <2>1. \A j \in 1 .. Len(a), k \in 1 .. Len(b) : a[j].id < b[k].id
    BY <1>7, <1>1
  <2> SUFFICES ASSUME NEW j \in 1 .. Len(c), NEW k \in 1 .. Len(c), j < k
               PROVE  c[j].id < c[k].id
    BY DEF Rising
  <2>2. CASE k \in 1 .. Len(a)
    <3>1. j \in 1 .. Len(a)
      BY <2>2, <1>2
    <3> QED BY <3>1, <2>2, <1>3, <1>7 DEF Rising
  <2>3. ASSUME NEW n \in 1 .. Len(b), k = Len(a) + n PROVE c[j].id < c[k].id
    <3>1. CASE j \in 1 .. Len(a)
      BY <3>1, <2>1, <2>3, <1>3, <1>4
    <3>2. ASSUME NEW l \in 1 .. Len(b), j = Len(a) + l PROVE c[j].id < c[k].id
      <4>1. l < n
        BY <3>2, <2>3, <1>2
      <4> QED BY <4>1, <3>2, <2>3, <1>4, <1>7 DEF Rising
    <3> QED BY <3>1, <3>2, <1>5
  <2> QED BY <2>2, <2>3, <1>5
<1> QED BY <1>6, <1>7 DEF c

\* A message alone, and none.
LEMMA Single ==
    ASSUME NEW m \in Msg
    PROVE  /\ <<m>> \in Seq(Msg) /\ Ids(<<m>>) = {m.id} /\ Once(<<m>>) /\ Rising(<<m>>)
           /\ m.id \in Nat \ {0}
<1>1. <<m>> \in Seq(Msg) /\ Len(<<m>>) = 1 /\ <<m>>[1] = m
  OBVIOUS
<1>2. Ids(<<m>>) = {<<m>>[k].id : k \in 1 .. 1}
  BY <1>1, IdsOf
<1> QED BY <1>1, <1>2 DEF Once, Rising, Msg

\* The empty sequence carries nothing.
LEMMA None ==
    <<>> \in Seq(Msg) /\ Ids(<<>>) = {} /\ Once(<<>>) /\ Rising(<<>>)
<1>1. <<>> \in Seq(Msg) /\ 1 .. Len(<<>>) = {}
  OBVIOUS
<1>2. Ids(<<>>) = {<<>>[k].id : k \in 1 .. Len(<<>>)}
  BY <1>1, IdsOf
<1>3. Ids(<<>>) = {}
  BY <1>1, <1>2
<1> QED BY <1>1, <1>3 DEF Once, Rising

-------------------------------------------------------------------------------
(* What the steps cut and join.                                            *)

\* The messages of a packet: numbered on from those received, in order.
LEMMA Packet ==
    ASSUME NEW p \in Packets, received \in Nat, packets \in Nat
    PROVE  /\ Parsed(p) \in Seq(Msg)
           /\ Len(Parsed(p)) = Len(p) /\ Len(p) \in Nat
           /\ Ids(Parsed(p)) = received + 1 .. received + Len(p)
           /\ Once(Parsed(p)) /\ Rising(Parsed(p))
<1> DEFINE q == Parsed(p)
<1>1. p \in Seq(Nat \cup {Immediate}) /\ DOMAIN p = 1 .. Len(p) /\ Len(p) \in Nat
  OBVIOUS
<1>2. \A t \in Nat \cup {Immediate} : Tag(t) \in Nat \cup {Immediate}
  BY DEF Tag
<1>3. \A k \in 1 .. Len(p) : p[k] \in Nat \cup {Immediate}
  BY <1>1
<1>4. \A k \in 1 .. Len(p) :
          [id |-> received + k, packet |-> packets + 1, at |-> p[k], time |-> Tag(p[k])] \in Msg
  <2> TAKE k \in 1 .. Len(p)
  <2>1. received + k \in Nat \ {0} /\ packets + 1 \in Nat \ {0}
    BY <1>1
  <2>2. p[k] \in Nat \cup {Immediate} /\ Tag(p[k]) \in Nat \cup {Immediate}
    BY <1>2, <1>3
  <2> QED BY <2>1, <2>2 DEF Msg
<1>5. q = [k \in 1 .. Len(p) |-> [id |-> received + k, packet |-> packets + 1,
                                  at |-> p[k], time |-> Tag(p[k])]]
  BY <1>1 DEF Parsed
<1>6. q \in Seq(Msg) /\ Len(q) = Len(p)
  BY <1>1, <1>4, <1>5
<1>7. \A k \in 1 .. Len(p) : q[k].id = received + k
  BY <1>5
<1>8. Ids(q) = {q[k].id : k \in 1 .. Len(p)}
  BY <1>6, IdsOf
<1> HIDE DEF q
<1>9. \A n \in received + 1 .. received + Len(p) :
          n - received \in 1 .. Len(p) /\ n = received + (n - received)
  BY <1>1
<1>10. Ids(q) \subseteq received + 1 .. received + Len(p)
  BY <1>1, <1>7, <1>8
<1>11. received + 1 .. received + Len(p) \subseteq Ids(q)
  BY <1>7, <1>8, <1>9
<1>12. Once(q) /\ Rising(q)
  BY <1>1, <1>6, <1>7 DEF Once, Rising
<1> QED BY <1>1, <1>6, <1>10, <1>11, <1>12 DEF q

\* The head of what is left to offer.
LEMMA HeadFirst ==
    ASSUME NEW s \in Seq(Msg), s # <<>>
    PROVE  Head(s) \in Msg /\ Tail(s) \in Seq(Msg) /\ s = <<Head(s)>> \o Tail(s)
OBVIOUS

\* The element flushDue looks at, cut off what it has not reached.
LEMMA Cut ==
    ASSUME NEW s \in Seq(Msg), NEW n \in 1 .. Len(s)
    PROVE  /\ s[n] \in Msg
           /\ SubSeq(s, n, Len(s)) = <<s[n]>> \o SubSeq(s, n + 1, Len(s))
           /\ SubSeq(s, n + 1, Len(s)) \in Seq(Msg)
<1>1. n \in Nat /\ Len(s) \in n .. Len(s) /\ \A k \in n + 1 .. Len(s) : s[k] \in Msg
  OBVIOUS
<1>2. SubSeq(s, n, Len(s)) = <<s[n]>> \o SubSeq(s, n + 1, Len(s))
  BY <1>1, SubSeqRecursiveFirst
<1>3. SubSeq(s, n + 1, Len(s)) \in Seq(Msg)
  BY <1>1, SubSeqProperties
<1> QED BY <1>2, <1>3

\* Moving an element forward, over those delivered, changes neither what was
\* kept before nor what is still to come.
LEMMA Compacted ==
    ASSUME NEW s \in Seq(Msg), NEW n \in 1 .. Len(s), NEW l \in Nat, l < n
    PROVE  LET t == [s EXCEPT ![l + 1] = s[n]] IN
           /\ t \in Seq(Msg) /\ Len(t) = Len(s)
           /\ SubSeq(t, 1, l + 1) = SubSeq(s, 1, l) \o <<s[n]>>
           /\ SubSeq(t, n + 1, Len(t)) = SubSeq(s, n + 1, Len(s))
<1> DEFINE t == [s EXCEPT ![l + 1] = s[n]]
<1>1. l + 1 \in 1 .. Len(s) /\ s[n] \in Msg
  OBVIOUS
<1>2. t \in Seq(Msg) /\ Len(t) = Len(s) /\ t[l + 1] = s[n]
      /\ \A k \in 1 .. Len(s) : k # l + 1 => t[k] = s[k]
  BY <1>1, ExceptSeq
<1> HIDE DEF t
<1>3. SubSeq(t, 1, l + 1) = SubSeq(t, 1, l) \o <<t[l + 1]>>
  <2>1. 1 \in 1 .. Len(t) /\ l + 1 \in 1 .. Len(t) /\ (l + 1) - 1 = l
    BY <1>1, <1>2
  <2> QED BY <1>2, <2>1, SubSeqRecursiveSecond
<1>4. SubSeq(t, 1, l) = SubSeq(s, 1, l)
  BY <1>1, <1>2, SubSeqProperties
<1>5. SubSeq(t, n + 1, Len(t)) = SubSeq(s, n + 1, Len(s))
  BY <1>2, SubSeqProperties
<1> QED BY <1>2, <1>3, <1>4, <1>5 DEF t

-------------------------------------------------------------------------------
(* Types.                                                                  *)

\* Where the loops are: flushDue keeps no more than it has passed, the local
\* inbound is used up between two updates, and only cleanup drops.
Places ==
    /\ pc = "flush" => i <= Len(due) + 1 /\ keep < i
    /\ pc # "offer" => taken = <<>>
    /\ open => dropped = {}

\* Nothing is held or taken at the start.
LEMMA PlacesInit == Init => TypeOK /\ Places
BY DEF Init, TypeOK, Places

\* Types, and where the sweep and the offers are, hold after every step.
LEMMA PlacesNext == TypeOK /\ Places /\ [Next]_vars => TypeOK' /\ Places'
<1> SUFFICES ASSUME TypeOK, Places, [Next]_vars PROVE TypeOK' /\ Places'
  OBVIOUS
<1> USE DEF TypeOK, Places
<1>1. CASE Tick
  BY <1>1 DEF Tick, flushVars, history
<1>2. CASE SetBack
  BY <1>2 DEF SetBack, flushVars, history
<1>3. ASSUME NEW p \in Packets, Arrive(p) PROVE TypeOK' /\ Places'
  <2>1. Parsed(p) \in Seq(Msg) /\ Len(p) \in Nat
    BY Packet
  <2>2. inbound' \in Seq(Msg)
    BY <1>3, <2>1 DEF Arrive
  <2> QED BY <1>3, <2>1, <2>2 DEF Arrive, flushVars, history
<1>4. CASE Update
  BY <1>4 DEF Update, flushVars, history
<1>5. CASE FlushDeliver
  <2>1. i \in 1 .. Len(due) /\ due[i] \in Msg
    BY <1>5 DEF FlushDeliver
  <2>2. delivered' \in Seq(Msg)
    BY <1>5, <2>1 DEF FlushDeliver, Deliver
  <2> QED BY <1>5, <2>1, <2>2 DEF FlushDeliver
<1>6. CASE FlushKeep
  <2>1. i \in 1 .. Len(due)
    BY <1>6 DEF FlushKeep
  <2>2. due' \in Seq(Msg) /\ Len(due') = Len(due)
    BY <1>6, <2>1, Compacted DEF FlushKeep
  <2>3. i' = i + 1 /\ keep' = keep + 1 /\ pc' = pc /\ keep < i /\ keep \in Nat
    BY <1>6 DEF FlushKeep
  <2>4. i' \in Nat \ {0} /\ keep' \in Nat /\ i' <= Len(due') + 1 /\ keep' < i'
    BY <2>1, <2>2, <2>3
  <2>5. Places'
    BY <1>6, <2>4 DEF FlushKeep, history
  <2> QED BY <1>6, <2>2, <2>4, <2>5 DEF FlushKeep, history
<1>7. CASE FlushEnd
  <2>1. keep <= Len(due)
    BY <1>7 DEF FlushEnd
  <2>2. due' \in Seq(Msg)
    BY <1>7, <2>1, SubSeqProperties DEF FlushEnd
  <2> QED BY <1>7, <2>2 DEF FlushEnd, flushVars, history
<1>8. CASE Swap
  BY <1>8 DEF Swap, flushVars, history
<1>9. CASE OfferDeliver
  <2>1. Head(taken) \in Msg /\ Tail(taken) \in Seq(Msg)
    BY <1>9, HeadFirst DEF OfferDeliver
  <2>2. delivered' \in Seq(Msg)
    BY <1>9, <2>1 DEF OfferDeliver, Deliver
  <2> QED BY <1>9, <2>1, <2>2 DEF OfferDeliver, flushVars
<1>10. CASE OfferHold
  <2>1. Head(taken) \in Msg /\ Tail(taken) \in Seq(Msg)
    BY <1>10, HeadFirst DEF OfferHold
  <2>2. due' \in Seq(Msg)
    BY <1>10, <2>1 DEF OfferHold
  <2>3. held' \subseteq Nat
    BY <1>10, <2>1 DEF OfferHold, Msg
  <2> QED BY <1>10, <2>1, <2>2, <2>3 DEF OfferHold, flushVars
<1>11. CASE OfferEnd
  BY <1>11 DEF OfferEnd, flushVars, history
<1>12. CASE Cleanup
  <2>1. dropped' \subseteq Nat /\ due' = <<>>
    BY <1>12, IdsOf DEF Cleanup
  <2> QED BY <1>12, <2>1 DEF Cleanup, flushVars
<1>13. CASE UNCHANGED vars
  BY <1>13 DEF vars, flushVars, history
<1> QED BY <1>1, <1>2, <1>3, <1>4, <1>5, <1>6, <1>7, <1>8, <1>9, <1>10, <1>11, <1>12, <1>13
        DEF Next, Sude

\* Types, and flushDue's indices inside m_due: `due[i]' is never read past the
\* end nor `due[keep + 1]' written there, whatever arrives while it sweeps.
THEOREM DeliveryTypes == Spec => [](TypeOK /\ Places)
<1> QED BY PlacesInit, PlacesNext, PTL DEF Spec

-------------------------------------------------------------------------------
(* Exactly once.                                                           *)

\* Four sequences that have no id twice and share none.
Apart(a, b, c, d) ==
    /\ Once(a) /\ Once(b) /\ Once(c) /\ Once(d)
    /\ Ids(a) \cap Ids(b) = {}
    /\ (Ids(a) \cup Ids(b)) \cap Ids(c) = {}
    /\ (Ids(a) \cup Ids(b) \cup Ids(c)) \cap Ids(d) = {}

\* Four sequences joined, as InFlight is.
LEMMA Four ==
    ASSUME NEW a \in Seq(Msg), NEW b \in Seq(Msg), NEW c \in Seq(Msg), NEW d \in Seq(Msg)
    PROVE  /\ a \o b \o c \o d \in Seq(Msg)
           /\ Ids(a \o b \o c \o d) = Ids(a) \cup Ids(b) \cup Ids(c) \cup Ids(d)
           /\ Once(a \o b \o c \o d) <=> Apart(a, b, c, d)
<1>1. /\ a \o b \in Seq(Msg)
      /\ Ids(a \o b) = Ids(a) \cup Ids(b)
      /\ Once(a \o b) <=> Once(a) /\ Once(b) /\ Ids(a) \cap Ids(b) = {}
  BY Joined, IdsConcat, OnceConcat
<1> DEFINE x == a \o b
<1> HIDE DEF x
<1>2. /\ x \o c \in Seq(Msg)
      /\ Ids(x \o c) = Ids(x) \cup Ids(c)
      /\ Once(x \o c) <=> Once(x) /\ Once(c) /\ Ids(x) \cap Ids(c) = {}
  BY <1>1, Joined, IdsConcat, OnceConcat DEF x
<1> DEFINE y == x \o c
<1> HIDE DEF y
<1>3. /\ y \o d \in Seq(Msg)
      /\ Ids(y \o d) = Ids(y) \cup Ids(d)
      /\ Once(y \o d) <=> Once(y) /\ Once(d) /\ Ids(y) \cap Ids(d) = {}
  BY <1>2, Joined, IdsConcat, OnceConcat DEF y
<1> QED BY <1>1, <1>2, <1>3 DEF Apart, x, y

\* What flushDue has kept, and what it has not reached.
Kept == SubSeq(due, 1, keep)
Ahead == SubSeq(due, i, Len(due))

\* The pieces of m_due are sequences of messages, in and out of the sweep.
LEMMA Parts ==
    ASSUME TypeOK, Places
    PROVE  /\ pc = "flush" => Kept \in Seq(Msg) /\ Ahead \in Seq(Msg)
           /\ Waiting \in Seq(Msg)
<1>1. CASE pc = "flush"
  <2>1. keep \in Int /\ i \in Int /\ Len(due) \in Int /\ keep <= Len(due) /\ i >= 1
    BY <1>1 DEF TypeOK, Places
  <2>2. \A k \in 1 .. Len(due) : due[k] \in Msg
    BY DEF TypeOK
  <2>3. Kept \in Seq(Msg)
    BY <2>1, <2>2, SubSeqProperties DEF Kept
  <2>4. Ahead \in Seq(Msg)
    BY <2>1, <2>2, SubSeqProperties DEF Ahead
  <2> QED BY <1>1, <2>3, <2>4, Joined DEF Waiting, Kept, Ahead
<1>2. CASE pc # "flush"
  BY <1>2 DEF Waiting, TypeOK
<1> QED BY <1>1, <1>2

\* While flushDue sweeps, what waits is what it kept and what is ahead.
LEMMA Sweeping ==
    ASSUME TypeOK, Places, pc = "flush"
    PROVE  /\ Waiting = Kept \o Ahead
           /\ i > Len(due) => Ahead = <<>> /\ Waiting = Kept
           /\ i <= Len(due) =>
                 /\ due[i] \in Msg
                 /\ Ahead = <<due[i]>> \o SubSeq(due, i + 1, Len(due))
                 /\ SubSeq(due, i + 1, Len(due)) \in Seq(Msg)
<1>1. Waiting = Kept \o Ahead
  BY DEF Waiting, Kept, Ahead
<1>2. ASSUME i > Len(due) PROVE Ahead = <<>> /\ Waiting = Kept
  <2>1. i \in Int /\ Len(due) \in Int
    BY DEF TypeOK
  <2>2. Ahead = <<>>
    BY <1>2, <2>1, SubSeqEmpty DEF Ahead
  <2> QED BY <1>1, <2>2, Parts, ConcatEmptySeq
<1>3. ASSUME i <= Len(due)
      PROVE  /\ due[i] \in Msg
             /\ Ahead = <<due[i]>> \o SubSeq(due, i + 1, Len(due))
             /\ SubSeq(due, i + 1, Len(due)) \in Seq(Msg)
  <2>1. i \in 1 .. Len(due) /\ due \in Seq(Msg)
    BY <1>3 DEF TypeOK
  <2> QED BY <2>1, Cut DEF Ahead
<1> QED BY <1>1, <1>2, <1>3

\* The sweep starts with everything ahead.
LEMMA WaitingUpdate ==
    ASSUME TypeOK, Places, Update
    PROVE  Waiting' = Waiting
<1>1. CASE due = <<>>
  BY <1>1 DEF Update, Waiting
<1>2. CASE due # <<>>
  <2>1. due' = due /\ i' = 1 /\ keep' = 0 /\ pc' = "flush" /\ Waiting = due
    BY <1>2 DEF Update, Waiting
  <2>2. Waiting' = SubSeq(due, 1, 0) \o SubSeq(due, 1, Len(due))
    BY <2>1 DEF Waiting
  <2>3. SubSeq(due, 1, 0) = <<>>
    BY SubSeqEmpty
  <2>4. SubSeq(due, 1, Len(due)) = due
    BY SubSeqFull DEF TypeOK
  <2> QED BY <2>1, <2>2, <2>3, <2>4, ConcatEmptySeq DEF TypeOK
<1> QED BY <1>1, <1>2

\* A delivered element leaves from between what is kept and what is ahead.
LEMMA WaitingDeliver ==
    ASSUME TypeOK, Places, FlushDeliver
    PROVE  /\ Kept' = Kept /\ Kept \in Seq(Msg)
           /\ Ahead = <<due[i]>> \o Ahead' /\ Ahead' \in Seq(Msg) /\ due[i] \in Msg
           /\ Waiting = Kept \o Ahead /\ Waiting' = Kept \o Ahead'
<1>1. pc = "flush" /\ pc' = "flush" /\ i <= Len(due) /\ due' = due /\ keep' = keep /\ i' = i + 1
  BY DEF FlushDeliver
<1>2. Ahead' = SubSeq(due, i + 1, Len(due)) /\ Kept' = Kept
  BY <1>1 DEF Ahead, Kept
<1>3. Waiting' = Kept' \o Ahead'
  BY <1>1 DEF Waiting, Kept, Ahead
<1> QED BY <1>1, <1>2, <1>3, Sweeping, Parts

\* A kept element moves from what is ahead to what is kept.
LEMMA WaitingKeep ==
    ASSUME TypeOK, Places, FlushKeep
    PROVE  /\ Kept' = Kept \o <<due[i]>> /\ Kept \in Seq(Msg) /\ due[i] \in Msg
           /\ Waiting' = Waiting
<1>1. pc = "flush" /\ pc' = "flush" /\ i <= Len(due) /\ keep' = keep + 1 /\ i' = i + 1
      /\ due' = [due EXCEPT ![keep + 1] = due[i]]
  BY DEF FlushKeep
<1>2. due \in Seq(Msg) /\ i \in 1 .. Len(due) /\ keep \in Nat /\ keep < i
  BY <1>1 DEF TypeOK, Places
<1>3. /\ SubSeq(due', 1, keep + 1) = Kept \o <<due[i]>>
      /\ SubSeq(due', i + 1, Len(due')) = SubSeq(due, i + 1, Len(due))
  BY <1>1, <1>2, Compacted DEF Kept
<1>4. Kept' = Kept \o <<due[i]>> /\ Ahead' = SubSeq(due, i + 1, Len(due))
  BY <1>1, <1>3 DEF Kept, Ahead
<1>5. Waiting' = Kept' \o Ahead'
  BY <1>1 DEF Waiting, Kept, Ahead
<1>6. Ahead = <<due[i]>> \o Ahead' /\ due[i] \in Msg /\ Ahead' \in Seq(Msg)
  BY <1>1, <1>4, Sweeping
<1>7. Waiting = Kept \o (<<due[i]>> \o Ahead')
  BY <1>1, <1>6, Sweeping
<1>8. Kept \in Seq(Msg) /\ <<due[i]>> \in Seq(Msg)
  BY <1>1, <1>6, Parts
<1>9. (Kept \o <<due[i]>>) \o Ahead' = Kept \o (<<due[i]>> \o Ahead')
  BY <1>6, <1>8, ConcatAssociative
<1> QED BY <1>4, <1>5, <1>6, <1>7, <1>8, <1>9

\* What the sweep leaves is what waited.
LEMMA WaitingEnd ==
    ASSUME TypeOK, Places, FlushEnd
    PROVE  Waiting' = Waiting
<1>1. Waiting' = Kept /\ Waiting = Kept
  BY Sweeping DEF FlushEnd, Waiting, Kept
<1> QED BY <1>1

\* A message found early goes to the end of what waits.
LEMMA WaitingHold ==
    ASSUME TypeOK, Places, OfferHold
    PROVE  /\ Waiting' = Waiting \o <<Head(taken)>>
           /\ Head(taken) \in Msg /\ Tail(taken) \in Seq(Msg) /\ taken' = Tail(taken)
           /\ taken = <<Head(taken)>> \o taken'
<1>1. Head(taken) \in Msg /\ Tail(taken) \in Seq(Msg) /\ taken = <<Head(taken)>> \o Tail(taken)
  BY HeadFirst DEF TypeOK, OfferHold
<1>2. due' = due \o <<Head(taken)>>
  BY <1>1, AppendIsConcat DEF OfferHold, TypeOK
<1> QED BY <1>1, <1>2 DEF OfferHold, Waiting

\* Where the messages are, and which: ExactlyOnce over the indices of InFlight.
Account ==
    /\ Once(InFlight)
    /\ Ids(InFlight) \cap dropped = {}
    /\ Ids(InFlight) \cup dropped = 1 .. received

\* The account is ExactlyOnce, said with the ids alone.
LEMMA AccountMeans ==
    ASSUME TypeOK, Places
    PROVE  Account <=> ExactlyOnce
<1>1. InFlight \in Seq(Msg)
  BY Parts, Four DEF InFlight, TypeOK
<1>2. DOMAIN InFlight = 1 .. Len(InFlight)
  BY <1>1
<1>3. IsInjective([k \in DOMAIN InFlight |-> InFlight[k].id]) <=> Once(InFlight)
  BY <1>2 DEF IsInjective, Once
<1> QED BY <1>3 DEF Account, ExactlyOnce

\* Account, part by part.
AllIds == Ids(delivered) \cup Ids(Waiting) \cup Ids(taken) \cup Ids(inbound)
Tally == /\ Apart(delivered, Waiting, taken, inbound)
         /\ AllIds \cap dropped = {}
         /\ AllIds \cup dropped = 1 .. received

\* The account may be drawn up place by place.
LEMMA ByParts == TypeOK /\ Places => (Account <=> Tally)
<1> SUFFICES ASSUME TypeOK, Places PROVE Account <=> Tally
  OBVIOUS
<1>1. /\ delivered \in Seq(Msg) /\ Waiting \in Seq(Msg) /\ taken \in Seq(Msg)
      /\ inbound \in Seq(Msg)
  BY Parts DEF TypeOK
<1>2. Ids(InFlight) = AllIds
  BY <1>1, Four DEF InFlight, AllIds
<1>3. Once(InFlight) <=> Apart(delivered, Waiting, taken, inbound)
  BY <1>1, Four DEF InFlight
<1> QED BY <1>2, <1>3 DEF Account, Tally

Books == TypeOK /\ Places /\ Tally

\* A step that moves no message between the four parts keeps the tally.
LEMMA TallySame ==
    ASSUME Books, AllIds' = AllIds, dropped' = dropped, received' = received,
           Apart(delivered, Waiting, taken, inbound)
              => Apart(delivered', Waiting', taken', inbound')
    PROVE  Tally'
BY DEF Books, Tally

\* The messages of a packet join inbound.
LEMMA TallyArrive ==
    ASSUME Books, NEW p \in Packets, Arrive(p)
    PROVE  Tally'
<1> DEFINE new == Parsed(p)
<1>1. received \in Nat /\ packets \in Nat /\ inbound \in Seq(Msg)
  BY DEF Books, TypeOK
<1>2. new \in Seq(Msg) /\ Once(new) /\ Len(p) \in Nat
      /\ Ids(new) = received + 1 .. received + Len(p)
  BY <1>1, Packet
<1>3. inbound' = inbound \o new /\ received' = received + Len(p) /\ dropped' = dropped
      /\ delivered' = delivered /\ taken' = taken /\ Waiting' = Waiting
  BY DEF Arrive, history, flushVars, Waiting
<1> HIDE DEF new
<1>4. Ids(inbound') = Ids(inbound) \cup Ids(new)
      /\ (Once(inbound') <=> Once(inbound) /\ Once(new) /\ Ids(inbound) \cap Ids(new) = {})
  BY <1>1, <1>2, <1>3, IdsConcat, OnceConcat
<1>5. (AllIds \cup dropped) \cap Ids(new) = {}
      /\ (AllIds \cup dropped) \cup Ids(new) = 1 .. received'
  BY <1>1, <1>2, <1>3 DEF Books, Tally
<1>6. AllIds' = AllIds \cup Ids(new)
  BY <1>3, <1>4 DEF AllIds
<1>7. Apart(delivered', Waiting', taken', inbound')
  BY <1>2, <1>3, <1>4, <1>5 DEF Apart, AllIds, Books, Tally
<1>8. AllIds' \cap dropped' = {} /\ AllIds' \cup dropped' = 1 .. received'
  BY <1>3, <1>5, <1>6 DEF Books, Tally
<1> QED BY <1>7, <1>8 DEF Tally

\* flushDue delivers a message from the middle of m_due.
LEMMA TallyFlushDeliver ==
    ASSUME Books, FlushDeliver
    PROVE  Tally'
<1> DEFINE e == <<due[i]>>
<1>1. /\ Kept \in Seq(Msg) /\ Ahead = e \o Ahead' /\ Ahead' \in Seq(Msg)
      /\ due[i] \in Msg /\ Waiting = Kept \o Ahead /\ Waiting' = Kept \o Ahead'
  BY WaitingDeliver DEF Books
<1>2. e \in Seq(Msg) /\ Once(e) /\ Ahead \in Seq(Msg)
  BY <1>1, Single, Joined
<1>3. delivered \in Seq(Msg) /\ delivered' = delivered \o e
  BY <1>1, AppendIsConcat DEF Books, TypeOK, FlushDeliver, Deliver
<1>4. taken' = taken /\ inbound' = inbound /\ dropped' = dropped /\ received' = received
  BY DEF FlushDeliver
<1> HIDE DEF e
<1>5. /\ Ids(Ahead) = Ids(e) \cup Ids(Ahead')
      /\ Once(Ahead) <=> Once(e) /\ Once(Ahead') /\ Ids(e) \cap Ids(Ahead') = {}
  BY <1>1, <1>2, IdsConcat, OnceConcat
<1>6. /\ Ids(Waiting) = Ids(Kept) \cup Ids(Ahead)
      /\ Once(Waiting) <=> Once(Kept) /\ Once(Ahead) /\ Ids(Kept) \cap Ids(Ahead) = {}
  BY <1>1, <1>2, IdsConcat, OnceConcat
<1>7. /\ Ids(Waiting') = Ids(Kept) \cup Ids(Ahead')
      /\ Once(Waiting') <=> Once(Kept) /\ Once(Ahead') /\ Ids(Kept) \cap Ids(Ahead') = {}
  BY <1>1, IdsConcat, OnceConcat
<1>8. /\ Ids(delivered') = Ids(delivered) \cup Ids(e)
      /\ Once(delivered') <=> Once(delivered) /\ Once(e) /\ Ids(delivered) \cap Ids(e) = {}
  BY <1>2, <1>3, IdsConcat, OnceConcat
<1>9. AllIds' = AllIds
  BY <1>4, <1>5, <1>6, <1>7, <1>8 DEF AllIds
<1>10. Apart(delivered, Waiting, taken, inbound) => Apart(delivered', Waiting', taken', inbound')
  BY <1>4, <1>5, <1>6, <1>7, <1>8 DEF Apart
<1> QED BY <1>4, <1>9, <1>10, TallySame

\* offer delivers the first of what was taken.
LEMMA TallyOfferDeliver ==
    ASSUME Books, OfferDeliver
    PROVE  Tally'
<1> DEFINE e == <<Head(taken)>>
<1>1. Head(taken) \in Msg /\ taken' \in Seq(Msg) /\ taken = e \o taken'
  BY HeadFirst DEF Books, TypeOK, OfferDeliver
<1>2. e \in Seq(Msg) /\ Once(e)
  BY <1>1, Single
<1>3. delivered \in Seq(Msg) /\ delivered' = delivered \o e
  BY <1>1, AppendIsConcat DEF Books, TypeOK, OfferDeliver, Deliver
<1>4. Waiting' = Waiting /\ inbound' = inbound /\ dropped' = dropped /\ received' = received
  BY DEF OfferDeliver, Waiting, flushVars
<1> HIDE DEF e
<1>5. /\ Ids(taken) = Ids(e) \cup Ids(taken')
      /\ Once(taken) <=> Once(e) /\ Once(taken') /\ Ids(e) \cap Ids(taken') = {}
  BY <1>1, <1>2, IdsConcat, OnceConcat
<1>6. /\ Ids(delivered') = Ids(delivered) \cup Ids(e)
      /\ Once(delivered') <=> Once(delivered) /\ Once(e) /\ Ids(delivered) \cap Ids(e) = {}
  BY <1>2, <1>3, IdsConcat, OnceConcat
<1>7. AllIds' = AllIds
  BY <1>4, <1>5, <1>6 DEF AllIds
<1>8. Apart(delivered, Waiting, taken, inbound) => Apart(delivered', Waiting', taken', inbound')
  BY <1>4, <1>5, <1>6 DEF Apart
<1> QED BY <1>4, <1>7, <1>8, TallySame

\* offer holds the first of what was taken.
LEMMA TallyOfferHold ==
    ASSUME Books, OfferHold
    PROVE  Tally'
<1> DEFINE e == <<Head(taken)>>
<1>1. /\ Waiting' = Waiting \o e /\ Head(taken) \in Msg /\ taken' \in Seq(Msg)
      /\ taken = e \o taken' /\ Waiting \in Seq(Msg)
  BY WaitingHold, Parts DEF Books
<1>2. e \in Seq(Msg) /\ Once(e)
  BY <1>1, Single
<1>3. delivered' = delivered /\ inbound' = inbound /\ dropped' = dropped /\ received' = received
  BY DEF OfferHold
<1> HIDE DEF e
<1>4. /\ Ids(taken) = Ids(e) \cup Ids(taken')
      /\ Once(taken) <=> Once(e) /\ Once(taken') /\ Ids(e) \cap Ids(taken') = {}
  BY <1>1, <1>2, IdsConcat, OnceConcat
<1>5. /\ Ids(Waiting') = Ids(Waiting) \cup Ids(e)
      /\ Once(Waiting') <=> Once(Waiting) /\ Once(e) /\ Ids(Waiting) \cap Ids(e) = {}
  BY <1>1, <1>2, IdsConcat, OnceConcat
<1>6. AllIds' = AllIds
  BY <1>3, <1>4, <1>5 DEF AllIds
<1>7. Apart(delivered, Waiting, taken, inbound) => Apart(delivered', Waiting', taken', inbound')
  BY <1>3, <1>4, <1>5 DEF Apart
<1> QED BY <1>3, <1>6, <1>7, TallySame

\* cleanup clears m_due, and that is what it drops.
LEMMA TallyCleanup ==
    ASSUME Books, Cleanup
    PROVE  Tally'
<1>1. pc = "idle" /\ dropped = {} /\ Waiting = due /\ dropped' = Ids(due) /\ Waiting' = <<>>
      /\ delivered' = delivered /\ taken' = taken /\ inbound' = inbound /\ received' = received
  BY DEF Cleanup, Waiting, Books, Places
<1>2. Apart(delivered', Waiting', taken', inbound')
  BY <1>1, None DEF Apart, Books, Tally
<1>3. AllIds' \cap dropped' = {}
  BY <1>1, None DEF AllIds, Apart, Books, Tally
<1>4. AllIds' \cup dropped' = 1 .. received'
  BY <1>1, None DEF AllIds, Books, Tally
<1> QED BY <1>2, <1>3, <1>4 DEF Tally

\* No step of update, of the socket thread or of cleanup loses or doubles a message.
LEMMA TallyNext == Books /\ [Next]_vars => Tally'
<1> SUFFICES ASSUME Books, [Next]_vars PROVE Tally'
  OBVIOUS
<1>1. ASSUME Waiting' = Waiting, delivered' = delivered, taken' = taken, inbound' = inbound,
             dropped' = dropped, received' = received
      PROVE  Tally'
  BY <1>1, TallySame DEF AllIds
<1>2. CASE Tick
  BY <1>1, <1>2 DEF Tick, flushVars, history, Waiting
<1>3. CASE SetBack
  BY <1>1, <1>3 DEF SetBack, flushVars, history, Waiting
<1>4. CASE Update
  BY <1>1, <1>4, WaitingUpdate DEF Update, history, Books
<1>5. CASE FlushKeep
  BY <1>1, <1>5, WaitingKeep DEF FlushKeep, history, Books
<1>6. CASE FlushEnd
  BY <1>1, <1>6, WaitingEnd DEF FlushEnd, history, Books
<1>7. CASE Swap
  <2>1. taken = <<>> /\ taken' = inbound /\ inbound' = <<>> /\ Waiting' = Waiting
        /\ delivered' = delivered /\ dropped' = dropped /\ received' = received
    BY <1>7 DEF Swap, Books, Places, Waiting, history, flushVars
  <2>2. AllIds' = AllIds
    BY <2>1, None DEF AllIds
  <2>3. Apart(delivered, Waiting, taken, inbound) => Apart(delivered', Waiting', taken', inbound')
    BY <2>1, None DEF Apart
  <2> QED BY <2>1, <2>2, <2>3, TallySame
<1>8. CASE OfferEnd
  BY <1>1, <1>8 DEF OfferEnd, flushVars, history, Waiting
<1>9. CASE UNCHANGED vars
  BY <1>1, <1>9 DEF vars, flushVars, history, Waiting
<1> QED BY <1>2, <1>3, <1>4, <1>5, <1>6, <1>7, <1>8, <1>9, TallyArrive, TallyFlushDeliver,
           TallyOfferDeliver, TallyOfferHold, TallyCleanup DEF Next, Sude

\* Every message received is on its way, held, delivered or dropped by cleanup,
\* in one place and once: flushDue's compaction in place, with its moved-from
\* holes and packets arriving meanwhile, loses, repeats and resurrects none.
THEOREM DeliveryExactlyOnce == Spec => []ExactlyOnce
<1>1. Init => Tally
  <2> SUFFICES ASSUME Init PROVE Tally
    OBVIOUS
  <2>1. delivered = <<>> /\ Waiting = <<>> /\ taken = <<>> /\ inbound = <<>>
        /\ dropped = {} /\ received = 0
    BY DEF Init, Waiting
  <2> QED BY <2>1, None DEF Tally, Apart, AllIds
<1>2. TypeOK /\ Places /\ Tally => ExactlyOnce
  BY ByParts, AccountMeans
<1> QED BY <1>1, <1>2, DeliveryTypes, TallyNext, PTL DEF Spec, Books

-------------------------------------------------------------------------------
(* Never early.                                                            *)

\* The tags stay within one era of NTP, and the clock too.  timetagCompare
\* compares the 64 bits and nothing else, so across a rollover the theorems
\* below are not true of the code: TLC refutes NeverEarly with Era = 2.
TagsInEra == \A p \in Packets : \A k \in DOMAIN p : p[k] < Era
OneEra == TagsInEra /\ MaxClock < Era

\* A message whose tag says when it was meant for.
Punctual == {m \in Msg : m.time = m.at}
AllPunctual == /\ inbound \in Seq(Punctual) /\ due \in Seq(Punctual)
               /\ taken \in Seq(Punctual) /\ delivered \in Seq(Punctual)

\* flushDue's reading of the clock is no later than any time the clock showed.
Clocks == clock <= peak /\ now <= peak

\* Within one era a timetag is the time it was made from.
LEMMA TagInEra ==
    /\ MaxClock < Era => \A t \in 0 .. MaxClock : Tag(t) = t
    /\ TagsInEra => \A p \in Packets : \A k \in DOMAIN p : Tag(p[k]) = p[k]
<1>1. \A t \in Nat : t < Era => t % Era = t
  OBVIOUS
<1>2. ASSUME TagsInEra, NEW p \in Packets, NEW k \in DOMAIN p PROVE Tag(p[k]) = p[k]
  <2>1. p[k] \in Nat \cup {Immediate} /\ p[k] < Era
    BY <1>2 DEF TagsInEra
  <2> QED BY <1>1, <2>1 DEF Tag
<1>3. ASSUME MaxClock < Era, NEW t \in 0 .. MaxClock PROVE Tag(t) = t
  <2>1. t \in Nat /\ t < Era
    BY <1>3
  <2> QED BY <1>1, <2>1 DEF Tag, Immediate
<1> QED BY <1>2, <1>3

\* What drainSockets queues in an era is punctual.
LEMMA PunctualPacket ==
    ASSUME TagsInEra, NEW p \in Packets, received \in Nat, packets \in Nat
    PROVE  Parsed(p) \in Seq(Punctual)
<1>1. Parsed(p) \in Seq(Msg)
  BY Packet
<1>2. \A k \in DOMAIN p : Parsed(p)[k].time = Parsed(p)[k].at
  BY TagInEra DEF Parsed
<1>3. DOMAIN p = DOMAIN Parsed(p)
  BY DEF Parsed
<1>4. \A k \in 1 .. Len(Parsed(p)) : Parsed(p)[k] \in Punctual
  BY <1>1, <1>2, <1>3 DEF Punctual
<1> QED BY <1>1, <1>4

\* Every message keeps the time it was encoded with.
LEMMA PunctualNext ==
    ASSUME TagsInEra, TypeOK, Places, AllPunctual, [Next]_vars
    PROVE  AllPunctual'
<1> USE DEF AllPunctual
<1>1. CASE Tick
  BY <1>1 DEF Tick, history
<1>2. CASE SetBack
  BY <1>2 DEF SetBack, history
<1>3. ASSUME NEW p \in Packets, Arrive(p) PROVE AllPunctual'
  <2>1. Parsed(p) \in Seq(Punctual)
    BY PunctualPacket DEF TypeOK
  <2>2. inbound' \in Seq(Punctual)
    BY <1>3, <2>1 DEF Arrive
  <2> QED BY <1>3, <2>2 DEF Arrive, history
<1>4. CASE Update
  BY <1>4 DEF Update, history
<1>5. CASE FlushDeliver
  <2>1. i \in 1 .. Len(due)
    BY <1>5 DEF FlushDeliver, TypeOK
  <2>2. delivered' \in Seq(Punctual)
    BY <1>5, <2>1 DEF FlushDeliver, Deliver
  <2> QED BY <1>5, <2>2 DEF FlushDeliver
<1>6. CASE FlushKeep
  <2>1. i \in 1 .. Len(due) /\ keep + 1 \in 1 .. Len(due)
    <3>1. i \in Nat \ {0} /\ keep \in Nat /\ keep < i /\ i <= Len(due) /\ Len(due) \in Nat
      BY <1>6 DEF FlushKeep, TypeOK, Places
    <3> QED BY <3>1
  <2>2. due' \in Seq(Punctual)
    BY <1>6, <2>1, ExceptSeq DEF FlushKeep
  <2> QED BY <1>6, <2>2 DEF FlushKeep, history
<1>7. CASE FlushEnd
  <2>1. keep \in Int /\ keep <= Len(due)
    BY <1>7 DEF FlushEnd, TypeOK, Places
  <2>2. due' \in Seq(Punctual)
    BY <1>7, <2>1, SubSeqProperties DEF FlushEnd
  <2> QED BY <1>7, <2>2 DEF FlushEnd, history
<1>8. CASE Swap
  BY <1>8 DEF Swap, history
<1>9. CASE OfferDeliver
  BY <1>9, HeadTailProperties, AppendProperties DEF OfferDeliver, Deliver
<1>10. CASE OfferHold
  BY <1>10, HeadTailProperties, AppendProperties DEF OfferHold
<1>11. CASE OfferEnd
  BY <1>11 DEF OfferEnd, history
<1>12. CASE Cleanup
  BY <1>12 DEF Cleanup, history
<1>13. CASE UNCHANGED vars
  BY <1>13 DEF vars, history
<1> QED BY <1>1, <1>2, <1>3, <1>4, <1>5, <1>6, <1>7, <1>8, <1>9, <1>10, <1>11, <1>12, <1>13
        DEF Next, Sude

\* The times of messages can be compared.
LEMMA AtInt == \A m \in Punctual : m.at \in Int
BY DEF Punctual, Msg, Immediate

\* A message found due by a reading of the clock was meant for no later.
LEMMA DueMeans ==
    ASSUME OneEra, NEW m \in Punctual, NEW t \in 0 .. MaxClock
    PROVE  /\ IsDue(m, t) => m.at <= t
           /\ ~IsDue(m, t) => m.at > t
<1>1. Tag(t) = t /\ t \in Nat
  BY TagInEra DEF OneEra
<1>2. m.time = m.at /\ m.time \in Nat \cup {-1}
  BY DEF Punctual, Msg, Immediate
<1> QED BY <1>1, <1>2 DEF IsDue, Immediate

\* Neither flushDue nor offer delivers a message before its time.
LEMMA EarlyNext ==
    ASSUME OneEra, TypeOK, TypeOK', Places, AllPunctual, Clocks, NeverEarly, [Next]_vars
    PROVE  Clocks' /\ NeverEarly'
<1>1. /\ clock \in 0 .. MaxClock /\ peak \in 0 .. MaxClock /\ now \in 0 .. MaxClock
      /\ delivered \in Seq(Punctual) /\ peak' \in Int
  BY DEF TypeOK, Clocks, AllPunctual
<1>2. ASSUME delivered' = delivered, peak' >= peak PROVE NeverEarly'
  <2>1. \A k \in DOMAIN delivered : delivered[k].at \in Int
    BY <1>1, AtInt
  <2> QED BY <1>1, <1>2, <2>1 DEF NeverEarly
<1>3. ASSUME NEW m \in Punctual, m.at <= peak, delivered' = Append(delivered, m), peak' = peak
      PROVE  NeverEarly'
  <2>1. /\ DOMAIN delivered' = 1 .. Len(delivered) + 1
        /\ \A k \in 1 .. Len(delivered) : delivered'[k] = delivered[k]
        /\ delivered'[Len(delivered) + 1] = m
    BY <1>1, <1>3, AppendProperties
  <2> QED BY <1>1, <1>3, <2>1 DEF NeverEarly
<1>4. CASE Tick
  BY <1>1, <1>2, <1>4 DEF Tick, Clocks, history, flushVars
<1>5. CASE SetBack
  BY <1>1, <1>2, <1>5 DEF SetBack, Clocks, history, flushVars
<1>6. ASSUME NEW p \in Packets, Arrive(p) PROVE Clocks' /\ NeverEarly'
  BY <1>1, <1>2, <1>6 DEF Arrive, Clocks, history, flushVars
<1>7. CASE Update
  BY <1>1, <1>2, <1>7 DEF Update, Clocks, history, flushVars
<1>8. CASE FlushDeliver
  <2>1. due[i] \in Punctual
    BY <1>8 DEF FlushDeliver, AllPunctual, TypeOK
  <2>2. due[i].at <= peak
    <3>1. due[i].at <= now /\ due[i].at \in Int /\ now <= peak
      BY <1>1, <1>8, <2>1, DueMeans, AtInt DEF FlushDeliver, Clocks
    <3> QED BY <1>1, <3>1
  <2> QED BY <1>3, <1>8, <2>1, <2>2 DEF FlushDeliver, Deliver, Clocks
<1>9. CASE FlushKeep
  BY <1>1, <1>2, <1>9 DEF FlushKeep, Clocks, history
<1>10. CASE FlushEnd
  BY <1>1, <1>2, <1>10 DEF FlushEnd, Clocks, history, flushVars
<1>11. CASE Swap
  BY <1>1, <1>2, <1>11 DEF Swap, Clocks, history, flushVars
<1>12. CASE OfferDeliver
  <2>1. Head(taken) \in Punctual
    BY <1>12, HeadTailProperties DEF OfferDeliver, AllPunctual
  <2>2. Head(taken).at <= peak
    <3>1. Head(taken).at <= clock /\ Head(taken).at \in Int /\ clock <= peak
      BY <1>1, <1>12, <2>1, DueMeans, AtInt DEF OfferDeliver, Clocks
    <3> QED BY <1>1, <3>1
  <2> QED BY <1>3, <1>12, <2>1, <2>2 DEF OfferDeliver, Deliver, Clocks, flushVars
<1>13. CASE OfferHold
  BY <1>1, <1>2, <1>13 DEF OfferHold, Clocks, flushVars
<1>14. CASE OfferEnd
  BY <1>1, <1>2, <1>14 DEF OfferEnd, Clocks, history, flushVars
<1>15. CASE Cleanup
  BY <1>1, <1>2, <1>15 DEF Cleanup, Clocks, flushVars
<1>16. CASE UNCHANGED vars
  BY <1>1, <1>2, <1>16 DEF vars, Clocks, history, flushVars
<1> QED BY <1>4, <1>5, <1>6, <1>7, <1>8, <1>9, <1>10, <1>11, <1>12, <1>13, <1>14, <1>15, <1>16
        DEF Next, Sude

\* No message is delivered before the clock has shown its time, although the
\* sweep works from an old reading and the clock may be set back under it.
THEOREM DeliveryNeverEarly ==
    ASSUME OneEra
    PROVE  Spec => []NeverEarly
<1>1. Init => AllPunctual /\ Clocks /\ NeverEarly
  BY DEF Init, AllPunctual, Clocks, NeverEarly
<1>2. TypeOK /\ TypeOK' /\ Places /\ AllPunctual /\ Clocks /\ NeverEarly /\ [Next]_vars
        => AllPunctual' /\ Clocks' /\ NeverEarly'
  BY PunctualNext, EarlyNext DEF OneEra
<1> QED BY <1>1, <1>2, DeliveryTypes, PTL DEF Spec

-------------------------------------------------------------------------------
(* Held in order.                                                          *)

Below(A, B) == \A x \in A, y \in B : x < y

\* What waits, was taken and is inbound is in order of arrival.
InOrder ==
    /\ Rising(Waiting) /\ Rising(taken) /\ Rising(inbound)
    /\ Below(Ids(Waiting), Ids(taken))
    /\ Below(Ids(Waiting), Ids(inbound))
    /\ Below(Ids(taken), Ids(inbound))

\* Only what came before everything still to be offered was ever held.
HeldBefore == Below(held, Ids(taken)) /\ Below(held, Ids(inbound)) /\ held \subseteq 1 .. received

\* What the sweep has kept was not due by its reading of the clock.
KeptNotDue == pc = "flush" => \A w \in Range(Kept) : ~IsDue(w, now)

\* A held message that overtook one still waiting was meant for earlier.
Overtakes == \A d \in Range(delivered), w \in Range(Waiting) :
                d.id \in held /\ w.id < d.id => d.at < w.at

\* The inductive invariant behind HeldInOrder.
Order == InOrder /\ HeldBefore /\ KeptNotDue /\ Overtakes /\ HeldInOrder

\* The messages of a joined sequence are those of its parts.
LEMMA RangeConcat ==
    ASSUME NEW a \in Seq(Msg), NEW b \in Seq(Msg)
    PROVE  Range(a \o b) = Range(a) \cup Range(b)
BY RangeConcatenation

\* A message alone is all of its sequence.
LEMMA RangeSingle ==
    ASSUME NEW m \in Msg
    PROVE  Range(<<m>>) = {m}
<1>1. DOMAIN <<m>> = {1} /\ <<m>>[1] = m
  OBVIOUS
<1> QED BY <1>1 DEF Range

\* A message of a sequence has one of its ids.
LEMMA RangeId ==
    ASSUME NEW s \in Seq(Msg)
    PROVE  /\ \A m \in Range(s) : m \in Msg /\ m.id \in Ids(s)
           /\ \A x \in Ids(s) : \E m \in Range(s) : m.id = x
BY DEF Ids, Range

\* The four sequences and their numbers.
LEMMA Numbers ==
    ASSUME Books
    PROVE  /\ delivered \in Seq(Msg) /\ Waiting \in Seq(Msg) /\ taken \in Seq(Msg)
           /\ inbound \in Seq(Msg) /\ received \in Nat /\ packets \in Nat
           /\ Ids(delivered) \subseteq 1 .. received /\ Ids(Waiting) \subseteq 1 .. received
           /\ Ids(taken) \subseteq 1 .. received /\ Ids(inbound) \subseteq 1 .. received
BY Parts DEF Books, TypeOK, Tally, AllIds

\* A step that leaves the queues alone leaves them in order.
LEMMA InOrderSame ==
    ASSUME InOrder, Waiting' = Waiting, taken' = taken, inbound' = inbound
    PROVE  InOrder'
BY DEF InOrder

\* What arrives is later than everything that is there.
LEMMA InOrderArrive ==
    ASSUME Books, InOrder, HeldBefore, NEW p \in Packets, Arrive(p)
    PROVE  InOrder' /\ HeldBefore'
<1> DEFINE new == Parsed(p)
<1>1. /\ Waiting \in Seq(Msg) /\ taken \in Seq(Msg) /\ inbound \in Seq(Msg)
      /\ received \in Nat /\ packets \in Nat
      /\ Ids(Waiting) \subseteq 1 .. received /\ Ids(taken) \subseteq 1 .. received
      /\ Ids(inbound) \subseteq 1 .. received
  BY Numbers
<1>2. new \in Seq(Msg) /\ Rising(new) /\ Len(p) \in Nat
      /\ Ids(new) = received + 1 .. received + Len(p)
  BY <1>1, Packet
<1>3. inbound' = inbound \o new /\ received' = received + Len(p)
      /\ taken' = taken /\ Waiting' = Waiting /\ held' = held
  BY DEF Arrive, history, flushVars, Waiting
<1> HIDE DEF new
<1>4. \A n \in 1 .. received, x \in Ids(new) : n < x
  BY <1>1, <1>2
<1>5. Ids(inbound') = Ids(inbound) \cup Ids(new)
  BY <1>1, <1>2, <1>3, IdsConcat
<1>6. Rising(inbound')
  BY <1>1, <1>2, <1>3, <1>4, RisingConcat DEF InOrder
<1>7. /\ Below(Ids(Waiting'), Ids(inbound')) /\ Below(Ids(taken'), Ids(inbound'))
      /\ Below(held', Ids(inbound'))
  BY <1>1, <1>3, <1>4, <1>5 DEF Below, InOrder, HeldBefore
<1>8. held' \subseteq 1 .. received'
  BY <1>1, <1>2, <1>3 DEF HeldBefore
<1> QED BY <1>3, <1>6, <1>7, <1>8 DEF InOrder, HeldBefore

\* What flushDue delivers leaves the rest in order.
LEMMA InOrderDeliver ==
    ASSUME Books, InOrder, FlushDeliver
    PROVE  /\ InOrder'
           /\ \A w \in Range(Waiting') :
                w \in Range(Waiting) /\ (w.id < due[i].id => w \in Range(Kept))
<1> DEFINE e == <<due[i]>>
<1>1. /\ Kept \in Seq(Msg) /\ Ahead = e \o Ahead' /\ Ahead' \in Seq(Msg)
      /\ due[i] \in Msg /\ Waiting = Kept \o Ahead /\ Waiting' = Kept \o Ahead'
  BY WaitingDeliver DEF Books
<1>2. e \in Seq(Msg) /\ Ids(e) = {due[i].id} /\ due[i].id \in Nat /\ Ahead \in Seq(Msg)
  BY <1>1, Single, Joined
<1>3. taken' = taken /\ inbound' = inbound
  BY DEF FlushDeliver
<1> HIDE DEF e
<1>4. Ids(Ahead) = Ids(e) \cup Ids(Ahead') /\ Ids(Waiting) = Ids(Kept) \cup Ids(Ahead)
      /\ Ids(Waiting') = Ids(Kept) \cup Ids(Ahead')
  BY <1>1, <1>2, IdsConcat
<1>5. Rising(Kept) /\ Rising(Ahead) /\ Below(Ids(Kept), Ids(Ahead))
  BY <1>1, <1>2, RisingConcat DEF InOrder, Below
<1>6. Rising(Ahead') /\ Below(Ids(e), Ids(Ahead'))
  BY <1>1, <1>2, <1>5, RisingConcat DEF Below
<1>7. Rising(Waiting')
  BY <1>1, <1>4, <1>5, <1>6, RisingConcat DEF Below
<1>8. InOrder'
  BY <1>3, <1>4, <1>7 DEF InOrder, Below
<1>9. /\ Range(Waiting) = Range(Kept) \cup Range(Ahead)
      /\ Range(Ahead) = Range(e) \cup Range(Ahead')
      /\ Range(Waiting') = Range(Kept) \cup Range(Ahead')
  BY <1>1, <1>2, RangeConcat
<1>10. \A w \in Range(Ahead') : w.id \in Nat /\ due[i].id < w.id
  BY <1>1, <1>2, <1>6, RangeId, IdsOf DEF Below
<1>11. \A w \in Range(Ahead') : ~(w.id < due[i].id)
  BY <1>2, <1>10
<1> QED BY <1>8, <1>9, <1>11

\* What offer delivers was never held.
LEMMA InOrderOffer ==
    ASSUME Books, InOrder, HeldBefore, OfferDeliver
    PROVE  InOrder' /\ HeldBefore' /\ Head(taken).id \notin held
<1> DEFINE e == <<Head(taken)>>
<1>1. Head(taken) \in Msg /\ taken' \in Seq(Msg) /\ taken = e \o taken'
  BY HeadFirst DEF Books, TypeOK, OfferDeliver
<1>2. e \in Seq(Msg) /\ Ids(e) = {Head(taken).id} /\ Head(taken).id \in Nat
  BY <1>1, Single
<1>3. Waiting' = Waiting /\ inbound' = inbound /\ held' = held /\ received' = received
  BY DEF OfferDeliver, Waiting, flushVars
<1> HIDE DEF e
<1>4. Ids(taken) = Ids(e) \cup Ids(taken') /\ Rising(taken')
  BY <1>1, <1>2, IdsConcat, RisingConcat DEF InOrder
<1>5. InOrder' /\ HeldBefore'
  BY <1>3, <1>4 DEF InOrder, HeldBefore, Below
<1>6. Head(taken).id \in Ids(taken) /\ ~(Head(taken).id < Head(taken).id)
  BY <1>2, <1>4
<1> QED BY <1>5, <1>6 DEF HeldBefore, Below

\* What offer holds goes behind what is held already.
LEMMA InOrderHold ==
    ASSUME Books, InOrder, HeldBefore, OfferHold
    PROVE  /\ InOrder' /\ HeldBefore'
           /\ Head(taken).id \notin Ids(delivered)
           /\ \A h \in held : h < Head(taken).id
<1> DEFINE e == <<Head(taken)>>
<1>1. /\ Waiting' = Waiting \o e /\ Head(taken) \in Msg /\ taken' \in Seq(Msg)
      /\ taken = e \o taken' /\ Waiting \in Seq(Msg)
  BY WaitingHold, Parts DEF Books
<1>2. /\ e \in Seq(Msg) /\ Ids(e) = {Head(taken).id} /\ Rising(e)
      /\ Head(taken).id \in Nat \ {0}
  BY <1>1, Single
<1>3. inbound' = inbound /\ held' = held \cup Ids(e) /\ received' = received
  BY <1>2 DEF OfferHold
<1> HIDE DEF e
<1>4. /\ Ids(taken) = Ids(e) \cup Ids(taken') /\ Rising(taken')
      /\ Below(Ids(e), Ids(taken'))
  BY <1>1, <1>2, IdsConcat, RisingConcat DEF InOrder, Below
<1>5. Ids(Waiting') = Ids(Waiting) \cup Ids(e)
  BY <1>1, <1>2, IdsConcat
<1>6. Below(Ids(Waiting), Ids(e))
  BY <1>4 DEF InOrder, Below
<1>7. Rising(Waiting')
  BY <1>1, <1>2, <1>6, RisingConcat DEF InOrder, Below
<1>8. InOrder'
  BY <1>3, <1>4, <1>5, <1>7 DEF InOrder, Below
<1>9. Ids(taken) \subseteq 1 .. received
  BY Numbers
<1>10. HeldBefore'
  BY <1>3, <1>4, <1>9 DEF HeldBefore, InOrder, Below
<1>11. Head(taken).id \in Ids(taken)
  BY <1>2, <1>4
<1>12. Head(taken).id \notin Ids(delivered)
  BY <1>11 DEF Books, Tally, Apart
<1> QED BY <1>8, <1>10, <1>11, <1>12 DEF HeldBefore, Below

\* One reading of the clock puts what it finds due before what it does not.
LEMMA DueFirst ==
    ASSUME NEW d \in Punctual, NEW w \in Punctual, now \in Nat, IsDue(d, now), ~IsDue(w, now)
    PROVE  d.at < w.at
<1>1. Tag(now) \in Nat
  BY DEF Tag, Immediate
<1>2. /\ d.time = d.at /\ d.time \in Nat \cup {-1}
      /\ w.time = w.at /\ w.time \in Nat \cup {-1}
  BY DEF Punctual, Msg, Immediate
<1> QED BY <1>1, <1>2 DEF IsDue, Immediate

\* What waits keeps its tags.
LEMMA PunctualParts ==
    ASSUME TypeOK, Places, AllPunctual
    PROVE  /\ \A w \in Range(Waiting) : w \in Punctual
           /\ pc = "flush" => \A w \in Range(Kept) : w \in Punctual
<1>1. \A k \in 1 .. Len(due) : due[k] \in Punctual
  BY DEF AllPunctual
<1>2. CASE pc = "flush"
  <2>1. keep \in Int /\ i \in Int /\ Len(due) \in Int /\ keep <= Len(due) /\ i >= 1
    BY <1>2 DEF TypeOK, Places
  <2>2. Kept \in Seq(Punctual) /\ Ahead \in Seq(Punctual)
    BY <1>1, <2>1, SubSeqProperties DEF Kept, Ahead
  <2>3. Kept \in Seq(Msg) /\ Ahead \in Seq(Msg) /\ Waiting = Kept \o Ahead
    BY <1>2, Parts, Sweeping
  <2>4. Range(Waiting) = Range(Kept) \cup Range(Ahead)
    BY <2>3, RangeConcat
  <2> QED BY <2>2, <2>4, RangeOfSeq
<1>3. CASE pc # "flush"
  BY <1>3, RangeOfSeq DEF Waiting, AllPunctual
<1> QED BY <1>2, <1>3

\* The history after one more message.
LEMMA OneMore ==
    ASSUME NEW m \in Msg, delivered \in Seq(Msg), delivered' = Append(delivered, m),
           held' = held, HeldInOrder,
           \A d \in Range(delivered) : d.id \in held /\ m.id \in held /\ m.id < d.id => d.at < m.at
    PROVE  HeldInOrder' /\ Range(delivered') = Range(delivered) \cup {m}
<1>1. /\ DOMAIN delivered' = 1 .. Len(delivered) + 1 /\ DOMAIN delivered = 1 .. Len(delivered)
      /\ \A k \in 1 .. Len(delivered) : delivered'[k] = delivered[k]
      /\ delivered'[Len(delivered) + 1] = m
      /\ Len(delivered) \in Nat
  BY AppendProperties
<1>2. Range(delivered') = Range(delivered) \cup {m}
  <2>1. delivered' = delivered \o <<m>>
    BY AppendIsConcat
  <2> QED BY <2>1, RangeConcat, RangeSingle, Single
<1>3. \A k \in 1 .. Len(delivered) : delivered[k] \in Range(delivered) /\ delivered[k].id \in Nat
  <2>1. \A k \in 1 .. Len(delivered) : delivered[k] \in Range(delivered)
    BY <1>1 DEF Range
  <2>2. \A k \in 1 .. Len(delivered) : delivered[k] \in Msg
    OBVIOUS
  <2> QED BY <2>1, <2>2 DEF Msg
<1>4. m.id \in Nat
  BY DEF Msg
<1>5. ASSUME NEW j \in DOMAIN delivered', NEW k \in DOMAIN delivered', j < k,
             delivered'[j].id > delivered'[k].id,
             {delivered'[j].id, delivered'[k].id} \subseteq held
      PROVE  delivered'[j].at < delivered'[k].at
  <2>1. j \in 1 .. Len(delivered)
    BY <1>1, <1>5
  <2>2. CASE k \in 1 .. Len(delivered)
    BY <1>1, <1>5, <2>1, <2>2 DEF HeldInOrder
  <2>3. CASE k = Len(delivered) + 1
    <3>1. m.id < delivered[j].id /\ delivered[j].id \in held /\ m.id \in held
      BY <1>1, <1>3, <1>4, <1>5, <2>1, <2>3
    <3> QED BY <1>1, <1>3, <2>1, <2>3, <3>1
  <2> QED BY <1>1, <2>2, <2>3
<1>6. HeldInOrder'
  BY <1>5 DEF HeldInOrder
<1> QED BY <1>2, <1>6

\* flushDue delivers: what it kept before, it kept because it was not due.
LEMMA OrderFlushDeliver ==
    ASSUME Books, AllPunctual, Order, FlushDeliver
    PROVE  Order'
<1>1. pc = "flush" /\ pc' = pc /\ now' = now /\ held' = held /\ taken' = taken
      /\ inbound' = inbound /\ received' = received
      /\ due[i] \in Msg /\ IsDue(due[i], now) /\ delivered' = Append(delivered, due[i])
      /\ delivered \in Seq(Msg) /\ now \in Nat /\ i \in 1 .. Len(due)
  BY DEF FlushDeliver, Deliver, Books, TypeOK
<1>2. due[i] \in Punctual /\ due[i] \in Range(Waiting) /\ Kept' = Kept
  <2>1. /\ Kept \in Seq(Msg) /\ Ahead = <<due[i]>> \o Ahead' /\ Ahead' \in Seq(Msg)
        /\ due[i] \in Msg /\ Waiting = Kept \o Ahead /\ Kept' = Kept
    BY WaitingDeliver DEF Books
  <2>2. Ahead \in Seq(Msg) /\ Range(Ahead) = {due[i]} \cup Range(Ahead')
    <3>1. <<due[i]>> \in Seq(Msg) /\ Range(<<due[i]>>) = {due[i]}
      BY <2>1, Single, RangeSingle
    <3>2. Range(<<due[i]>> \o Ahead') = Range(<<due[i]>>) \cup Range(Ahead')
      BY <2>1, <3>1, RangeConcat
    <3> QED BY <2>1, <3>1, <3>2, Joined
  <2>3. Range(Waiting) = Range(Kept) \cup Range(Ahead)
    BY <2>1, <2>2, RangeConcat
  <2>4. due[i] \in Punctual
    BY <1>1 DEF AllPunctual
  <2> QED BY <2>1, <2>2, <2>3, <2>4
<1>3. HeldInOrder' /\ Range(delivered') = Range(delivered) \cup {due[i]}
  BY <1>1, <1>2, OneMore DEF Order, Overtakes
<1>4. InOrder' /\ \A w \in Range(Waiting') :
          w \in Range(Waiting) /\ (w.id < due[i].id => w \in Range(Kept))
  BY InOrderDeliver DEF Order
<1>5. \A w \in Range(Kept) : w \in Punctual /\ ~IsDue(w, now)
  BY <1>1, PunctualParts DEF Order, KeptNotDue, Books
<1>6. Overtakes'
  <2> SUFFICES ASSUME NEW d \in Range(delivered'), NEW w \in Range(Waiting'),
                      d.id \in held', w.id < d.id
               PROVE  d.at < w.at
    BY DEF Overtakes
  <2>1. CASE d \in Range(delivered)
    BY <1>1, <1>4, <2>1 DEF Order, Overtakes
  <2>2. CASE d = due[i]
    BY <1>1, <1>2, <1>4, <1>5, <2>2, DueFirst
  <2> QED BY <1>3, <2>1, <2>2
<1>7. HeldBefore' /\ KeptNotDue'
  BY <1>1, <1>2 DEF Order, HeldBefore, KeptNotDue
<1> QED BY <1>3, <1>4, <1>6, <1>7 DEF Order

\* offer delivers a message that was never held.
LEMMA OrderOfferDeliver ==
    ASSUME Books, Order, OfferDeliver
    PROVE  Order'
<1>1. /\ Head(taken) \in Msg /\ delivered' = Append(delivered, Head(taken)) /\ held' = held
      /\ delivered \in Seq(Msg) /\ Waiting' = Waiting /\ pc' # "flush"
  BY HeadFirst DEF OfferDeliver, Deliver, Books, TypeOK, Waiting, flushVars
<1>2. InOrder' /\ HeldBefore' /\ Head(taken).id \notin held
  BY InOrderOffer DEF Order
<1>3. HeldInOrder' /\ Range(delivered') = Range(delivered) \cup {Head(taken)}
  BY <1>1, <1>2, OneMore DEF Order
<1>4. Overtakes'
  BY <1>1, <1>2, <1>3 DEF Order, Overtakes
<1> QED BY <1>1, <1>2, <1>3, <1>4 DEF Order, KeptNotDue

\* offer holds a message that came after all those held before it.
LEMMA OrderOfferHold ==
    ASSUME Books, Order, OfferHold
    PROVE  Order'
<1>1. /\ Waiting' = Waiting \o <<Head(taken)>> /\ Head(taken) \in Msg
      /\ Waiting \in Seq(Msg)
  BY WaitingHold, Parts DEF Books
<1>2. /\ delivered' = delivered /\ held' = held \cup {Head(taken).id} /\ pc' # "flush"
      /\ delivered \in Seq(Msg)
  BY DEF OfferHold, flushVars, Books, TypeOK
<1>3. /\ InOrder' /\ HeldBefore' /\ Head(taken).id \notin Ids(delivered)
      /\ \A h \in held : h < Head(taken).id
  BY InOrderHold DEF Order
<1>4. Range(Waiting') = Range(Waiting) \cup {Head(taken)}
  BY <1>1, Single, RangeConcat, RangeSingle
<1>5. \A d \in Range(delivered) : d.id \in held' => d.id \in held
  BY <1>2, <1>3, RangeId
<1>6. Overtakes'
  <2> SUFFICES ASSUME NEW d \in Range(delivered), NEW w \in Range(Waiting'),
                      d.id \in held', w.id < d.id
               PROVE  d.at < w.at
    BY <1>2 DEF Overtakes
  <2>1. CASE w \in Range(Waiting)
    BY <1>5, <2>1 DEF Order, Overtakes
  <2>2. CASE w = Head(taken)
    <3>1. d.id < w.id /\ d.id \in Nat /\ w.id \in Nat
      BY <1>1, <1>2, <1>3, <1>5, <2>2, RangeId DEF Msg
    <3> QED BY <3>1
  <2> QED BY <1>4, <2>1, <2>2
<1>7. HeldInOrder'
  <2>1. \A k \in DOMAIN delivered : delivered[k] \in Range(delivered)
    BY DEF Range
  <2> QED BY <1>2, <1>5, <2>1 DEF Order, HeldInOrder
<1> QED BY <1>2, <1>3, <1>6, <1>7 DEF Order, KeptNotDue

\* A step that neither delivers nor holds.
LEMMA OrderSame ==
    ASSUME Order, InOrder', HeldBefore', KeptNotDue', delivered' = delivered, held' = held,
           Range(Waiting') \subseteq Range(Waiting)
    PROVE  Order'
BY DEF Order, Overtakes, HeldInOrder

\* Every step keeps held messages in order.
LEMMA OrderNext == Books /\ AllPunctual /\ Order /\ [Next]_vars => Order'
<1> SUFFICES ASSUME Books, AllPunctual, Order, [Next]_vars PROVE Order'
  OBVIOUS
<1>1. InOrder /\ HeldBefore /\ KeptNotDue
  BY DEF Order
<1>2. ASSUME Waiting' = Waiting, delivered' = delivered, taken' = taken, inbound' = inbound,
             held' = held, received' = received, KeptNotDue'
      PROVE  Order'
  BY <1>1, <1>2, InOrderSame, OrderSame DEF HeldBefore
<1>3. CASE Tick
  BY <1>1, <1>2, <1>3 DEF Tick, flushVars, history, Waiting, KeptNotDue, Kept
<1>4. CASE SetBack
  BY <1>1, <1>2, <1>4 DEF SetBack, flushVars, history, Waiting, KeptNotDue, Kept
<1>5. ASSUME NEW p \in Packets, Arrive(p) PROVE Order'
  <2>1. InOrder' /\ HeldBefore'
    BY <1>1, <1>5, InOrderArrive
  <2>2. KeptNotDue' /\ delivered' = delivered /\ held' = held /\ Waiting' = Waiting
    BY <1>1, <1>5 DEF Arrive, flushVars, history, Waiting, KeptNotDue, Kept
  <2> QED BY <2>1, <2>2, OrderSame
<1>6. CASE Update
  <2>1. Waiting' = Waiting
    BY <1>6, WaitingUpdate DEF Books
  <2>2. KeptNotDue'
    <3>1. CASE pc' = "flush"
      <4>1. Kept' = <<>>
        BY <1>6, <3>1, SubSeqEmpty DEF Update, Kept
      <4> QED BY <4>1 DEF KeptNotDue, Range
    <3> QED BY <3>1 DEF KeptNotDue
  <2> QED BY <1>2, <1>6, <2>1, <2>2 DEF Update, history
<1>7. CASE FlushKeep
  <2>1. /\ Kept' = Kept \o <<due[i]>> /\ Kept \in Seq(Msg) /\ due[i] \in Msg
        /\ Waiting' = Waiting
    BY <1>7, WaitingKeep DEF Books
  <2>2. Range(Kept') = Range(Kept) \cup {due[i]}
    BY <2>1, Single, RangeConcat, RangeSingle
  <2>3. KeptNotDue'
    BY <1>1, <1>7, <2>2 DEF FlushKeep, KeptNotDue, IsDue
  <2> QED BY <1>2, <1>7, <2>1, <2>3 DEF FlushKeep, history
<1>8. CASE FlushEnd
  <2>1. Waiting' = Waiting
    BY <1>8, WaitingEnd DEF Books
  <2> QED BY <1>2, <1>8, <2>1 DEF FlushEnd, history, KeptNotDue
<1>9. CASE Swap
  <2>1. taken = <<>> /\ taken' = inbound /\ inbound' = <<>> /\ Waiting' = Waiting
        /\ delivered' = delivered /\ held' = held /\ received' = received /\ pc' = "offer"
    BY <1>9 DEF Swap, Books, Places, Waiting, history, flushVars
  <2>2. InOrder' /\ HeldBefore'
    BY <1>1, <2>1, None DEF InOrder, HeldBefore, Below
  <2> QED BY <2>1, <2>2, OrderSame DEF KeptNotDue
<1>10. CASE OfferEnd
  BY <1>2, <1>10 DEF OfferEnd, flushVars, history, Waiting, KeptNotDue
<1>11. CASE Cleanup
  <2>1. Waiting' = <<>> /\ delivered' = delivered /\ held' = held /\ received' = received
        /\ taken' = taken /\ inbound' = inbound /\ pc' = "idle"
    BY <1>11 DEF Cleanup, Waiting, flushVars
  <2>2. InOrder' /\ HeldBefore'
    BY <1>1, <2>1, None DEF InOrder, HeldBefore, Below
  <2>3. Range(Waiting') = {}
    BY <2>1 DEF Range
  <2> QED BY <2>1, <2>2, <2>3, OrderSame DEF KeptNotDue
<1>12. CASE UNCHANGED vars
  BY <1>1, <1>2, <1>12 DEF vars, flushVars, history, Waiting, KeptNotDue, Kept
<1> QED BY <1>3, <1>4, <1>5, <1>6, <1>7, <1>8, <1>9, <1>10, <1>11, <1>12, OrderFlushDeliver,
           OrderOfferDeliver, OrderOfferHold DEF Next, Sude

\* Two held messages come out as they came in, unless the later one was meant
\* for an earlier time: however the clock is set while they wait, and although
\* each sweep moves the kept ones over the holes of those it delivered.
THEOREM DeliveryHeldInOrder ==
    ASSUME TagsInEra
    PROVE  Spec => []HeldInOrder
<1>1. Init => Tally /\ AllPunctual /\ Order
  <2> SUFFICES ASSUME Init PROVE Tally /\ AllPunctual /\ Order
    OBVIOUS
  <2>1. delivered = <<>> /\ Waiting = <<>> /\ taken = <<>> /\ inbound = <<>>
        /\ due = <<>> /\ dropped = {} /\ received = 0 /\ held = {} /\ pc = "idle"
    BY DEF Init, Waiting
  <2>2. Tally
    BY <2>1, None DEF Tally, Apart, AllIds
  <2>3. AllPunctual
    BY <2>1 DEF AllPunctual
  <2>4. InOrder /\ HeldBefore /\ KeptNotDue
    BY <2>1, None DEF InOrder, HeldBefore, KeptNotDue, Below
  <2>5. Overtakes /\ HeldInOrder
    BY <2>1 DEF Overtakes, HeldInOrder, Range
  <2> QED BY <2>2, <2>3, <2>4, <2>5 DEF Order
<1>2. TypeOK /\ Places /\ AllPunctual /\ [Next]_vars => AllPunctual'
  BY PunctualNext
<1>3. Order => HeldInOrder
  BY DEF Order
<1> QED BY <1>1, <1>2, <1>3, DeliveryTypes, TallyNext, OrderNext, PTL DEF Spec, Books

-------------------------------------------------------------------------------
(* One box.                                                                *)

Box == Range(Waiting \o taken \o inbound)

\* The box is what is in the three places.
InThree == /\ Box = Range(Waiting) \cup Range(taken) \cup Range(inbound)
           /\ \A m \in Box : m.id \in Ids(Waiting) \cup Ids(taken) \cup Ids(inbound)
\* That holds of every state there is.
LEMMA BoxIs == Books => InThree
<1> SUFFICES ASSUME Books PROVE InThree
  OBVIOUS
<1>1. Waiting \in Seq(Msg) /\ taken \in Seq(Msg) /\ inbound \in Seq(Msg)
  BY Parts DEF Books, TypeOK
<1>2. Waiting \o taken \in Seq(Msg) /\ Range(Waiting \o taken) = Range(Waiting) \cup Range(taken)
  BY <1>1, Joined, RangeConcat
<1>3. Box = Range(Waiting \o taken) \cup Range(inbound)
  BY <1>1, <1>2, RangeConcat DEF Box
<1> QED BY <1>1, <1>2, <1>3, RangeId DEF InThree

\* What was delivered is not in the box.
Gone == \A k \in DOMAIN delivered : delivered[k] \notin Box
\* Nor may it be, as each id is in one place.
LEMMA GivenAway == Books => Gone
<1> SUFFICES ASSUME Books, NEW k \in DOMAIN delivered, delivered[k] \in Box PROVE FALSE
  BY DEF Gone
<1>1. delivered[k].id \in Ids(delivered)
  BY RangeId DEF Books, TypeOK, Range
<1>2. delivered[k].id \in Ids(Waiting) \cup Ids(taken) \cup Ids(inbound)
  BY BoxIs DEF InThree
<1> QED BY <1>1, <1>2 DEF Books, Tally, Apart

\* A message that left the box for a listener, and nothing else changed.
LEMMA GiveMaps ==
    ASSUME Books, Gone', NeverEarly', NEW m \in Msg, Box = Box' \cup {m},
           delivered' = Append(delivered, m), peak' = peak, open' = open
    PROVE  Mailbox!Give
<1>1. DOMAIN delivered' = 1 .. Len(delivered) + 1 /\ delivered'[Len(delivered) + 1] = m
      /\ Len(delivered) \in Nat
  BY AppendProperties DEF Books, TypeOK
<1>2. m \notin Box'
  BY <1>1 DEF Gone
<1>3. m.at <= peak
  BY <1>1 DEF NeverEarly
<1>4. m \in Box /\ Box' = Box \ {m}
  BY <1>2
<1> QED BY <1>3, <1>4 DEF Mailbox!Give, Box

\* The three places, what was delivered, the clock's peak and cleanup make a box;
\* its steps are the steps of update, of the socket thread and of cleanup.
LEMMA BoxNext ==
    ASSUME Books, InThree, InThree', Gone', NeverEarly', [Next]_vars
    PROVE  [Mailbox!Next]_(Mailbox!vars)
<1>1. /\ Waiting \in Seq(Msg) /\ taken \in Seq(Msg) /\ inbound \in Seq(Msg)
      /\ Box = Range(Waiting) \cup Range(taken) \cup Range(inbound)
      /\ Box' = Range(Waiting') \cup Range(taken') \cup Range(inbound')
  BY Parts DEF InThree, Books, TypeOK
<1>2. ASSUME Box' = Box, delivered' = delivered, peak' = peak, open' = open
      PROVE  UNCHANGED Mailbox!vars
  BY <1>2 DEF Mailbox!vars, Box
<1>3. CASE Tick
  <2>1. Box' = Box /\ delivered' = delivered /\ open' = open
    BY <1>1, <1>3 DEF Tick, history, flushVars, Waiting
  <2>2. peak \in Int /\ peak' \in Int /\ (peak' = peak \/ peak' > peak)
    BY <1>3 DEF Tick, Books, TypeOK
  <2>3. peak' > peak => Mailbox!Pass
    BY <2>1 DEF Mailbox!Pass, Box
  <2> QED BY <1>2, <2>1, <2>2, <2>3 DEF Mailbox!Next
<1>4. CASE SetBack
  BY <1>1, <1>2, <1>4 DEF SetBack, history, flushVars, Waiting
<1>5. ASSUME NEW p \in Packets, Arrive(p) PROVE Mailbox!Put
  <2>1. Parsed(p) \in Seq(Msg)
    BY Packet DEF Books, TypeOK
  <2>2. /\ Waiting' = Waiting /\ taken' = taken /\ delivered' = delivered /\ peak' = peak
        /\ open /\ open' = open /\ inbound' = inbound \o Parsed(p)
    BY <1>5 DEF Arrive, history, flushVars, Waiting
  <2>3. Box \subseteq Box'
    BY <1>1, <2>1, <2>2, RangeConcat
  <2>4. \A k \in DOMAIN delivered : delivered[k] \notin Box'
    BY <2>2 DEF Gone
  <2> QED BY <2>2, <2>3, <2>4 DEF Mailbox!Put, Box
<1>6. CASE Update
  BY <1>1, <1>2, <1>6, WaitingUpdate DEF Update, history, Books
<1>7. CASE FlushDeliver
  <2> DEFINE m == due[i]
  <2>1. /\ Kept \in Seq(Msg) /\ Ahead = <<m>> \o Ahead' /\ Ahead' \in Seq(Msg) /\ m \in Msg
        /\ Waiting = Kept \o Ahead /\ Waiting' = Kept \o Ahead'
    BY <1>7, WaitingDeliver DEF Books
  <2>2. /\ delivered' = Append(delivered, m) /\ peak' = peak /\ open' = open
        /\ taken' = taken /\ inbound' = inbound
    BY <1>7 DEF FlushDeliver, Deliver
  <2> HIDE DEF m
  <2>3. <<m>> \in Seq(Msg) /\ Range(<<m>>) = {m} /\ Ahead \in Seq(Msg)
    BY <2>1, RangeSingle, Joined
  <2>4. Range(Ahead) = {m} \cup Range(Ahead')
    BY <2>1, <2>3, RangeConcat
  <2>5. Range(Waiting) = Range(Kept) \cup Range(Ahead) /\ Range(Waiting') = Range(Kept) \cup Range(Ahead')
    BY <2>1, <2>3, RangeConcat
  <2>6. Box = Box' \cup {m}
    BY <1>1, <2>2, <2>4, <2>5
  <2> QED BY <2>1, <2>2, <2>6, GiveMaps DEF Mailbox!Next
<1>8. CASE FlushKeep
  BY <1>1, <1>2, <1>8, WaitingKeep DEF FlushKeep, history, Books
<1>9. CASE FlushEnd
  BY <1>1, <1>2, <1>9, WaitingEnd DEF FlushEnd, history, Books
<1>10. CASE Swap
  <2>1. taken = <<>> /\ taken' = inbound /\ inbound' = <<>> /\ Waiting' = Waiting
        /\ delivered' = delivered /\ peak' = peak /\ open' = open
    BY <1>10 DEF Swap, Books, Places, Waiting, history, flushVars
  <2>2. Box' = Box
    BY <1>1, <2>1
  <2> QED BY <1>2, <2>1, <2>2
<1>11. CASE OfferDeliver
  <2> DEFINE m == Head(taken)
  <2>1. m \in Msg /\ taken' \in Seq(Msg) /\ taken = <<m>> \o taken'
    BY <1>11, HeadFirst DEF Books, TypeOK, OfferDeliver
  <2>2. /\ delivered' = Append(delivered, m) /\ peak' = peak /\ open' = open
        /\ Waiting' = Waiting /\ inbound' = inbound
    BY <1>11 DEF OfferDeliver, Deliver, Waiting, flushVars
  <2> HIDE DEF m
  <2>3. <<m>> \in Seq(Msg) /\ Range(<<m>>) = {m}
    BY <2>1, RangeSingle
  <2>4. Range(taken) = Range(<<m>>) \cup Range(taken')
    BY <2>1, <2>3, RangeConcat
  <2>5. Box = Box' \cup {m}
    BY <1>1, <2>2, <2>3, <2>4
  <2> QED BY <2>1, <2>2, <2>5, GiveMaps DEF Mailbox!Next
<1>12. CASE OfferHold
  <2> DEFINE m == Head(taken)
  <2>1. /\ Waiting' = Waiting \o <<m>> /\ m \in Msg /\ taken' \in Seq(Msg)
        /\ taken = <<m>> \o taken'
    BY <1>12, WaitingHold DEF Books
  <2>2. delivered' = delivered /\ peak' = peak /\ open' = open /\ inbound' = inbound
    BY <1>12 DEF OfferHold
  <2> HIDE DEF m
  <2>3. <<m>> \in Seq(Msg) /\ Range(<<m>>) = {m}
    BY <2>1, RangeSingle
  <2>4. Range(taken) = Range(<<m>>) \cup Range(taken')
    BY <2>1, <2>3, RangeConcat
  <2>5. Range(Waiting') = Range(Waiting) \cup Range(<<m>>)
    BY <1>1, <2>1, <2>3, RangeConcat
  <2>6. Box' = Box
    BY <1>1, <2>2, <2>4, <2>5
  <2> QED BY <1>2, <2>2, <2>6
<1>13. CASE OfferEnd
  BY <1>1, <1>2, <1>13 DEF OfferEnd, history, flushVars, Waiting
<1>14. CASE Cleanup
  <2>1. /\ Waiting' = <<>> /\ taken' = taken /\ inbound' = inbound /\ delivered' = delivered
        /\ peak' = peak /\ open /\ ~open'
    BY <1>14 DEF Cleanup, Waiting
  <2>2. Range(Waiting') = {}
    BY <2>1 DEF Range
  <2>3. Box' \subseteq Box
    BY <1>1, <2>1, <2>2
  <2> QED BY <2>1, <2>3 DEF Mailbox!Close, Mailbox!Next, Box
<1>15. CASE UNCHANGED vars
  BY <1>1, <1>2, <1>15 DEF vars, history, flushVars, Waiting
<1> QED BY <1>3, <1>4, <1>5, <1>6, <1>7, <1>8, <1>9, <1>10, <1>11, <1>12, <1>13, <1>14, <1>15
        DEF Next, Sude, Mailbox!Next

\* Net::inbound, update's local vector and m_due with its sweep in place implement one
\* box out of which each message goes to the listeners once and not before its time.
THEOREM DeliveryIsOneBox ==
    ASSUME OneEra
    PROVE  Spec => OneBox
<1>1. Init => Tally /\ Mailbox!Init
  <2> SUFFICES ASSUME Init PROVE Tally /\ Mailbox!Init
    OBVIOUS
  <2>1. delivered = <<>> /\ Waiting = <<>> /\ taken = <<>> /\ inbound = <<>>
        /\ dropped = {} /\ received = 0 /\ peak = 0 /\ open = TRUE
    BY DEF Init, Waiting
  <2>2. Tally
    BY <2>1, None DEF Tally, Apart, AllIds
  <2>3. Waiting \o taken \o inbound = <<>>
    BY <2>1
  <2>4. Range(Waiting \o taken \o inbound) = {}
    BY <2>3 DEF Range
  <2> QED BY <2>1, <2>2, <2>4 DEF Mailbox!Init
<1>2. Books /\ InThree /\ InThree' /\ Gone' /\ NeverEarly' /\ [Next]_vars
        => [Mailbox!Next]_(Mailbox!vars)
  BY BoxNext
<1>3. Spec => []NeverEarly
  BY DeliveryNeverEarly
<1>4. Spec => []Books
  BY <1>1, DeliveryTypes, TallyNext, PTL DEF Spec, Books
<1> QED BY <1>1, <1>2, <1>3, <1>4, BoxIs, GivenAway, PTL DEF Spec, OneBox, Mailbox!Spec
===============================================================================
