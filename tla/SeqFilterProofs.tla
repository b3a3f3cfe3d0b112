--------------------------- MODULE SeqFilterProofs ----------------------------
(***************************************************************************)
(* What the loop of SeqFilter leaves, for every sequence and every set:    *)
(* the elements of the set, each at a later place than the one before it.  *)
(* The library's induction cannot be cited, so it comes from the smallest   *)
(* counterexample: UpTo is induction over a set of numbers, and LoopIs says *)
(* that a loop with an invariant can be defined by recursion.               *)
(***************************************************************************)
EXTENDS SeqFilter, Integers, WellFoundedInduction, SequenceTheorems, TLAPS

\* A set of natural numbers that is not empty has a least one.
LEMMA Least ==
    ASSUME NEW T \in SUBSET Nat, T # {}
    PROVE  \E n \in T : \A m \in T : n <= m
<1> DEFINE R == OpToRel(<, Nat)
<1>1. IsWellFoundedOn(R, Nat)
  BY NatLessThanWellFounded
<1>2. \A x, y \in Nat : <<y, x>> \in R <=> y < x
  BY DEF OpToRel
<1> HIDE DEF R
<1>3. PICK x \in T : \A y \in T : ~(<<y, x>> \in R)
  BY <1>1, WFMin
<1>4. \A y \in T : ~(y < x)
  BY <1>2, <1>3
<1> QED BY <1>4

\* Induction, with the set of the numbers up to N that are good.
LEMMA UpTo ==
    ASSUME NEW N \in Nat, NEW T, 0 \in T, \A n \in 1 .. N : n - 1 \in T => n \in T
    PROVE  \A n \in 0 .. N : n \in T
<1> SUFFICES ASSUME \E n \in 0 .. N : n \notin T PROVE FALSE
  OBVIOUS
<1> DEFINE bad == {n \in 0 .. N : n \notin T}
<1>1. bad \in SUBSET Nat /\ bad # {}
  OBVIOUS
<1>2. PICK n \in bad : \A m \in bad : n <= m
  BY <1>1, Least
<1>3. n # 0 /\ n \in 0 .. N /\ n \notin T
  BY <1>2
<1>4. n \in 1 .. N /\ n - 1 \in 0 .. N /\ n - 1 \notin bad
  BY <1>2, <1>3
<1> QED BY <1>3, <1>4

\* A loop of N rounds, the n-th of them F[n], that begins with b.
IsLoop(L, b, F, N) == L[0] = b /\ \A n \in 1 .. N : L[n] = F[n][L[n - 1]]

\* There is one, and it stays in the set of what it works on.
LEMMA LoopIs ==
    ASSUME NEW N \in Nat, NEW S, NEW b \in S, NEW F \in [1 .. N -> [S -> S]]
    PROVE  \E L \in [0 .. N -> S] : IsLoop(L, b, F, N)
<1> DEFINE T == {n \in 0 .. N : \E L \in [0 .. n -> S] : IsLoop(L, b, F, n)}
<1>1. 0 \in T
  <2>1. [k \in 0 .. 0 |-> b] \in [0 .. 0 -> S]
    OBVIOUS
  <2>2. IsLoop([k \in 0 .. 0 |-> b], b, F, 0)
    BY DEF IsLoop
  <2> QED BY <2>1, <2>2
<1>2. ASSUME NEW n \in 1 .. N, n - 1 \in T PROVE n \in T
  <2>1. PICK L \in [0 .. n - 1 -> S] : IsLoop(L, b, F, n - 1)
    BY <1>2
  <2>2. L[0] = b /\ \A k \in 1 .. n - 1 : L[k] = F[k][L[k - 1]]
    BY <2>1 DEF IsLoop
  <2>3. n \in Nat /\ n - 1 \in 0 .. n - 1 /\ n \in 0 .. N
    OBVIOUS
  <2> DEFINE last == F[n][L[n - 1]]
             M == [k \in 0 .. n |-> IF k = n THEN last ELSE L[k]]
  <2>4. last \in S
    BY <2>1, <2>3
  <2>5. M \in [0 .. n -> S]
    BY <2>1, <2>4
  <2>6. M[n] = last /\ \A k \in 0 .. n - 1 : M[k] = L[k]
    BY <2>3
  <2> HIDE DEF M
  <2>7. M[0] = b
    BY <2>2, <2>3, <2>6
  <2>8. \A k \in 1 .. n : M[k] = F[k][M[k - 1]]
    <3> TAKE k \in 1 .. n
    <3>1. CASE k = n
      BY <2>3, <2>6, <3>1
    <3>2. CASE k # n
      <4>1. k \in 1 .. n - 1 /\ k - 1 \in 0 .. n - 1 /\ k \in 0 .. n - 1
        BY <3>2
      <4> QED BY <2>2, <2>6, <4>1
    <3> QED BY <3>1, <3>2
  <2>9. IsLoop(M, b, F, n)
    BY <2>7, <2>8 DEF IsLoop
  <2> QED BY <2>3, <2>5, <2>9
<1> HIDE DEF T
<1>3. \A n \in 1 .. N : n - 1 \in T => n \in T
  BY <1>2
<1>4. \A n \in 0 .. N : n \in T
  BY <1>1, <1>3, UpTo
<1>5. N \in T
  BY <1>4
<1> QED BY <1>5 DEF T

-------------------------------------------------------------------------------
(* Filter.                                                                 *)

\* The loop: what it has kept of s after n elements.
Loops(kept, s, P) ==
    kept = [n \in 0 .. Len(s) |->
               IF n = 0 THEN <<>>
               ELSE IF s[n] \in P THEN Append(kept[n - 1], s[n]) ELSE kept[n - 1]]

\* The loop for the first l elements.
LoopsTo(g, s, P, l) ==
    g = [n \in 0 .. l |->
            IF n = 0 THEN <<>>
            ELSE IF s[n] \in P THEN Append(g[n - 1], s[n]) ELSE g[n - 1]]

\* There is such a loop, so the function that Filter chooses is one.
LEMMA LoopExists ==
    ASSUME NEW s, NEW P, Len(s) \in Nat
    PROVE  \E kept : Loops(kept, s, P)
<1>1. \A l \in Nat : \E g : LoopsTo(g, s, P, l)
  <2> SUFFICES ASSUME \E l \in Nat : ~\E g : LoopsTo(g, s, P, l) PROVE FALSE
    OBVIOUS
  <2> DEFINE bad == {l \in Nat : ~\E g : LoopsTo(g, s, P, l)}
  <2>1. PICK l \in bad : \A m \in bad : l <= m
    BY Least
  <2>2. CASE l = 0
    <3>1. LoopsTo([n \in 0 .. 0 |-> <<>>], s, P, 0)
      BY DEF LoopsTo
    <3> QED BY <2>1, <2>2, <3>1
  <2>3. CASE l # 0
    <3>1. l - 1 \in Nat /\ l - 1 \notin bad
      BY <2>1, <2>3
    <3>2. PICK g : LoopsTo(g, s, P, l - 1)
      BY <3>1
    <3> DEFINE last == IF s[l] \in P THEN Append(g[l - 1], s[l]) ELSE g[l - 1]
               h == [n \in 0 .. l |-> IF n = l THEN last ELSE g[n]]
    <3>3. \A n \in 0 .. l - 1 :
              g[n] = IF n = 0 THEN <<>>
                     ELSE IF s[n] \in P THEN Append(g[n - 1], s[n]) ELSE g[n - 1]
      BY <3>2 DEF LoopsTo
    <3>4. /\ \A n \in 0 .. l - 1 : h[n] = g[n]
          /\ h[l] = last
      BY <3>1
    <3>5. \A n \in 0 .. l :
              h[n] = IF n = 0 THEN <<>>
                     ELSE IF s[n] \in P THEN Append(h[n - 1], s[n]) ELSE h[n - 1]
      <4> TAKE n \in 0 .. l
      <4>1. CASE n = l
        BY <3>1, <3>4, <4>1, <2>3
      <4>2. CASE n # l
        <5>1. n \in 0 .. l - 1 /\ (n # 0 => n - 1 \in 0 .. l - 1)
          BY <3>1, <4>2
        <5> QED BY <3>3, <3>4, <5>1
      <4> QED BY <4>1, <4>2
    <3>6. h = [n \in 0 .. l |->
                  IF n = 0 THEN <<>>
                  ELSE IF s[n] \in P THEN Append(h[n - 1], s[n]) ELSE h[n - 1]]
      BY <3>5
    <3>7. LoopsTo(h, s, P, l)
      BY <3>6 DEF LoopsTo
    <3> QED BY <2>1, <3>7
  <2> QED BY <2>2, <2>3
<1> QED BY <1>1 DEF Loops, LoopsTo

\* What the loop has kept after n elements, f saying where it was.
Picks(r, f, s, P, n) ==
    /\ f \in [1 .. Len(r) -> 1 .. n]
    /\ \A k \in 1 .. Len(r) : r[k] = s[f[k]] /\ s[f[k]] \in P
    /\ \A j, k \in 1 .. Len(r) : j < k => f[j] < f[k]
    /\ \A i \in 1 .. n : s[i] \in P => \E k \in 1 .. Len(r) : f[k] = i

\* Filter keeps the elements of P, all of them, and their order.
THEOREM FilterPicks ==
    ASSUME NEW S, NEW s \in Seq(S), NEW P
    PROVE  /\ Filter(s, P) \in Seq(S)
           /\ \E f : Picks(Filter(s, P), f, s, P, Len(s))
<1> DEFINE L == Len(s)
<1>1. L \in Nat /\ \A n \in 1 .. L : s[n] \in S
  OBVIOUS
<1>2. PICK kept : Loops(kept, s, P) /\ Filter(s, P) = kept[L]
  <2>1. \E kept : Loops(kept, s, P)
    BY <1>1, LoopExists
  <2> QED BY <2>1 DEF Filter, Loops
<1>3. /\ kept[0] = <<>>
      /\ \A n \in 1 .. L : kept[n] = IF s[n] \in P THEN Append(kept[n - 1], s[n]) ELSE kept[n - 1]
  <2>1. kept = [n \in 0 .. Len(s) |->
                   IF n = 0 THEN <<>>
                   ELSE IF s[n] \in P THEN Append(kept[n - 1], s[n]) ELSE kept[n - 1]]
    BY <1>2 DEF Loops
  <2>2. \A n \in 0 .. L :
            kept[n] = IF n = 0 THEN <<>>
                      ELSE IF s[n] \in P THEN Append(kept[n - 1], s[n]) ELSE kept[n - 1]
    BY <2>1
  <2> QED BY <1>1, <2>2
<1> DEFINE good(n) == kept[n] \in Seq(S) /\ \E f : Picks(kept[n], f, s, P, n)
           bad == {n \in 0 .. L : ~good(n)}
<1>4. good(0)
  <2>1. Picks(<<>>, <<>>, s, P, 0)
    BY DEF Picks
  <2> QED BY <1>3, <2>1
<1>5. ASSUME NEW n \in 1 .. L, good(n - 1) PROVE good(n)
  <2>1. PICK f : Picks(kept[n - 1], f, s, P, n - 1)
    BY <1>5
  <2> DEFINE r == kept[n - 1]
             l == Len(r)
  <2>2. r \in Seq(S) /\ l \in Nat /\ n \in Nat /\ n - 1 \in Nat /\ s[n] \in S
    BY <1>1, <1>5
  <2>3. /\ f \in [1 .. l -> 1 .. n - 1]
        /\ \A k \in 1 .. l : r[k] = s[f[k]] /\ s[f[k]] \in P
        /\ \A j, k \in 1 .. l : j < k => f[j] < f[k]
        /\ \A i \in 1 .. n - 1 : s[i] \in P => \E k \in 1 .. l : f[k] = i
    BY <2>1 DEF Picks
  <2>4. CASE s[n] \notin P
    <3>1. kept[n] = r
      BY <1>3, <2>4
    <3>2. f \in [1 .. l -> 1 .. n] /\ \A i \in 1 .. n : s[i] \in P => i \in 1 .. n - 1
      BY <2>2, <2>3, <2>4
    <3>3. Picks(r, f, s, P, n)
      BY <2>3, <3>2 DEF Picks
    <3> QED BY <2>2, <3>1, <3>3
  <2>5. CASE s[n] \in P
    <3> DEFINE q == Append(r, s[n])
               h == [k \in 1 .. l + 1 |-> IF k = l + 1 THEN n ELSE f[k]]
    <3>1. kept[n] = q
      BY <1>3, <2>5
    <3>2. /\ q \in Seq(S) /\ Len(q) = l + 1 /\ q[l + 1] = s[n]
          /\ \A k \in 1 .. l : q[k] = r[k]
      BY <2>2, AppendProperties
    <3>3. h[l + 1] = n /\ \A k \in 1 .. l : h[k] = f[k]
      BY <2>2
    <3>4. h \in [1 .. l + 1 -> 1 .. n]
      BY <2>2, <2>3
    <3> HIDE DEF h, q
    <3>5. \A k \in 1 .. l + 1 : q[k] = s[h[k]] /\ s[h[k]] \in P
      <4> TAKE k \in 1 .. l + 1
      <4>1. CASE k = l + 1
        BY <4>1, <3>2, <3>3, <2>5
      <4>2. CASE k # l + 1
        <5>1. k \in 1 .. l
          BY <2>2, <4>2
        <5> QED BY <5>1, <2>3, <3>2, <3>3
      <4> QED BY <4>1, <4>2
    <3>6. \A j, k \in 1 .. l + 1 : j < k => h[j] < h[k]
      <4> TAKE j, k \in 1 .. l + 1
      <4>1. CASE k = l + 1
        <5>1. ASSUME j < k PROVE j \in 1 .. l /\ f[j] < n
          <6>1. j \in 1 .. l
            BY <2>2, <4>1, <5>1
          <6>2. f[j] \in 1 .. n - 1
            BY <2>3, <6>1
          <6> QED BY <2>2, <6>1, <6>2
        <5> QED BY <4>1, <5>1, <3>3
      <4>2. CASE k # l + 1
        <5>1. ASSUME j < k PROVE j \in 1 .. l /\ k \in 1 .. l
          BY <2>2, <4>2, <5>1
        <5> QED BY <5>1, <2>3, <3>3
      <4> QED BY <4>1, <4>2
    <3>7. \A i \in 1 .. n : s[i] \in P => \E k \in 1 .. l + 1 : h[k] = i
      <4> TAKE i \in 1 .. n
      <4>1. CASE i = n
        BY <4>1, <2>2, <3>3
      <4>2. CASE i # n
        <5>1. i \in 1 .. n - 1
          BY <2>2, <4>2
        <5>2. ASSUME s[i] \in P PROVE \E k \in 1 .. l : f[k] = i
          BY <5>1, <5>2, <2>3
        <5> QED BY <5>2, <2>2, <3>3
      <4> QED BY <4>1, <4>2
    <3>8. Picks(q, h, s, P, n)
      BY <3>2, <3>4, <3>5, <3>6, <3>7 DEF Picks
    <3> QED BY <3>1, <3>2, <3>8
  <2> QED BY <2>4, <2>5
<1>6. bad = {}
  <2> SUFFICES ASSUME bad # {} PROVE FALSE
    OBVIOUS
  <2>1. bad \subseteq Nat
    OBVIOUS
  <2> HIDE DEF good
  <2>2. PICK n \in bad : \A m \in bad : n <= m
    BY <2>1, Least
  <2>3. n # 0 /\ n \in 0 .. L /\ ~good(n)
    BY <2>2, <1>4
  <2>4. n \in 1 .. L /\ n - 1 \in 0 .. L /\ n - 1 \notin bad
    BY <1>1, <2>2, <2>3
  <2> QED BY <1>5, <2>3, <2>4
<1>7. good(L)
  BY <1>1, <1>6
<1> QED BY <1>2, <1>7

\* A front of a sequence and the next element.
LEMMA SubSeqLess ==
    ASSUME NEW S, NEW s \in Seq(S), NEW n \in 1 .. Len(s)
    PROVE  Append(SubSeq(s, 1, n - 1), s[n]) = SubSeq(s, 1, n)
<1>1. /\ SubSeq(s, 1, n - 1) \in Seq(S) /\ Len(SubSeq(s, 1, n - 1)) = n - 1
      /\ \A k \in 1 .. n - 1 : SubSeq(s, 1, n - 1)[k] = s[k]
  BY SubSeqProperties
<1>2. /\ SubSeq(s, 1, n) \in Seq(S) /\ Len(SubSeq(s, 1, n)) = n
      /\ \A k \in 1 .. n : SubSeq(s, 1, n)[k] = s[k]
  BY SubSeqProperties
<1>3. s[n] \in S
  OBVIOUS
<1> DEFINE x == SubSeq(s, 1, n - 1)
           y == SubSeq(s, 1, n)
<1> HIDE DEF x, y
<1>4. /\ Append(x, s[n]) \in Seq(S) /\ Len(Append(x, s[n])) = n /\ Append(x, s[n])[n] = s[n]
      /\ \A k \in 1 .. n - 1 : Append(x, s[n])[k] = s[k]
  BY <1>1, <1>3, AppendProperties DEF x
<1>5. \A k \in 1 .. n : Append(x, s[n])[k] = y[k]
  BY <1>2, <1>4 DEF y
<1>6. Append(x, s[n]) = y
  BY <1>2, <1>4, <1>5, SeqEqual DEF y
<1> QED BY <1>6 DEF x, y

\* What keeps everything changes nothing.
THEOREM FilterAll ==
    ASSUME NEW P, NEW s \in Seq(P)
    PROVE  Filter(s, P) = s
<1> DEFINE L == Len(s)
<1>1. L \in Nat /\ \A n \in 1 .. L : s[n] \in P
  OBVIOUS
<1>2. PICK kept : Loops(kept, s, P) /\ Filter(s, P) = kept[L]
  <2>1. \E kept : Loops(kept, s, P)
    BY <1>1, LoopExists
  <2> QED BY <2>1 DEF Filter, Loops
<1>3. \A n \in 0 .. L : kept[n] = IF n = 0 THEN <<>>
                                  ELSE IF s[n] \in P THEN Append(kept[n - 1], s[n])
                                       ELSE kept[n - 1]
  BY <1>2 DEF Loops
<1> DEFINE T == {n \in 0 .. L : kept[n] = SubSeq(s, 1, n)}
<1>4. \A n : n \in T <=> n \in 0 .. L /\ kept[n] = SubSeq(s, 1, n)
  OBVIOUS
<1> HIDE DEF T
<1>5. 0 \in T
  <2>1. kept[0] = <<>>
    BY <1>1, <1>3
  <2>2. SubSeq(s, 1, 0) = <<>>
    BY <1>1
  <2>3. 0 \in 0 .. L
    BY <1>1
  <2> QED BY <1>4, <2>1, <2>2, <2>3
<1>6. ASSUME NEW n \in 1 .. L, n - 1 \in T PROVE n \in T
  <2>1. n \in 0 .. L /\ n # 0 /\ s[n] \in P /\ kept[n - 1] = SubSeq(s, 1, n - 1)
    BY <1>1, <1>6, <1>4
  <2> HIDE DEF L
  <2>2. kept[n] = Append(SubSeq(s, 1, n - 1), s[n])
    BY <1>3, <2>1
  <2>3. Append(SubSeq(s, 1, n - 1), s[n]) = SubSeq(s, 1, n)
    <3>1. n \in 1 .. Len(s)
      BY DEF L
    <3> QED BY <3>1, SubSeqLess
  <2> QED BY <1>4, <2>1, <2>2, <2>3
<1>7. \A n \in 1 .. L : n - 1 \in T => n \in T
  BY <1>6
<1>8. \A n \in 0 .. L : n \in T
  BY <1>1, <1>5, <1>7, UpTo
<1>9. kept[L] = SubSeq(s, 1, L)
  BY <1>1, <1>8, <1>4
<1> QED BY <1>1, <1>2, <1>9

\* One sequence behind another.
LEMMA Joined ==
    ASSUME NEW S, NEW s \in Seq(S), NEW t \in Seq(S)
    PROVE  /\ s \o t \in Seq(S) /\ Len(s \o t) = Len(s) + Len(t)
           /\ \A k \in 1 .. Len(s) : (s \o t)[k] = s[k]
           /\ \A k \in 1 .. Len(t) : (s \o t)[Len(s) + k] = t[k]
OBVIOUS
===============================================================================
