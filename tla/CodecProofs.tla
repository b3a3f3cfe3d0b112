----------------------------- MODULE CodecProofs ------------------------------
(***************************************************************************)
(* The inputs of CodecInputs, for all of them: names and addresses of any   *)
(* characters, messages of any arguments and length, bundles in bundles of  *)
(* any depth.                                                               *)
(*                                                                         *)
(* A segment of a bus address is never empty and has no "/" in it, so an   *)
(* address has one reading.  A message's bytes lie one behind the other,   *)
(* At says where; each reader finds there what was written, and what it    *)
(* reads in the front of the bytes it reads in all of them, so that a      *)
(* message that is whole is none with its end cut off.  A bundle is built  *)
(* along the induction: InputOK holds of every open bundle the rounds of   *)
(* parsePacket's loop over it so far, whatever follows and however late    *)
(* the bundles around it are.                                              *)
(***************************************************************************)
EXTENDS CodecInputs, SeqFilterProofs

-------------------------------------------------------------------------------
(* Segments.                                                               *)

Segment == {t \in Seq(OscLetters) : t # <<>>}

\* oscSegment gives a segment, whatever the host calls things.
LEMMA SegmentIs ==
    ASSUME NEW raw \in Seq(Chars)
    PROVE  OscSegment(raw) \in Segment
<1> DEFINE P == {c \in Range(raw) : OscChar(c)}
           r == Filter(raw, P)
<1>1. P \subseteq OscLetters
  BY DEF OscChar
<1> HIDE DEF P
<1>2. r \in Seq(Chars) /\ \E f : Picks(r, f, raw, P, Len(raw))
  BY FilterPicks
<1>3. \A k \in 1 .. Len(r) : r[k] \in OscLetters
  BY <1>1, <1>2 DEF Picks
<1>4. r \in Seq(OscLetters)
  BY <1>2, <1>3
<1>5. <<"a", "p", "p">> \in Segment
  BY OscLettersAssumption DEF Segment
<1>6. OscSegment(raw) = IF r = <<>> THEN <<"a", "p", "p">> ELSE r
  BY DEF OscSegment, P
<1> HIDE DEF r
<1> QED BY <1>4, <1>5, <1>6 DEF Segment

\* The segment of a segment is itself.
LEMMA SegmentOnce ==
    ASSUME NEW t \in Segment
    PROVE  OscSegment(t) = t
<1> DEFINE P == {c \in Range(t) : OscChar(c)}
<1>1. t \in Seq(OscLetters) /\ t # <<>>
  BY DEF Segment
<1>2. t \in Seq(Range(t)) /\ Range(t) \subseteq OscLetters
  BY <1>1 DEF Range
<1>3. Range(t) \subseteq P
  BY <1>2 DEF OscChar
<1>4. Filter(t, P) = t
  BY <1>2, <1>3, FilterAll
<1> QED BY <1>1, <1>4 DEF OscSegment

\* More elements, more sequences.
LEMMA SeqMore ==
    ASSUME NEW A, NEW B, A \subseteq B, NEW t \in Seq(A)
    PROVE  t \in Seq(B)
OBVIOUS

\* So is a slash text.
LEMMA SlashText == <<"/">> \in Seq(Chars)
BY OscLettersAssumption

\* Segments are text, and "/" is in none.
LEMMA SegmentText ==
    ASSUME NEW t \in Segment
    PROVE  t \in Seq(Chars) /\ Len(t) >= 1 /\ \A k \in 1 .. Len(t) : t[k] # "/"
<1>1. t \in Seq(OscLetters) /\ t # <<>>
  BY DEF Segment
<1>2. OscLetters \subseteq Chars /\ "/" \notin OscLetters
  BY OscLettersAssumption
<1>3. \A k \in 1 .. Len(t) : t[k] \in OscLetters
  BY <1>1
<1>4. \A k \in 1 .. Len(t) : t[k] # "/"
  BY <1>2, <1>3, Zenon
<1>5. t \in Seq(Chars)
  BY <1>1, <1>2, SeqMore
<1>6. Len(t) >= 1
  BY <1>1
<1> QED BY <1>4, <1>5, <1>6

\* busPrefix is a slash and a segment.
LEMMA BusPrefixIs ==
    ASSUME NEW addressPrefix \in Seq(Chars)
    PROVE  \E seg \in Segment : BusPrefix(addressPrefix) = <<"/">> \o seg
<1> DEFINE raw == IF addressPrefix = <<>> THEN AppName ELSE addressPrefix
           L == Len(raw)
           isFrom(n) == /\ \A k \in 1 .. n - 1 : raw[k] = "/"
                        /\ n <= L => raw[n] # "/"
           from == CHOOSE n \in 1 .. L + 1 : isFrom(n)
           isTo(n) == /\ \A k \in from .. n - 1 : raw[k] # "/"
                      /\ n <= L => raw[n] = "/"
           to == CHOOSE n \in from .. L + 1 : isTo(n)
<1>1. raw \in Seq(Chars) /\ L \in Nat
  BY AppNameAssumption
<1>2. FirstSegment(raw) = SubSeq(raw, from, to - 1)
  BY DEF FirstSegment
<1>3. BusPrefix(addressPrefix) = <<"/">> \o OscSegment(FirstSegment(raw))
  BY DEF BusPrefix
<1> HIDE DEF raw
<1>4. from \in 1 .. L + 1
  <2> DEFINE T == {n \in 1 .. L + 1 : n <= L => raw[n] # "/"}
  <2>1. T \in SUBSET Nat /\ L + 1 \in T
    BY <1>1
  <2>2. PICK n \in T : \A m \in T : n <= m
    BY <2>1, Least
  <2>3. n \in 1 .. L + 1 /\ isFrom(n)
    BY <1>1, <2>2
  <2> QED BY <2>3
<1> HIDE DEF from
<1>5. to \in from .. L + 1
  <2> DEFINE T == {n \in from .. L + 1 : n <= L => raw[n] = "/"}
  <2>1. T \in SUBSET Nat /\ L + 1 \in T
    BY <1>1, <1>4
  <2>2. PICK n \in T : \A m \in T : n <= m
    BY <2>1, Least
  <2>3. n \in from .. L + 1 /\ isTo(n)
    BY <1>1, <1>4, <2>2
  <2> QED BY <2>3
<1> HIDE DEF to
<1>6. FirstSegment(raw) \in Seq(Chars)
  BY <1>1, <1>2, <1>4, <1>5, SubSeqProperties
<1> QED BY <1>3, <1>6, SegmentIs

-------------------------------------------------------------------------------
(* Heads and tails of an address.                                          *)

\* What compare says of the front of an address.
LEMMA HeadIs ==
    ASSUME NEW S, NEW head \in Seq(S), NEW a \in Seq(S)
    PROVE  IsPrefix(head, a) <=> /\ Len(head) <= Len(a)
                                 /\ \A k \in 1 .. Len(head) : a[k] = head[k]
<1> DEFINE n == Len(head)
<1>1. CASE n <= Len(a)
  <2> DEFINE x == SubSeq(head, 1, n)
             y == SubSeq(a, 1, n)
  <2>1. x \in Seq(S) /\ Len(x) = n /\ \A k \in 1 .. n : x[k] = head[k]
    BY SubSeqProperties
  <2>2. y \in Seq(S) /\ Len(y) = n /\ \A k \in 1 .. n : y[k] = a[k]
    BY <1>1, SubSeqProperties
  <2>3. IsPrefix(head, a) <=> x = y
    BY <1>1 DEF IsPrefix
  <2> HIDE DEF x, y
  <2>4. x = y <=> \A k \in 1 .. n : x[k] = y[k]
    BY <2>1, <2>2, SeqEqual
  <2> QED BY <1>1, <2>1, <2>2, <2>3, <2>4
<1>2. CASE ~(n <= Len(a))
  BY <1>2 DEF IsPrefix
<1> QED BY <1>1, <1>2

\* What compare says of its end.
LEMMA TailIs ==
    ASSUME NEW S, NEW tail \in Seq(S), NEW a \in Seq(S)
    PROVE  IsSuffix(tail, a) <=>
               /\ Len(tail) <= Len(a)
               /\ \A k \in 1 .. Len(tail) : a[(Len(a) - Len(tail)) + k] = tail[k]
<1> DEFINE n == Len(tail)
           L == Len(a)
           t == Reverse(tail)
           r == Reverse(a)
<1>1. n \in Nat /\ L \in Nat
  OBVIOUS
<1>2. t \in Seq(S) /\ Len(t) = n /\ \A k \in 1 .. n : t[k] = tail[(n - k) + 1]
  BY <1>1 DEF Reverse
<1>3. r \in Seq(S) /\ Len(r) = L /\ \A k \in 1 .. L : r[k] = a[(L - k) + 1]
  BY <1>1 DEF Reverse
<1>4. IsSuffix(tail, a) <=> IsPrefix(t, r)
  BY DEF IsSuffix
<1> HIDE DEF t, r, n, L
<1>5. IsPrefix(t, r) <=> n <= L /\ \A k \in 1 .. n : r[k] = t[k]
  <2>1. t \in Seq(S) /\ r \in Seq(S)
    BY <1>2, <1>3
  <2>2. IsPrefix(t, r) <=> Len(t) <= Len(r) /\ \A k \in 1 .. Len(t) : r[k] = t[k]
    BY <2>1, HeadIs
  <2> QED BY <1>2, <1>3, <2>2
<1>6. CASE n <= L
  <2>1. ASSUME \A k \in 1 .. n : r[k] = t[k], NEW k \in 1 .. n
        PROVE  a[(L - n) + k] = tail[k]
    <3> DEFINE j == (n - k) + 1
    <3>1. j \in 1 .. n /\ j \in 1 .. L /\ (n - j) + 1 = k /\ (L - j) + 1 = (L - n) + k
      BY <1>1, <1>6
    <3>2. t[j] = tail[(n - j) + 1] /\ r[j] = a[(L - j) + 1]
      BY <1>2, <1>3, <3>1
    <3> HIDE DEF j
    <3> QED BY <2>1, <3>1, <3>2
  <2>2. ASSUME \A k \in 1 .. n : a[(L - n) + k] = tail[k], NEW j \in 1 .. n
        PROVE  r[j] = t[j]
    <3> DEFINE k == (n - j) + 1
    <3>1. k \in 1 .. n /\ j \in 1 .. L /\ (L - j) + 1 = (L - n) + k
      BY <1>1, <1>6
    <3>2. t[j] = tail[k] /\ r[j] = a[(L - j) + 1]
      BY <1>2, <1>3, <3>1
    <3> HIDE DEF k
    <3> QED BY <2>2, <3>1, <3>2
  <2> QED BY <1>4, <1>5, <1>6, <2>1, <2>2 DEF n, L
<1>7. CASE ~(n <= L)
  BY <1>4, <1>5, <1>7 DEF n, L
<1> QED BY <1>6, <1>7

\* An address put together from three parts has them where one looks for them.
LEMMA Reading ==
    ASSUME NEW S, NEW head \in Seq(S), NEW mid \in Seq(S), NEW tail \in Seq(S),
           NEW a, a = (head \o mid) \o tail
    PROVE  /\ a \in Seq(S) /\ Len(a) = (Len(head) + Len(mid)) + Len(tail)
           /\ IsPrefix(head, a) /\ IsSuffix(tail, a)
           /\ SubSeq(a, Len(head) + 1, Len(a) - Len(tail)) = mid
<1> DEFINE x == head \o mid
           h == Len(head)
           m == Len(mid)
           n == Len(tail)
<1>1. /\ x \in Seq(S) /\ Len(x) = h + m
      /\ \A k \in 1 .. h : x[k] = head[k]
      /\ \A k \in 1 .. m : x[h + k] = mid[k]
  BY Joined
<1>2. a = x \o tail
  OBVIOUS
<1> HIDE DEF x
<1>3. /\ a \in Seq(S) /\ Len(a) = (h + m) + n
      /\ \A k \in 1 .. h + m : a[k] = x[k]
      /\ \A k \in 1 .. n : a[(h + m) + k] = tail[k]
  <2>1. x \in Seq(S) /\ tail \in Seq(S)
    BY <1>1
  <2>2. /\ x \o tail \in Seq(S) /\ Len(x \o tail) = Len(x) + Len(tail)
        /\ \A k \in 1 .. Len(x) : (x \o tail)[k] = x[k]
        /\ \A k \in 1 .. Len(tail) : (x \o tail)[Len(x) + k] = tail[k]
    BY <2>1, Joined
  <2> QED BY <1>1, <1>2, <2>2
<1>4. h \in Nat /\ m \in Nat /\ n \in Nat
  OBVIOUS
<1> HIDE DEF h, m, n
<1>5. \A k \in 1 .. h : a[k] = head[k]
  <2> TAKE k \in 1 .. h
  <2>1. k \in 1 .. h + m
    BY <1>4
  <2> QED BY <1>1, <1>3, <2>1
<1>6. \A k \in 1 .. m : a[h + k] = mid[k]
  <2> TAKE k \in 1 .. m
  <2>1. h + k \in 1 .. h + m
    BY <1>4
  <2> QED BY <1>1, <1>3, <2>1
<1>7. IsPrefix(head, a)
  <2>1. h <= Len(a)
    BY <1>3, <1>4
  <2> QED BY <1>3, <1>5, <2>1, HeadIs DEF h
<1>8. IsSuffix(tail, a)
  <2>1. n <= Len(a) /\ Len(a) - n = h + m
    BY <1>3, <1>4
  <2> QED BY <1>3, <2>1, TailIs DEF n
<1>9. SubSeq(a, Len(head) + 1, Len(a) - Len(tail)) = mid
  <2> DEFINE b == SubSeq(a, h + 1, h + m)
  <2>1. Len(a) - n = h + m
    BY <1>3, <1>4
  <2>2. SubSeq(a, Len(head) + 1, Len(a) - Len(tail)) = b
    BY <2>1 DEF h, n
  <2>3. h + 1 \in 1 .. Len(a) + 1 /\ h + m \in (h + 1) - 1 .. Len(a)
    BY <1>3, <1>4
  <2>4. b \in Seq(S) /\ Len(b) = m /\ \A k \in 1 .. m : b[k] = a[h + k]
    <3>1. ((h + m) - (h + 1)) + 1 = m
      BY <1>4
    <3>2. \A k \in 1 .. m : ((h + 1) + k) - 1 = h + k
      BY <1>4
    <3> QED BY <1>3, <1>4, <2>3, <3>1, <3>2, SubSeqProperties
  <2> HIDE DEF b
  <2>5. \A k \in 1 .. m : b[k] = mid[k]
    BY <1>6, <2>4
  <2> QED BY <2>2, <2>4, <2>5, SeqEqual DEF m
<1> QED BY <1>3, <1>7, <1>8, <1>9 DEF h, m, n

\* An address that begins and ends with two parts that do not overlap is those
\* and what is between them.
LEMMA Splitting ==
    ASSUME NEW S, NEW head \in Seq(S), NEW tail \in Seq(S), NEW a \in Seq(S),
           Len(a) >= Len(head) + Len(tail), IsPrefix(head, a), IsSuffix(tail, a)
    PROVE  LET mid == Between(a, head, tail)
           IN /\ mid \in Seq(S) /\ Len(mid) = Len(a) - (Len(head) + Len(tail))
              /\ a = (head \o mid) \o tail
<1> DEFINE mid == Between(a, head, tail)
           h == Len(head)
           n == Len(tail)
           m == Len(a) - (h + n)
           x == head \o mid
           b == x \o tail
<1>1. h \in Nat /\ n \in Nat /\ m \in Nat /\ Len(a) = (h + m) + n /\ Len(a) - n = h + m
  OBVIOUS
<1>2. \A k \in 1 .. h : a[k] = head[k]
  BY HeadIs
<1>3. \A k \in 1 .. n : a[(h + m) + k] = tail[k]
  BY <1>1, TailIs
<1>4. mid = SubSeq(a, h + 1, h + m)
  BY <1>1 DEF Between
<1> HIDE DEF mid, m, h, n
<1>5. mid \in Seq(S) /\ Len(mid) = m /\ \A k \in 1 .. m : mid[k] = a[h + k]
  <2>1. h + 1 \in 1 .. Len(a) + 1 /\ h + m \in (h + 1) - 1 .. Len(a)
    BY <1>1
  <2>2. ((h + m) - (h + 1)) + 1 = m
    BY <1>1
  <2>3. \A k \in 1 .. m : ((h + 1) + k) - 1 = h + k
    BY <1>1
  <2> QED BY <1>1, <1>4, <2>1, <2>2, <2>3, SubSeqProperties
<1>6. /\ x \in Seq(S) /\ Len(x) = h + m
      /\ \A k \in 1 .. h : x[k] = head[k]
      /\ \A k \in 1 .. m : x[h + k] = mid[k]
  <2>1. head \in Seq(S) /\ mid \in Seq(S)
    BY <1>5
  <2>2. /\ head \o mid \in Seq(S) /\ Len(head \o mid) = Len(head) + Len(mid)
        /\ \A k \in 1 .. Len(head) : (head \o mid)[k] = head[k]
        /\ \A k \in 1 .. Len(mid) : (head \o mid)[Len(head) + k] = mid[k]
    BY <2>1, Joined
  <2> QED BY <1>5, <2>2 DEF h, x
<1> HIDE DEF x
<1>7. /\ b \in Seq(S) /\ Len(b) = (h + m) + n
      /\ \A k \in 1 .. h + m : b[k] = x[k]
      /\ \A k \in 1 .. n : b[(h + m) + k] = tail[k]
  <2>1. x \in Seq(S) /\ tail \in Seq(S)
    BY <1>6
  <2>2. /\ x \o tail \in Seq(S) /\ Len(x \o tail) = Len(x) + Len(tail)
        /\ \A k \in 1 .. Len(x) : (x \o tail)[k] = x[k]
        /\ \A k \in 1 .. Len(tail) : (x \o tail)[Len(x) + k] = tail[k]
    BY <2>1, Joined
  <2> QED BY <1>6, <2>2 DEF n, b
<1> HIDE DEF b
<1>8. \A k \in 1 .. Len(a) : a[k] = b[k]
  <2> TAKE k \in 1 .. Len(a)
  <2>1. CASE k \in 1 .. h
    <3>1. k \in 1 .. h + m
      BY <1>1, <2>1
    <3> QED BY <1>2, <1>6, <1>7, <2>1, <3>1
  <2>2. CASE k \in h + 1 .. h + m
    <3> DEFINE j == k - h
    <3>1. j \in 1 .. m /\ k = h + j /\ k \in 1 .. h + m
      BY <1>1, <2>2
    <3> HIDE DEF j
    <3> QED BY <1>5, <1>6, <1>7, <3>1
  <2>3. CASE k \in (h + m) + 1 .. (h + m) + n
    <3> DEFINE j == k - (h + m)
    <3>1. j \in 1 .. n /\ k = (h + m) + j
      BY <1>1, <2>3
    <3> HIDE DEF j
    <3> QED BY <1>3, <1>7, <3>1
  <2>4. k \in 1 .. h \/ k \in h + 1 .. h + m \/ k \in (h + m) + 1 .. (h + m) + n
    BY <1>1
  <2> QED BY <2>1, <2>2, <2>3, <2>4
<1>9. a = b
  BY <1>1, <1>7, <1>8, SeqEqual
<1> QED BY <1>1, <1>5, <1>9 DEF b, x, m, h, n, mid

-------------------------------------------------------------------------------
(* What the listeners hear and the senders are.                            *)

\* busPrefix is text.
LEMMA BusPrefixText ==
    ASSUME NEW addressPrefix \in Seq(Chars)
    PROVE  BusPrefix(addressPrefix) \in Seq(Chars)
<1>1. PICK seg \in Segment : BusPrefix(addressPrefix) = <<"/">> \o seg
  BY BusPrefixIs
<1>2. seg \in Seq(Chars)
  BY SegmentText
<1> QED BY <1>1, <1>2, SlashText, Joined

\* What an id in an address may be.
NoSlash == {t \in Seq(Chars) : t # <<>> /\ \A k \in 1 .. Len(t) : t[k] # "/"}

\* addBusListener's promise: /<app>/<leaf> and /<app>/<any id>/<leaf> hit the leaf
\* and nothing else does, for all names and every address that may arrive.
THEOREM BusHeard ==
    ASSUME NEW addressPrefix \in Seq(Chars), NEW leaf \in Seq(Chars), NEW a \in Seq(Chars)
    PROVE  LET prefix == BusPrefix(addressPrefix)
               tail == <<"/">> \o OscSegment(leaf)
           IN BusLeafMatches(leaf, prefix, a) <=>
                  \/ a = prefix \o tail
                  \/ \E id \in NoSlash : a = ((prefix \o <<"/">>) \o id) \o tail
<1> DEFINE prefix == BusPrefix(addressPrefix)
           head == prefix \o <<"/">>
           tail == <<"/">> \o OscSegment(leaf)
           mid == Between(a, head, tail)
<1>1. head \in Seq(Chars) /\ tail \in Seq(Chars)
  <2>1. <<"/">> \in Seq(Chars)
    BY SlashText
  <2>2. OscSegment(leaf) \in Seq(Chars)
    BY SegmentIs, SegmentText
  <2>3. prefix \in Seq(Chars)
    BY BusPrefixText
  <2> QED BY <2>1, <2>2, <2>3, Joined
<1>2. BusLeafMatches(leaf, prefix, a) <=>
          \/ a = prefix \o tail
          \/ /\ Len(a) > Len(head) + Len(tail)
             /\ IsPrefix(head, a) /\ IsSuffix(tail, a)
             /\ \A k \in 1 .. Len(mid) : mid[k] # "/"
  BY DEF BusLeafMatches, Contains
<1> HIDE DEF mid, head, tail
<1>3. ASSUME Len(a) > Len(head) + Len(tail), IsPrefix(head, a), IsSuffix(tail, a),
             \A k \in 1 .. Len(mid) : mid[k] # "/"
      PROVE  \E id \in NoSlash : a = (head \o id) \o tail
  <2>1. Len(head) \in Nat /\ Len(tail) \in Nat /\ Len(a) \in Nat
    BY <1>1
  <2>2. Len(a) >= Len(head) + Len(tail)
    BY <1>3, <2>1
  <2>3. /\ mid \in Seq(Chars) /\ Len(mid) = Len(a) - (Len(head) + Len(tail))
        /\ a = (head \o mid) \o tail
    BY <1>1, <1>3, <2>2, Splitting DEF mid
  <2>4. Len(mid) # 0
    BY <1>3, <2>1, <2>3
  <2>5. mid # <<>>
    BY <2>4
  <2>6. mid \in NoSlash
    BY <1>3, <2>3, <2>5 DEF NoSlash
  <2> QED BY <2>3, <2>6
<1>4. ASSUME NEW id \in NoSlash, a = (head \o id) \o tail
      PROVE  /\ Len(a) > Len(head) + Len(tail)
             /\ IsPrefix(head, a) /\ IsSuffix(tail, a)
             /\ \A k \in 1 .. Len(mid) : mid[k] # "/"
  <2>1. id \in Seq(Chars) /\ id # <<>> /\ \A k \in 1 .. Len(id) : id[k] # "/"
    BY DEF NoSlash
  <2>2. head \in Seq(Chars) /\ tail \in Seq(Chars) /\ id \in Seq(Chars)
    BY <1>1, <2>1
  <2>3. a = (head \o id) \o tail
    BY <1>4
  <2>4. /\ Len(a) = (Len(head) + Len(id)) + Len(tail)
        /\ IsPrefix(head, a) /\ IsSuffix(tail, a) /\ Between(a, head, tail) = id
    <3>1. Len(a) = (Len(head) + Len(id)) + Len(tail)
      BY <2>2, <2>3, Reading
    <3>2. IsPrefix(head, a) /\ IsSuffix(tail, a)
      BY <2>2, <2>3, Reading
    <3>3. SubSeq(a, Len(head) + 1, Len(a) - Len(tail)) = id
      BY <2>2, <2>3, Reading
    <3> QED BY <3>1, <3>2, <3>3 DEF Between
  <2>5. Len(id) \in Nat \ {0} /\ Len(head) \in Nat /\ Len(tail) \in Nat
    BY <1>1, <2>1
  <2>6. Len(a) > Len(head) + Len(tail)
    BY <2>4, <2>5
  <2> QED BY <2>1, <2>4, <2>6 DEF mid
<1> QED BY <1>2, <1>3, <1>4 DEF head, tail

\* addBusListener keeps the segment of a leaf, not the leaf, and busLeafMatches takes
\* the segment of what was kept: it hears the same.
THEOREM ListenerKeepsSegment ==
    ASSUME NEW leaf \in Seq(Chars), NEW prefix, NEW a
    PROVE  BusLeafMatches(OscSegment(leaf), prefix, a) <=> BusLeafMatches(leaf, prefix, a)
<1>1. OscSegment(OscSegment(leaf)) = OscSegment(leaf)
  BY SegmentIs, SegmentOnce
<1> QED BY <1>1 DEF BusLeafMatches

\* Cutting off what was put in front, or behind.
LEMMA Cut ==
    ASSUME NEW S, NEW x \in Seq(S), NEW y \in Seq(S), NEW a, a = x \o y
    PROVE  /\ a \in Seq(S) /\ IsPrefix(x, a)
           /\ SubSeq(a, Len(x) + 1, Len(a)) = y
           /\ SubSeq(a, 1, Len(x)) = x
<1> DEFINE h == Len(x)
           m == Len(y)
           front == SubSeq(a, 1, h)
           back == SubSeq(a, h + 1, h + m)
<1>1. h \in Nat /\ m \in Nat
  OBVIOUS
<1>2. /\ a \in Seq(S) /\ Len(a) = h + m
      /\ \A k \in 1 .. h : a[k] = x[k]
      /\ \A k \in 1 .. m : a[h + k] = y[k]
  BY Joined
<1> HIDE DEF h, m
<1>3. front \in Seq(S) /\ Len(front) = h /\ \A k \in 1 .. h : front[k] = a[k]
  <2>1. \A k \in 1 .. h : k \in 1 .. Len(a) /\ (1 + k) - 1 = k
    BY <1>1, <1>2
  <2>2. (h - 1) + 1 = h /\ (1 <= h \/ h = 0)
    BY <1>1
  <2> QED BY <1>1, <1>2, <2>1, <2>2, SubSeqProperties
<1>4. back \in Seq(S) /\ Len(back) = m /\ \A k \in 1 .. m : back[k] = a[h + k]
  <2>1. \A k \in 1 .. m : h + k \in 1 .. Len(a) /\ ((h + 1) + k) - 1 = h + k
    BY <1>1, <1>2
  <2>2. ((h + m) - (h + 1)) + 1 = m
    BY <1>1
  <2> QED BY <1>1, <1>2, <2>1, <2>2, SubSeqProperties
<1> HIDE DEF front, back
<1>5. front = x
  <2>1. Len(front) = Len(x) /\ \A k \in 1 .. Len(front) : front[k] = x[k]
    BY <1>2, <1>3 DEF h
  <2> QED BY <1>3, <2>1, SeqEqual
<1>6. back = y
  <2>1. Len(back) = Len(y) /\ \A k \in 1 .. Len(back) : back[k] = y[k]
    BY <1>2, <1>4 DEF m
  <2> QED BY <1>4, <2>1, SeqEqual
<1>7. IsPrefix(x, a)
  <2>1. Len(x) <= Len(a)
    BY <1>1, <1>2 DEF h
  <2> QED BY <1>2, <2>1, HeadIs DEF h
<1> QED BY <1>2, <1>5, <1>6, <1>7 DEF front, back, h

\* What busSenderId reads: the part before the only slash of what follows the
\* prefix, if there is a part.
LEMMA SenderIdIs ==
    ASSUME NEW prefix \in Seq(Chars), NEW rest \in Seq(Chars)
    PROVE  LET slashes == {k \in 1 .. Len(rest) : rest[k] = "/"}
           IN /\ slashes = {} => BusSenderId(prefix, (prefix \o <<"/">>) \o rest) = <<>>
              /\ \A k \in Nat : slashes = {k} /\ k > 1 =>
                    BusSenderId(prefix, (prefix \o <<"/">>) \o rest) = SubSeq(rest, 1, k - 1)
<1> DEFINE head == prefix \o <<"/">>
           a == head \o rest
           slashes == {k \in 1 .. Len(rest) : rest[k] = "/"}
<1>1. head \in Seq(Chars) /\ Len(head) = Len(prefix) + 1
  <2>1. Len(<<"/">>) = 1
    OBVIOUS
  <2>2. head \in Seq(Chars) /\ Len(head) = Len(prefix) + Len(<<"/">>)
    BY SlashText, Joined
  <2> QED BY <2>1, <2>2
<1>2. IsPrefix(head, a)
  BY <1>1, Cut
<1>3. SubSeq(a, Len(head) + 1, Len(a)) = rest
  BY <1>1, Cut
<1>4. (Len(prefix) + 1) + 1 = Len(prefix) + 2
  OBVIOUS
<1>5. SubSeq(a, Len(prefix) + 2, Len(a)) = rest
  BY <1>1, <1>3, <1>4
<1>6. DOMAIN rest = 1 .. Len(rest)
  OBVIOUS
<1> HIDE DEF a
<1>7. BusSenderId(prefix, a) =
        IF IsPrefix(head, a) /\ \E k \in slashes : slashes = {k} /\ k > 1
        THEN SubSeq(rest, 1, (CHOOSE k \in slashes : TRUE) - 1)
        ELSE <<>>
  <2> DEFINE r == SubSeq(a, Len(prefix) + 2, Len(a))
             found == {k \in DOMAIN r : r[k] = "/"}
  <2>1. BusSenderId(prefix, a) =
          IF IsPrefix(head, a) /\ \E k \in found : found = {k} /\ k > 1
          THEN SubSeq(r, 1, (CHOOSE k \in found : TRUE) - 1)
          ELSE <<>>
    BY Zenon DEF BusSenderId
  <2>2. r = rest /\ found = slashes
    BY <1>5, <1>6
  <2> HIDE DEF r, found, slashes
  <2> QED BY <2>1, <2>2
<1> HIDE DEF slashes, head
<1>8. slashes = {} => BusSenderId(prefix, a) = <<>>
  BY <1>7
<1>9. ASSUME NEW k \in Nat, slashes = {k}, k > 1
      PROVE  BusSenderId(prefix, a) = SubSeq(rest, 1, k - 1)
  <2>1. (CHOOSE j \in slashes : TRUE) = k
    BY <1>9
  <2>2. \E j \in slashes : slashes = {j} /\ j > 1
    BY <1>9
  <2> QED BY <1>2, <1>7, <2>1, <2>2
<1> QED BY <1>8, <1>9 DEF a, head, slashes

\* Text behind text is text.
LEMMA Pairs == \A x, y \in Seq(Chars) : x \o y \in Seq(Chars)
BY Joined

\* Three texts may be put together in either order.
LEMMA Either == \A x, y, z \in Seq(Chars) : (x \o y) \o z = x \o (y \o z)
<1> TAKE x, y, z \in Seq(Chars)
<1> QED BY ConcatAssociative

\* A leaf's own messages are heard, and their sender read out of them, for all
\* names that the two ends' hosts may give.
THEOREM BusUnderstood ==
    ASSUME NEW addressPrefix \in Seq(Chars), NEW id \in Seq(Chars), NEW leaf \in Seq(Chars)
    PROVE  Understood(addressPrefix, id, leaf)
<1> DEFINE prefix == BusPrefix(addressPrefix)
           slash == <<"/">>
           I == OscSegment(id)
           F == OscSegment(leaf)
           head == prefix \o slash
           tail == slash \o F
           rest == I \o tail
           directed == MakeAddress(prefix, id, leaf)
           broadcast == MakeBroadcastAddress(prefix, leaf)
<1>1. prefix \in Seq(Chars) /\ slash \in Seq(Chars)
  BY BusPrefixText, SlashText
<1>2. /\ I \in Seq(Chars) /\ Len(I) >= 1 /\ \A k \in 1 .. Len(I) : I[k] # "/"
      /\ F \in Seq(Chars) /\ Len(F) >= 1 /\ \A k \in 1 .. Len(F) : F[k] # "/"
  BY SegmentIs, SegmentText
<1>3. I \in NoSlash
  BY <1>2 DEF NoSlash
<1>4. directed = (((prefix \o slash) \o I) \o slash) \o F /\ broadcast = (prefix \o slash) \o F
  BY DEF MakeAddress, MakeBroadcastAddress
<1> HIDE DEF prefix, slash, I, F, directed, broadcast
<1>5. head \in Seq(Chars) /\ tail \in Seq(Chars)
  BY <1>1, <1>2, Joined
<1>6. head \o I \in Seq(Chars)
  BY <1>2, <1>5, Joined
<1>7. directed = (head \o I) \o tail /\ directed = head \o rest /\ broadcast = prefix \o tail
  <2>1. prefix \in Seq(Chars)
    BY <1>1
  <2>2. slash \in Seq(Chars)
    BY <1>1
  <2>3. I \in Seq(Chars)
    BY <1>2
  <2>4. F \in Seq(Chars)
    BY <1>2
  <2>5. prefix \o slash \in Seq(Chars)
    BY <2>1, <2>2, Pairs, Zenon
  <2>6. (prefix \o slash) \o I \in Seq(Chars)
    BY <2>5, <2>3, Pairs, Zenon
  <2>7. slash \o F \in Seq(Chars)
    BY <2>2, <2>4, Pairs, Zenon
  <2>8. (((prefix \o slash) \o I) \o slash) \o F = ((prefix \o slash) \o I) \o (slash \o F)
    BY <2>6, <2>2, <2>4, Either, Zenon
  <2>9. ((prefix \o slash) \o I) \o (slash \o F) = (prefix \o slash) \o (I \o (slash \o F))
    BY <2>5, <2>3, <2>7, Either, Zenon
  <2>10. (((prefix \o slash) \o I) \o slash) \o F = (prefix \o slash) \o (I \o (slash \o F))
    BY <2>8, <2>9, Zenon
  <2>11. (prefix \o slash) \o F = prefix \o (slash \o F)
    BY <2>1, <2>2, <2>4, Either, Zenon
  <2>12. directed = (head \o I) \o tail
    BY <1>4, <2>8, Zenon
  <2>13. directed = head \o rest
    BY <1>4, <2>10, Zenon
  <2>14. broadcast = prefix \o tail
    BY <1>4, <2>11, Zenon
  <2> QED BY <2>12, <2>13, <2>14, Zenon
<1>8. directed = head \o rest
  BY <1>7
<1>9. rest \in Seq(Chars) /\ directed \in Seq(Chars) /\ broadcast \in Seq(Chars)
  <2>1. rest \in Seq(Chars)
    BY <1>2, <1>5, Joined
  <2> QED BY <1>1, <1>5, <1>7, <2>1, Joined
<1>10. BusLeafMatches(leaf, prefix, directed)
  BY <1>3, <1>7, <1>9, BusHeard DEF prefix, slash, F
<1>11. BusLeafMatches(leaf, prefix, broadcast)
  BY <1>7, <1>9, BusHeard DEF prefix, slash, F
<1>12. BusSenderId(prefix, broadcast) = <<>>
  <2>1. {k \in 1 .. Len(F) : F[k] = "/"} = {}
    BY <1>2
  <2> QED BY <1>1, <1>2, <1>4, <2>1, SenderIdIs DEF slash
<1>13. BusSenderId(prefix, directed) = I
  <2> DEFINE n == Len(I) + 1
             slashes == {k \in 1 .. Len(rest) : rest[k] = "/"}
  <2>1. /\ Len(rest) = Len(I) + Len(tail)
        /\ \A k \in 1 .. Len(I) : rest[k] = I[k]
        /\ \A k \in 1 .. Len(tail) : rest[Len(I) + k] = tail[k]
    BY <1>2, <1>5, Joined
  <2>2. Len(tail) = 1 + Len(F) /\ tail[1] = "/" /\ \A k \in 1 .. Len(F) : tail[1 + k] = F[k]
    BY <1>1, <1>2, Joined DEF slash
  <2>3. Len(I) \in Nat /\ Len(F) \in Nat
    BY <1>2
  <2> HIDE DEF rest, tail
  <2>4. n \in 1 .. Len(rest) /\ rest[n] = "/"
    <3>1. 1 \in 1 .. Len(tail) /\ n \in 1 .. Len(rest)
      BY <2>1, <2>2, <2>3
    <3> QED BY <2>1, <2>2, <3>1
  <2>5. ASSUME NEW k \in 1 .. Len(rest), rest[k] = "/" PROVE k = n
    <3>1. CASE k \in 1 .. Len(I)
      BY <1>2, <2>1, <2>5, <3>1
    <3>2. CASE k \in n + 1 .. Len(rest)
      <4> DEFINE j == k - n
      <4>1. j \in 1 .. Len(F) /\ 1 + j \in 1 .. Len(tail) /\ k = Len(I) + (1 + j)
        BY <2>1, <2>2, <2>3, <3>2
      <4> HIDE DEF j
      <4>2. rest[k] = F[j]
        BY <2>1, <2>2, <4>1
      <4> QED BY <1>2, <2>5, <4>1, <4>2
    <3>3. k \in 1 .. Len(I) \/ k = n \/ k \in n + 1 .. Len(rest)
      BY <2>1, <2>3
    <3> QED BY <3>1, <3>2, <3>3
  <2>6. slashes = {n}
    BY <2>4, <2>5
  <2>7. n \in Nat /\ n > 1 /\ n - 1 = Len(I)
    BY <1>2, <2>3
  <2> HIDE DEF n
  <2>8. BusSenderId(prefix, directed) = SubSeq(rest, 1, n - 1)
    BY <1>1, <1>8, <1>9, <2>6, <2>7, SenderIdIs DEF slash
  <2>9. SubSeq(rest, 1, Len(I)) = I
    BY <1>2, <1>5, Cut DEF rest
  <2> QED BY <2>7, <2>8, <2>9
<1> QED BY <1>10, <1>11, <1>12, <1>13 DEF Understood, prefix, I, directed, broadcast

-------------------------------------------------------------------------------
(* Bytes, words and where they are.                                         *)

\* A byte has two values at least.
LEMMA BaseNat == Base \in Nat \ {0, 1}
BY BytesAssumption, Zenon

\* What the bytes are.
LEMMA BytesAre ==
    /\ NUL \in Bytes
    /\ \A n \in 0 .. Base - 1 : Digit[n] \in Bytes /\ Value(Digit[n]) = n
    /\ \A b \in Bytes : Value(b) \in 0 .. Base - 1
<1>1. 0 \in 0 .. Base - 1
  BY BaseNat
<1>2. NUL \in Bytes
  BY <1>1 DEF NUL, Bytes
<1>3. ASSUME NEW n \in 0 .. Base - 1 PROVE Digit[n] \in Bytes /\ Value(Digit[n]) = n
  <2>1. Digit[n] \in Bytes
    BY DEF Bytes
  <2>2. \A k \in 0 .. Base - 1 : Digit[k] = Digit[n] => k = n
    BY BytesAssumption, Zenon
  <2>3. Value(Digit[n]) = n
    BY <2>2 DEF Value
  <2> QED BY <2>1, <2>3
<1>4. ASSUME NEW b \in Bytes PROVE Value(b) \in 0 .. Base - 1
  BY <1>3 DEF Bytes
<1> QED BY <1>2, <1>3, <1>4

\* Quotient and remainder.
LEMMA DivMod ==
    ASSUME NEW n \in Nat, NEW B \in Nat \ {0}
    PROVE  /\ n \div B \in Nat /\ n % B \in 0 .. B - 1
           /\ n = ((n \div B) * B) + (n % B)
<1>1. n \div B \in Nat /\ n % B \in 0 .. B - 1 /\ n = (B * (n \div B)) + (n % B)
  OBVIOUS
<1>2. B * (n \div B) = (n \div B) * B
  BY <1>1
<1> QED BY <1>1, <1>2

\* A word has sixteen values at least.
LEMMA BaseIs == /\ Base \in Nat \ {0} /\ Base * Base \in Nat \ {0}
               /\ Base * Base * Base \in Nat \ {0}
               /\ Word \in Nat \ {0} /\ Word = (Base * Base * Base) * Base /\ Word >= 16
<1>1. Base \in Nat \ {0} /\ Base >= 2
  BY BaseNat
<1>2. ASSUME NEW x \in Nat, NEW y \in Nat, x >= y PROVE x * Base \in Nat /\ x * Base >= y + y
  <2>1. PICK e \in Nat : Base = 2 + e
    <3>1. Base - 2 \in Nat /\ Base = 2 + (Base - 2)
      BY <1>1
    <3> QED BY <3>1
  <2>2. x * Base = x + x + x * e
    BY <2>1
  <2>3. x * e \in Nat
    OBVIOUS
  <2> QED BY <1>2, <2>2, <2>3
<1>3. Base * Base \in Nat /\ Base * Base >= 4
  BY <1>1, <1>2
<1> DEFINE Sq == Base * Base
           Cu == Sq * Base
<1> HIDE DEF Sq
<1>4. Cu \in Nat /\ Cu >= 8
  BY <1>2, <1>3 DEF Sq
<1> HIDE DEF Cu
<1>5. Cu * Base \in Nat /\ Cu * Base >= 16
  BY <1>2, <1>4
<1> QED BY <1>1, <1>3, <1>4, <1>5 DEF Word, Sq, Cu

\* x stands in d at position i.
At(d, i, x) == i + Len(x) <= Len(d) /\ \A k \in 1 .. Len(x) : d[i + k] = x[k]

\* One more digit.
LEMMA DigitMore ==
    ASSUME NEW P \in Nat, NEW B \in Nat, NEW x \in 0 .. P - 1, NEW y \in 0 .. B - 1
    PROVE  (x * B) + y \in 0 .. (P * B) - 1
<1>1. PICK e \in Nat : P = (x + 1) + e
  <2>1. P - (x + 1) \in Nat /\ P = (x + 1) + (P - (x + 1))
    OBVIOUS
  <2> QED BY <2>1
<1>2. P * B = ((x * B) + B) + (e * B)
  BY <1>1
<1>3. x * B \in Nat /\ e * B \in Nat
  BY <1>1
<1> QED BY <1>2, <1>3

\* There is one quotient.
LEMMA DivOne ==
    ASSUME NEW n \in Nat, NEW M \in Nat \ {0}, NEW q \in Nat, NEW r \in 0 .. M - 1,
           n = (q * M) + r
    PROVE  n \div M = q /\ n % M = r
<1> DEFINE p == n \div M
           t == n % M
<1>1. p \in Nat /\ t \in 0 .. M - 1 /\ n = (p * M) + t
  BY DivMod
<1> HIDE DEF p, t
<1>2. ASSUME NEW x \in Nat, NEW y \in Nat, x < y PROVE y * M >= (x * M) + M
  <2>1. PICK e \in Nat : y = (x + 1) + e
    <3>1. y - (x + 1) \in Nat /\ y = (x + 1) + (y - (x + 1))
      BY <1>2
    <3> QED BY <3>1
  <2>2. y * M = ((x * M) + M) + (e * M)
    BY <2>1
  <2>3. x * M \in Nat /\ e * M \in Nat
    OBVIOUS
  <2> QED BY <2>2, <2>3
<1>3. q * M \in Nat /\ p * M \in Nat
  BY <1>1
<1>4. ~(p < q)
  <2> SUFFICES ASSUME p < q PROVE FALSE
    OBVIOUS
  <2>1. q * M >= (p * M) + M
    BY <1>1, <1>2
  <2> QED BY <1>1, <1>3, <2>1
<1>5. ~(q < p)
  <2> SUFFICES ASSUME q < p PROVE FALSE
    OBVIOUS
  <2>1. p * M >= (q * M) + M
    BY <1>1, <1>2
  <2> QED BY <1>1, <1>3, <2>1
<1>6. p = q
  BY <1>1, <1>4, <1>5
<1>7. t = r
  BY <1>1, <1>3, <1>6
<1> QED BY <1>6, <1>7 DEF p, t

\* Four bytes read as the number they were written from, as far as it fits.
LEMMA FourBytes ==
    ASSUME NEW n \in Nat
    PROVE  /\ WriteBe32(n) \in Seq(Bytes) /\ Len(WriteBe32(n)) = 4
           /\ \A d, i : At(d, i, WriteBe32(n)) => ReadBe32(d, i) = n % Word
<1> DEFINE B == Base
           a == n \div B
           b == a \div B
           c == b \div B
           e == c \div B
           w == WriteBe32(n)
<1>1. B \in Nat \ {0} /\ B * B \in Nat /\ (B * B) * B \in Nat
      /\ Word = ((B * B) * B) * B /\ Word \in Nat \ {0}
  BY BaseIs
<1>2. w = <<Digit[c % B], Digit[b % B], Digit[a % B], Digit[n % B]>>
  BY DEF WriteBe32
<1> HIDE DEF B, w
<1>3. a \in Nat /\ n % B \in 0 .. B - 1 /\ n = (a * B) + (n % B)
  BY <1>1, DivMod
<1> HIDE DEF a
<1>4. b \in Nat /\ a % B \in 0 .. B - 1 /\ a = (b * B) + (a % B)
  BY <1>1, <1>3, DivMod
<1> HIDE DEF b
<1>5. c \in Nat /\ b % B \in 0 .. B - 1 /\ b = (c * B) + (b % B)
  BY <1>1, <1>4, DivMod
<1> HIDE DEF c
<1>6. e \in Nat /\ c % B \in 0 .. B - 1 /\ c = (e * B) + (c % B)
  BY <1>1, <1>5, DivMod
<1> HIDE DEF e
<1>7. \A k \in 0 .. B - 1 : Digit[k] \in Bytes /\ Value(Digit[k]) = k
  BY BytesAre DEF B
<1>8. w \in Seq(Bytes) /\ Len(w) = 4
      /\ w[1] = Digit[c % B] /\ w[2] = Digit[b % B] /\ w[3] = Digit[a % B] /\ w[4] = Digit[n % B]
  BY <1>2, <1>3, <1>4, <1>5, <1>6, <1>7
<1> DEFINE x == c % B
           y == (x * B) + (b % B)
           z == (y * B) + (a % B)
           v == (z * B) + (n % B)
<1>9. ASSUME NEW d, NEW i, At(d, i, w) PROVE ReadBe32(d, i) = v
  <2>1. d[i + 1] = w[1] /\ d[i + 2] = w[2] /\ d[i + 3] = w[3] /\ d[i + 4] = w[4]
    BY <1>8, <1>9 DEF At
  <2>2. /\ Value(d[i + 1]) = x /\ Value(d[i + 2]) = b % B
        /\ Value(d[i + 3]) = a % B /\ Value(d[i + 4]) = n % B
    BY <1>3, <1>4, <1>5, <1>6, <1>7, <1>8, <2>1
  <2> QED BY <2>2 DEF ReadBe32, B
<1>10. x \in 0 .. B - 1
  BY <1>6
<1> HIDE DEF x
<1>11. y \in 0 .. (B * B) - 1
  BY <1>1, <1>5, <1>10, DigitMore
<1>12. b = (e * (B * B)) + y
  <2>1. c * B = ((e * B) * B) + (x * B)
    BY <1>1, <1>6, <1>10 DEF x
  <2>2. (e * B) * B = e * (B * B)
    BY <1>1, <1>6
  <2>3. (e * B) * B \in Nat /\ x * B \in Nat
    BY <1>1, <1>6, <1>10
  <2> QED BY <1>5, <2>1, <2>2, <2>3
<1> HIDE DEF y
<1>13. z \in 0 .. ((B * B) * B) - 1
  BY <1>1, <1>4, <1>11, DigitMore
<1>14. a = (e * ((B * B) * B)) + z
  <2> DEFINE Q == B * B
  <2>1. Q \in Nat /\ e * Q \in Nat
    BY <1>1, <1>6
  <2> HIDE DEF Q
  <2>2. b * B = ((e * Q) * B) + (y * B)
    BY <1>1, <1>11, <1>12, <2>1 DEF Q
  <2>3. (e * Q) * B = e * (Q * B)
    BY <1>1, <1>6, <2>1
  <2>4. (e * Q) * B \in Nat /\ y * B \in Nat
    BY <1>1, <1>11, <2>1
  <2> QED BY <1>4, <2>2, <2>3, <2>4 DEF Q
<1> HIDE DEF z
<1>15. v \in 0 .. (((B * B) * B) * B) - 1
  BY <1>1, <1>3, <1>13, DigitMore
<1>16. n = (e * (((B * B) * B) * B)) + v
  <2> DEFINE Q == (B * B) * B
  <2>1. Q \in Nat /\ e * Q \in Nat
    BY <1>1, <1>6
  <2>2. a = (e * Q) + z
    BY <1>14
  <2>3. z \in Nat
    BY <1>1, <1>13
  <2> HIDE DEF Q
  <2>4. a * B = ((e * Q) * B) + (z * B)
    BY <1>1, <2>1, <2>2, <2>3
  <2>5. (e * Q) * B = e * (Q * B)
    BY <1>1, <1>6, <2>1
  <2>6. (e * Q) * B \in Nat /\ z * B \in Nat
    BY <1>1, <2>1, <2>3
  <2> QED BY <1>3, <2>4, <2>5, <2>6 DEF Q
<1> HIDE DEF v
<1>17. n % Word = v
  BY <1>1, <1>6, <1>15, <1>16, DivOne
<1> QED BY <1>8, <1>9, <1>17 DEF w

\* What fits is read.
LEMMA FourBytesFit ==
    ASSUME NEW n \in 0 .. Word - 1
    PROVE  /\ WriteBe32(n) \in Seq(Bytes) /\ Len(WriteBe32(n)) = 4
           /\ \A d, i : At(d, i, WriteBe32(n)) => ReadBe32(d, i) = n
<1>1. n \in Nat /\ Word \in Nat \ {0} /\ n = (0 * Word) + n
  BY BaseIs
<1>2. n % Word = n
  BY <1>1, DivOne
<1> QED BY <1>1, <1>2, FourBytes

\* Two parts in a row.
LEMMA AtBoth ==
    ASSUME NEW S, NEW d \in Seq(S), NEW i \in Nat, NEW x \in Seq(S), NEW y \in Seq(S)
    PROVE  At(d, i, x \o y) <=> At(d, i, x) /\ At(d, i + Len(x), y)
<1> DEFINE m == Len(x)
           n == Len(y)
           z == x \o y
<1>1. m \in Nat /\ n \in Nat /\ Len(d) \in Nat
  OBVIOUS
<1>2. /\ Len(z) = m + n
      /\ \A k \in 1 .. m : z[k] = x[k]
      /\ \A k \in 1 .. n : z[m + k] = y[k]
  BY Joined
<1> HIDE DEF m, n, z
<1>3. ASSUME i + (m + n) <= Len(d), \A k \in 1 .. m + n : d[i + k] = z[k]
      PROVE  /\ i + m <= Len(d) /\ \A k \in 1 .. m : d[i + k] = x[k]
             /\ (i + m) + n <= Len(d) /\ \A k \in 1 .. n : d[(i + m) + k] = y[k]
  <2>1. i + m <= Len(d) /\ (i + m) + n <= Len(d)
    BY <1>1, <1>3
  <2>2. ASSUME NEW k \in 1 .. m PROVE d[i + k] = x[k]
    <3>1. k \in 1 .. m + n
      BY <1>1
    <3> QED BY <1>2, <1>3, <3>1
  <2>3. ASSUME NEW k \in 1 .. n PROVE d[(i + m) + k] = y[k]
    <3>1. m + k \in 1 .. m + n /\ i + (m + k) = (i + m) + k
      BY <1>1
    <3> QED BY <1>2, <1>3, <3>1
  <2> QED BY <2>1, <2>2, <2>3
<1>4. ASSUME \A k \in 1 .. m : d[i + k] = x[k],
             (i + m) + n <= Len(d), \A k \in 1 .. n : d[(i + m) + k] = y[k]
      PROVE  i + (m + n) <= Len(d) /\ \A k \in 1 .. m + n : d[i + k] = z[k]
  <2>1. i + (m + n) <= Len(d)
    BY <1>1, <1>4
  <2>2. ASSUME NEW k \in 1 .. m + n PROVE d[i + k] = z[k]
    <3>1. CASE k \in 1 .. m
      BY <1>2, <1>4, <3>1
    <3>2. CASE k \notin 1 .. m
      <4> DEFINE j == k - m
      <4>1. j \in 1 .. n /\ k = m + j /\ i + k = (i + m) + j
        BY <1>1, <3>2
      <4> HIDE DEF j
      <4> QED BY <1>2, <1>4, <4>1
    <3> QED BY <3>1, <3>2
  <2> QED BY <2>1, <2>2
<1>5. At(d, i, z) <=> i + (m + n) <= Len(d) /\ \A k \in 1 .. m + n : d[i + k] = z[k]
  BY <1>2 DEF At
<1>6. At(d, i, x) <=> i + m <= Len(d) /\ \A k \in 1 .. m : d[i + k] = x[k]
  BY DEF At, m
<1>7. At(d, i + m, y) <=> (i + m) + n <= Len(d) /\ \A k \in 1 .. n : d[(i + m) + k] = y[k]
  BY DEF At, n
<1>8. At(d, i, z) <=> At(d, i, x) /\ At(d, i + m, y)
  BY <1>3, <1>4, <1>5, <1>6, <1>7
<1> QED BY <1>8 DEF m, z

\* What is in a part is in the whole.
LEMMA AtIn ==
    ASSUME NEW S, NEW d \in Seq(S), NEW i \in Nat, NEW x \in Seq(S), NEW j \in Nat, NEW y \in Seq(S),
           At(d, i, x), At(x, j, y)
    PROVE  At(d, i + j, y)
<1> DEFINE m == Len(x)
           n == Len(y)
<1>1. m \in Nat /\ n \in Nat /\ Len(d) \in Nat
  OBVIOUS
<1>2. i + m <= Len(d) /\ \A k \in 1 .. m : d[i + k] = x[k]
  BY DEF At
<1>3. j + n <= m /\ \A k \in 1 .. n : x[j + k] = y[k]
  BY DEF At
<1> HIDE DEF m, n
<1>4. ASSUME NEW k \in 1 .. n PROVE d[(i + j) + k] = y[k]
  <2>1. j + k \in 1 .. m /\ i + (j + k) = (i + j) + k
    BY <1>1, <1>3
  <2> QED BY <1>2, <1>3, <2>1
<1>5. (i + j) + n <= Len(d)
  BY <1>1, <1>2, <1>3
<1> QED BY <1>4, <1>5 DEF At, n

\* The whole is at its beginning.
LEMMA AtSelf ==
    ASSUME NEW S, NEW d \in Seq(S)
    PROVE  At(d, 0, d)
BY DEF At

\* The two halves of a sequence.
LEMMA AtHalves ==
    ASSUME NEW S, NEW x \in Seq(S), NEW y \in Seq(S)
    PROVE  At(x \o y, 0, x) /\ At(x \o y, Len(x), y)
<1> DEFINE z == x \o y
<1>1. z \in Seq(S)
  BY Joined
<1>2. At(z, 0, z) /\ 0 \in Nat
  BY <1>1, AtSelf
<1>3. 0 + Len(x) = Len(x)
  OBVIOUS
<1>4. At(z, 0, x) /\ At(z, 0 + Len(x), y)
  BY <1>1, <1>2, AtBoth
<1> QED BY <1>3, <1>4

\* SubSeq takes it out.
LEMMA AtSub ==
    ASSUME NEW S, NEW d \in Seq(S), NEW i \in Nat, NEW x \in Seq(S), At(d, i, x)
    PROVE  SubSeq(d, i + 1, i + Len(x)) = x
<1> DEFINE m == Len(x)
           y == SubSeq(d, i + 1, i + m)
<1>1. m \in Nat /\ Len(d) \in Nat
  OBVIOUS
<1>2. i + m <= Len(d) /\ \A k \in 1 .. m : d[i + k] = x[k]
  BY DEF At
<1> HIDE DEF m
<1>3. y \in Seq(S) /\ Len(y) = m /\ \A k \in 1 .. m : y[k] = d[i + k]
  <2>1. ((i + m) - (i + 1)) + 1 = m
    BY <1>1
  <2>2. \A k \in 1 .. m : ((i + 1) + k) - 1 = i + k
    BY <1>1
  <2>3. i + 1 \in 1 .. Len(d) + 1 /\ i + m \in (i + 1) - 1 .. Len(d)
    BY <1>1, <1>2
  <2> QED BY <2>1, <2>2, <2>3, SubSeqProperties
<1> HIDE DEF y
<1>4. Len(y) = Len(x) /\ \A k \in 1 .. Len(y) : y[k] = x[k]
  BY <1>2, <1>3 DEF m
<1>5. y = x
  BY <1>3, <1>4, SeqEqual
<1> QED BY <1>5 DEF y, m

\* So do eight.
LEMMA EightBytes ==
    ASSUME NEW n \in Nat, n \div Word < Word
    PROVE  /\ WriteBe64(n) \in Seq(Bytes) /\ Len(WriteBe64(n)) = 8
           /\ \A d \in Seq(Bytes), i \in Nat : At(d, i, WriteBe64(n)) => ReadBe64(d, i) = n
<1> DEFINE h == n \div Word
           x == WriteBe32(h)
           y == WriteBe32(n)
<1>1. Word \in Nat \ {0}
  BY BaseIs
<1>2. h \in Nat /\ n % Word \in Nat /\ n = (h * Word) + (n % Word)
  BY <1>1, DivMod
<1>3. h \in 0 .. Word - 1
  BY <1>1, <1>2
<1>4. WriteBe64(n) = x \o y
  BY DEF WriteBe64
<1> HIDE DEF h
<1>5. x \in Seq(Bytes) /\ Len(x) = 4 /\ \A d, i : At(d, i, x) => ReadBe32(d, i) = h
  BY <1>3, FourBytesFit
<1>6. y \in Seq(Bytes) /\ Len(y) = 4 /\ \A d, i : At(d, i, y) => ReadBe32(d, i) = n % Word
  BY FourBytes
<1> HIDE DEF x, y
<1>7. x \o y \in Seq(Bytes) /\ Len(x \o y) = 8
  <2>1. x \in Seq(Bytes) /\ y \in Seq(Bytes)
    BY <1>5, <1>6
  <2>2. x \o y \in Seq(Bytes) /\ Len(x \o y) = Len(x) + Len(y)
    BY <2>1, Joined
  <2> QED BY <1>5, <1>6, <2>2
<1>8. ASSUME NEW d \in Seq(Bytes), NEW i \in Nat, At(d, i, x \o y) PROVE ReadBe64(d, i) = n
  <2>1. At(d, i, x) /\ At(d, i + Len(x), y)
    BY <1>5, <1>6, <1>8, AtBoth
  <2>2. ReadBe32(d, i) = h /\ ReadBe32(d, i + 4) = n % Word
    BY <1>5, <1>6, <2>1
  <2> QED BY <1>2, <2>2 DEF ReadBe64
<1> QED BY <1>4, <1>7, <1>8

-------------------------------------------------------------------------------
(* Strings, blobs and numbers.                                             *)

\* Padding goes to the next multiple of four.
LEMMA PaddedIs ==
    ASSUME NEW n \in Nat
    PROVE  /\ Padded4(n) \in Nat /\ Padded4(n) % 4 = 0
           /\ n <= Padded4(n) /\ Padded4(n) <= n + 3
           /\ \A k \in Nat : k % 4 = 0 => Padded4(k + n) = k + Padded4(n)
<1>1. ASSUME NEW k \in Nat, k % 4 = 0 PROVE ((k + n + 3) \div 4) * 4 = k + ((n + 3) \div 4) * 4
  BY <1>1
<1> QED BY <1>1 DEF Padded4

\* What is four bytes at a time stays so.
LEMMA FourMore ==
    ASSUME NEW i \in Nat, NEW j \in Nat, i % 4 = 0, j % 4 = 0
    PROVE  (i + j) % 4 = 0
OBVIOUS

\* Padding is bytes.
LEMMA NulsAre ==
    ASSUME NEW n \in Nat
    PROVE  Nuls(n) \in Seq(Bytes) /\ Len(Nuls(n)) = n /\ \A k \in 1 .. n : Nuls(n)[k] = NUL
BY BytesAre DEF Nuls

\* What texts are.
Text == Seq(Bytes \ {NUL})

\* A letter is a text.
LEMMA OneText ==
    \A b \in Bytes \ {NUL} : <<b>> \in Text /\ Len(<<b>>) = 1 /\ <<b>>[1] = b
BY DEF Text

\* A text has no NUL in it.
LEMMA TextBytes ==
    ASSUME NEW s \in Text
    PROVE  s \in Seq(Bytes) /\ \A k \in 1 .. Len(s) : s[k] # NUL
<1>1. Bytes \ {NUL} \subseteq Bytes
  OBVIOUS
<1> QED BY <1>1 DEF Text

\* A padded string is the string and one to four NULs.
LEMMA PaddedString ==
    ASSUME NEW s \in Text
    PROVE  LET w == WritePaddedString(s)
           IN /\ w \in Seq(Bytes) /\ Len(w) = Padded4(Len(s) + 1)
              /\ At(w, 0, s) /\ \A k \in Len(s) + 1 .. Len(w) : w[k] = NUL
<1> DEFINE l == Len(s)
           n == Padded4(l + 1)
           z == Nuls(n - l)
           w == WritePaddedString(s)
<1>1. l \in Nat /\ s \in Seq(Bytes)
  BY TextBytes DEF Text
<1>2. n \in Nat /\ l + 1 <= n
  <2>1. l + 1 \in Nat
    BY <1>1
  <2> QED BY <2>1, PaddedIs
<1>3. w = s \o z
  BY DEF WritePaddedString
<1> HIDE DEF n, w
<1>4. z \in Seq(Bytes) /\ Len(z) = n - l /\ \A k \in 1 .. n - l : z[k] = NUL
  <2>1. n - l \in Nat
    BY <1>1, <1>2
  <2> QED BY <2>1, NulsAre
<1> HIDE DEF z
<1>5. /\ s \o z \in Seq(Bytes) /\ Len(s \o z) = l + (n - l)
      /\ \A k \in 1 .. n - l : (s \o z)[l + k] = z[k]
  <2>1. z \in Seq(Bytes) /\ s \in Seq(Bytes)
    BY <1>1, <1>4
  <2>2. /\ s \o z \in Seq(Bytes) /\ Len(s \o z) = Len(s) + Len(z)
        /\ \A k \in 1 .. Len(z) : (s \o z)[Len(s) + k] = z[k]
    BY <2>1, Joined
  <2> QED BY <1>4, <2>2 DEF l
<1>6. At(s \o z, 0, s)
  BY <1>1, <1>4, AtHalves
<1>7. Len(w) = n
  BY <1>1, <1>2, <1>3, <1>5
<1> HIDE DEF l
<1>8. ASSUME NEW k \in l + 1 .. n PROVE w[k] = NUL
  <2> DEFINE j == k - l
  <2>1. j \in 1 .. n - l /\ k = l + j
    BY <1>1, <1>2
  <2> HIDE DEF j
  <2> QED BY <1>3, <1>4, <1>5, <2>1
<1> QED BY <1>3, <1>5, <1>6, <1>7, <1>8 DEF l, n, w

\* readString reads what writePaddedString wrote and stops behind the padding.
LEMMA StringRead ==
    ASSUME NEW s \in Text, NEW d \in Seq(Bytes), NEW i \in Nat, i % 4 = 0,
           At(d, i, WritePaddedString(s))
    PROVE  ReadString(d, i) =
               [ok |-> TRUE, i |-> i + Padded4(Len(s) + 1), val |-> s]
<1> DEFINE l == Len(s)
           n == Padded4(l + 1)
           w == WritePaddedString(s)
           ends == {z \in i + 1 .. Len(d) : d[z] = NUL}
           e == (i + l) + 1
<1>1. l \in Nat /\ s \in Seq(Bytes) /\ \A k \in 1 .. l : s[k] # NUL
  BY TextBytes DEF Text
<1>2. n \in Nat /\ l + 1 <= n /\ Padded4(i + (l + 1)) = i + n
  <2>1. l + 1 \in Nat
    BY <1>1
  <2>2. Padded4(l + 1) \in Nat /\ l + 1 <= Padded4(l + 1)
    BY <2>1, PaddedIs
  <2>3. \A k \in Nat : k % 4 = 0 => Padded4(k + (l + 1)) = k + Padded4(l + 1)
    BY <2>1, PaddedIs
  <2> QED BY <2>2, <2>3
<1>3. w \in Seq(Bytes) /\ Len(w) = n /\ At(w, 0, s) /\ \A k \in l + 1 .. n : w[k] = NUL
  BY PaddedString
<1> HIDE DEF w, n
<1>4. i + n <= Len(d) /\ \A k \in 1 .. n : d[i + k] = w[k]
  BY <1>3 DEF At, w
<1>5. At(d, i, s)
  <2>1. i + 0 = i /\ 0 \in Nat
    OBVIOUS
  <2>2. At(d, i, w)
    BY DEF w
  <2>3. At(d, i + 0, s)
    BY <1>1, <1>3, <2>1, <2>2, AtIn
  <2> QED BY <2>1, <2>3
<1>6. SubSeq(d, i + 1, e - 1) = s
  <2>1. e - 1 = i + Len(s)
    BY <1>1
  <2>2. SubSeq(d, i + 1, i + Len(s)) = s
    BY <1>1, <1>5, AtSub
  <2> QED BY <2>1, <2>2
<1>7. \A k \in 1 .. l : d[i + k] = s[k]
  BY <1>5 DEF At
<1> HIDE DEF l
<1>8. e \in ends
  <2>1. l + 1 \in 1 .. n /\ l + 1 \in l + 1 .. n /\ e = i + (l + 1) /\ e \in i + 1 .. Len(d)
    BY <1>1, <1>2, <1>4
  <2>2. d[i + (l + 1)] = NUL
    BY <1>3, <1>4, <2>1
  <2> QED BY <2>1, <2>2
<1>9. \A y \in ends : e <= y
  <2> SUFFICES ASSUME NEW y \in ends, y < e PROVE FALSE
    BY <1>1
  <2> DEFINE k == y - i
  <2>1. k \in 1 .. l /\ y = i + k
    BY <1>1
  <2> HIDE DEF k
  <2>2. d[y] = s[k] /\ s[k] # NUL
    BY <1>1, <1>7, <2>1
  <2> QED BY <2>2
<1>10. (CHOOSE z \in ends : \A y \in ends : z <= y) = e
  <2>1. \A z \in ends : (\A y \in ends : z <= y) => z = e
    <3> SUFFICES ASSUME NEW z \in ends, \A y \in ends : z <= y PROVE z = e
      OBVIOUS
    <3>1. z <= e /\ e <= z
      BY <1>8, <1>9
    <3>2. z \in Nat /\ e \in Nat
      BY <1>1
    <3> QED BY <3>1, <3>2
  <2> QED BY <1>8, <1>9, <2>1
<1>11. Padded4(e) = i + n /\ ~(Padded4(e) > Len(d))
  <2>1. e = i + (l + 1)
    BY <1>1
  <2> QED BY <1>2, <1>4, <2>1
<1>12. ReadString(d, i) =
        IF ends = {} \/ Padded4(CHOOSE z \in ends : \A y \in ends : z <= y) > Len(d) THEN Fails
        ELSE [ok |-> TRUE, i |-> Padded4(CHOOSE z \in ends : \A y \in ends : z <= y),
              val |-> SubSeq(d, i + 1, (CHOOSE z \in ends : \A y \in ends : z <= y) - 1)]
  BY DEF ReadString
<1> HIDE DEF e, ends
<1>13. ends # {}
  BY <1>8
<1> QED BY <1>6, <1>10, <1>11, <1>12, <1>13 DEF n, l

-------------------------------------------------------------------------------
(* Arguments.                                                              *)

\* The arguments a message may have.
Arg == {a \in [tag : Bytes, val : Seq(Bytes)] : IsArg(a)}

\* The tags are letters.
LEMMA TagsAre ==
    /\ Fours \cup Eights \cup Texts \cup Nothing \cup Brackets \cup {"b", "/", ","}
          \subseteq Bytes \ {NUL}
    /\ {"#", "b", "u", "n", "d", "l", "e"} \subseteq Bytes \ {NUL}
BY BytesAssumption, Zenon

\* The kinds of arguments exclude each other; what Body and ParseOneTag do with each.
LEMMA ArgKinds ==
    ASSUME NEW a \in Arg
    PROVE  /\ a.tag \in Bytes /\ a.tag # NUL /\ a.val \in Seq(Bytes)
           /\ a = [tag |-> a.tag, val |-> a.val]
           /\ \/ /\ a.tag \in Texts /\ a.val \in Text
                 /\ Body(a) = WritePaddedString(a.val)
                 /\ \A d, i : ParseOneTag(a.tag, d, i) = ReadString(d, i)
              \/ /\ a.tag = "b" /\ Len(a.val) < Word
                 /\ Body(a) = WriteBe32(Len(a.val))
                                 \o (a.val \o Nuls(Padded4(Len(a.val)) - Len(a.val)))
                 /\ \A d, i : ParseOneTag(a.tag, d, i) = ReadBlob(d, i)
              \/ /\ a.tag = "c" /\ Len(a.val) = 1 /\ Body(a) = Nuls(3) \o a.val
                 /\ \A d, i : ParseOneTag(a.tag, d, i) = ReadChar(d, i)
              \/ /\ a.tag \in Fours \ {"c"} /\ Len(a.val) = 4 /\ Body(a) = a.val
                 /\ \A d, i : ParseOneTag(a.tag, d, i) = Read(d, i, 4)
              \/ /\ a.tag \in Eights /\ Len(a.val) = 8 /\ Body(a) = a.val
                 /\ \A d, i : ParseOneTag(a.tag, d, i) = Read(d, i, 8)
              \/ /\ a.tag \in Nothing /\ a.val = <<>> /\ Body(a) = a.val
                 /\ \A d, i : ParseOneTag(a.tag, d, i) = Read(d, i, 0)
              \/ /\ a.tag \in Brackets /\ a.val = <<>> /\ Body(a) = a.val
<1>1. a \in [tag : Bytes, val : Seq(Bytes)] /\ IsArg(a)
  BY DEF Arg
<1>2. a.tag \in Bytes /\ a.val \in Seq(Bytes) /\ a = [tag |-> a.tag, val |-> a.val]
  BY <1>1
<1>3. a.tag \in Fours \cup Eights \cup Texts \cup Nothing \cup Brackets \cup {"b", "/", ","}
  BY <1>1 DEF IsArg, Fours
<1>4. a.tag # NUL
  BY <1>3, TagsAre, Zenon
<1> DEFINE t == a.tag
<1>5. CASE t \in Texts
  <2>1. t # "b" /\ t # "c" /\ t \notin Fours /\ t \notin Eights /\ t \notin Nothing /\ t \notin Brackets
    BY <1>5 DEF Texts, Fours, Eights, Nothing, Brackets
  <2>2. a.val \in Text
    BY <1>1, <2>1 DEF IsArg, Text
  <2>3. Body(a) = WritePaddedString(a.val)
    BY <1>5, <2>1 DEF Body
  <2>4. \A d, i : ParseOneTag(t, d, i) = ReadString(d, i)
    BY <1>5, <2>1 DEF ParseOneTag
  <2> QED BY <1>2, <1>4, <1>5, <2>2, <2>3, <2>4
<1>6. CASE t = "b"
  <2>1. t \notin Texts /\ t # "c" /\ t \notin Fours /\ t \notin Eights /\ t \notin Nothing /\ t \notin Brackets
    BY <1>6 DEF Texts, Fours, Eights, Nothing, Brackets
  <2>2. Len(a.val) < Word
    BY <1>1, <2>1 DEF IsArg
  <2>3. Body(a) = WriteBe32(Len(a.val)) \o (a.val \o Nuls(Padded4(Len(a.val)) - Len(a.val)))
    BY <1>6, <2>1 DEF Body
  <2>4. \A d, i : ParseOneTag(t, d, i) = ReadBlob(d, i)
    BY <1>6, <2>1 DEF ParseOneTag
  <2> QED BY <1>2, <1>4, <1>6, <2>2, <2>3, <2>4
<1>7. CASE t = "c"
  <2>1. t \notin Texts /\ t # "b" /\ t \notin Eights /\ t \notin Nothing /\ t \notin Brackets
    BY <1>7 DEF Texts, Eights, Nothing, Brackets
  <2>2. Len(a.val) = 1
    BY <1>1, <1>7, <2>1 DEF IsArg
  <2>3. Body(a) = Nuls(3) \o a.val
    BY <1>7, <2>1 DEF Body
  <2>4. \A d, i : ParseOneTag(t, d, i) = ReadChar(d, i)
    BY <1>7, <2>1 DEF ParseOneTag
  <2> QED BY <1>2, <1>4, <1>7, <2>2, <2>3, <2>4
<1>8. CASE t \in Fours \ {"c"}
  <2>1. t \notin Texts /\ t # "b" /\ t # "c" /\ t \notin Eights /\ t \notin Nothing /\ t \notin Brackets
    BY <1>8 DEF Texts, Fours, Eights, Nothing, Brackets
  <2>2. Len(a.val) = 4
    BY <1>1, <1>8, <2>1 DEF IsArg
  <2>3. Body(a) = a.val
    BY <1>8, <2>1 DEF Body
  <2>4. \A d, i : ParseOneTag(t, d, i) = Read(d, i, 4)
    BY <1>8, <2>1 DEF ParseOneTag
  <2> QED BY <1>2, <1>4, <1>8, <2>2, <2>3, <2>4
<1>9. CASE t \in Eights
  <2>1. t \notin Texts /\ t # "b" /\ t # "c" /\ t \notin Fours /\ t \notin Nothing /\ t \notin Brackets
    BY <1>9 DEF Texts, Fours, Eights, Nothing, Brackets
  <2>2. Len(a.val) = 8
    BY <1>1, <1>9, <2>1 DEF IsArg
  <2>3. Body(a) = a.val
    BY <1>9, <2>1 DEF Body
  <2>4. \A d, i : ParseOneTag(t, d, i) = Read(d, i, 8)
    BY <1>9, <2>1 DEF ParseOneTag
  <2> QED BY <1>2, <1>4, <1>9, <2>2, <2>3, <2>4
<1>10. CASE t \in Nothing
  <2>1. t \notin Texts /\ t # "b" /\ t # "c" /\ t \notin Fours /\ t \notin Eights /\ t \notin Brackets
    BY <1>10 DEF Texts, Fours, Eights, Nothing, Brackets
  <2>2. a.val = <<>>
    BY <1>1, <1>10, <2>1 DEF IsArg
  <2>3. Body(a) = a.val
    BY <1>10, <2>1 DEF Body
  <2>4. \A d, i : ParseOneTag(t, d, i) = Read(d, i, 0)
    BY <1>10, <2>1 DEF ParseOneTag
  <2> QED BY <1>2, <1>4, <1>10, <2>2, <2>3, <2>4
<1>11. CASE t \in Brackets
  <2>1. t \notin Texts /\ t # "b" /\ t # "c" /\ t \notin Fours /\ t \notin Eights /\ t \notin Nothing
    BY <1>11 DEF Texts, Fours, Eights, Nothing, Brackets
  <2>2. a.val = <<>>
    BY <1>1, <1>11, <2>1 DEF IsArg
  <2>3. Body(a) = a.val
    BY <1>11, <2>1 DEF Body
  <2> QED BY <1>2, <1>4, <1>11, <2>2, <2>3
<1>12. t \in Texts \/ t = "b" \/ t = "c" \/ t \in Fours \ {"c"} \/ t \in Eights \/ t \in Nothing
       \/ t \in Brackets
  BY <1>1 DEF IsArg
<1> QED BY <1>5, <1>6, <1>7, <1>8, <1>9, <1>10, <1>11, <1>12

\* An argument is its tag and its bytes.
LEMMA ArgIs ==
    \A a \in Arg : /\ a.tag \in Bytes /\ a.tag # NUL
                   /\ a.val \in Seq(Bytes) /\ Len(a.val) \in Nat
                   /\ a = [tag |-> a.tag, val |-> a.val]
<1> SUFFICES ASSUME NEW a \in Arg
             PROVE  /\ a.tag \in Bytes /\ a.tag # NUL
                    /\ a.val \in Seq(Bytes) /\ Len(a.val) \in Nat
                    /\ a = [tag |-> a.tag, val |-> a.val]
  OBVIOUS
<1>1. /\ a.tag \in Bytes /\ a.tag # NUL /\ a.val \in Seq(Bytes)
      /\ a = [tag |-> a.tag, val |-> a.val]
  BY ArgKinds, Zenon
<1> HIDE DEF Arg
<1>2. Len(a.val) \in Nat
  BY <1>1
<1> QED BY <1>1, <1>2, Zenon

\* Bytes behind bytes.
LEMMA BytesJoined ==
    \A x, y \in Seq(Bytes) : x \o y \in Seq(Bytes) /\ Len(x \o y) = Len(x) + Len(y)
BY Joined

\* What an argument adds to the body keeps it in step.
LEMMA BodyIs ==
    ASSUME NEW a \in Arg
    PROVE  Body(a) \in Seq(Bytes) /\ Len(Body(a)) % 4 = 0
<1> DEFINE v == a.val
           t == a.tag
           n == Len(v)
<1>1. v \in Seq(Bytes) /\ n \in Nat
  BY ArgIs
<1>2. n = Len(v) /\ (v = <<>> => n = 0)
  OBVIOUS
<1> HIDE DEF n
<1>3. CASE v \in Text /\ Body(a) = WritePaddedString(v)
  <2>1. n + 1 \in Nat
    BY <1>1
  <2> QED BY <1>2, <1>3, <2>1, PaddedString, PaddedIs
<1>4. CASE n < Word /\ Body(a) = WriteBe32(n) \o (v \o Nuls(Padded4(n) - n))
  <2> DEFINE z == Nuls(Padded4(n) - n)
             w == WriteBe32(n)
  <2>1. Padded4(n) \in Nat /\ n <= Padded4(n) /\ Padded4(n) % 4 = 0
    BY <1>1, PaddedIs
  <2>2. Padded4(n) - n \in Nat
    BY <1>1, <2>1
  <2>3. z \in Seq(Bytes) /\ Len(z) = Padded4(n) - n
    BY <2>2, NulsAre
  <2>4. w \in Seq(Bytes)
    BY <1>1, FourBytes
  <2>5. Len(w) = 4
    BY <1>1, FourBytes
  <2> HIDE DEF z, w
  <2>6. v \o z \in Seq(Bytes) /\ Len(v \o z) = n + Len(z)
    BY <1>1, <1>2, <2>3, BytesJoined
  <2>7. w \o (v \o z) \in Seq(Bytes) /\ Len(w \o (v \o z)) = 4 + Len(v \o z)
    BY <2>4, <2>5, <2>6, BytesJoined
  <2>8. Len(w \o (v \o z)) = 4 + Padded4(n)
    BY <1>1, <2>1, <2>3, <2>6, <2>7
  <2>9. (4 + Padded4(n)) % 4 = 0
    BY <2>1
  <2> QED BY <1>4, <2>7, <2>8, <2>9 DEF z, w
<1>5. CASE n = 1 /\ Body(a) = Nuls(3) \o v
  <2>1. Nuls(3) \in Seq(Bytes) /\ Len(Nuls(3)) = 3
    BY NulsAre
  <2>2. Nuls(3) \o v \in Seq(Bytes) /\ Len(Nuls(3) \o v) = Len(Nuls(3)) + n
    BY <1>1, <1>2, <2>1, BytesJoined
  <2>3. n = 1 /\ Body(a) = Nuls(3) \o v
    BY <1>5, Zenon
  <2>4. Len(Nuls(3) \o v) = 4
    BY <2>1, <2>2, <2>3
  <2>5. 4 % 4 = 0
    OBVIOUS
  <2> QED BY <2>2, <2>3, <2>4, <2>5, Zenon
<1>6. CASE n \in {0, 4, 8} /\ Body(a) = v
  <2>1. n % 4 = 0
    BY <1>6
  <2> QED BY <1>1, <1>2, <1>6, <2>1
<1> QED BY <1>2, <1>3, <1>4, <1>5, <1>6, ArgKinds DEF n

\* Bytes that are copied are read as they are.
LEMMA PlainRead ==
    ASSUME NEW d \in Seq(Bytes), NEW i \in Nat, NEW x \in Seq(Bytes), At(d, i, x)
    PROVE  Read(d, i, Len(x)) = [ok |-> TRUE, i |-> i + Len(x), val |-> x]
<1>1. SubSeq(d, i + 1, i + Len(x)) = x
  BY AtSub
<1>2. i + Len(x) <= Len(d) /\ Len(x) \in Nat /\ Len(d) \in Nat
  BY DEF At
<1>3. ~(i + Len(x) > Len(d))
  BY <1>2
<1> QED BY <1>1, <1>3, Zenon DEF Read

\* readBlob.
LEMMA BlobRead ==
    ASSUME NEW d \in Seq(Bytes), NEW i \in Nat, NEW x \in Seq(Bytes), Len(x) < Word,
           At(d, i, WriteBe32(Len(x)) \o (x \o Nuls(Padded4(Len(x)) - Len(x))))
    PROVE  ReadBlob(d, i) = [ok |-> TRUE, i |-> i + 4 + Padded4(Len(x)), val |-> x]
<1> DEFINE n == Len(x)
           z == Nuls(Padded4(n) - n)
           w == WriteBe32(n)
<1>1. n \in Nat /\ Word \in Nat
  BY BaseIs
<1>2. n \in 0 .. Word - 1
  BY <1>1
<1>3. Padded4(n) \in Nat /\ n <= Padded4(n)
  BY <1>1, PaddedIs
<1>4. Padded4(n) - n \in Nat
  BY <1>1, <1>3
<1>5. z \in Seq(Bytes) /\ Len(z) = Padded4(n) - n
  BY <1>4, NulsAre
<1>6. w \in Seq(Bytes)
  BY <1>2, FourBytesFit
<1>7. Len(w) = 4 /\ \A e, j : At(e, j, w) => ReadBe32(e, j) = n
  BY <1>2, FourBytesFit
<1>8. At(d, i, w \o (x \o z))
  OBVIOUS
<1> HIDE DEF z, w
<1>9. x \o z \in Seq(Bytes)
  BY <1>5, Joined
<1>10. At(d, i, w) /\ At(d, i + Len(w), x \o z)
  BY <1>6, <1>8, <1>9, AtBoth
<1>11. i + 4 \in Nat /\ At(d, i + 4, x \o z)
  BY <1>7, <1>10
<1>12. z \in Seq(Bytes)
  BY <1>5
<1>13. At(d, i + 4, x) /\ At(d, (i + 4) + Len(x), z)
  BY <1>11, <1>12, AtBoth
<1>14. SubSeq(d, (i + 4) + 1, (i + 4) + Len(x)) = x
  BY <1>11, <1>13, AtSub
<1>15. (i + 4) + 1 = i + 5 /\ (i + 4) + Len(x) = i + 4 + n
  OBVIOUS
<1>16. (i + 4) + n + Len(z) <= Len(d)
  BY <1>13 DEF At
<1>17. i + 4 + Padded4(n) <= Len(d)
  BY <1>1, <1>3, <1>5, <1>16
<1>18. ReadBe32(d, i) = n
  BY <1>7, <1>10
<1> HIDE DEF n
<1>19. i + 4 <= Len(d) /\ Len(d) \in Nat
  BY <1>3, <1>17
<1>20. ReadBlob(d, i) = [ok |-> TRUE, i |-> i + 4 + Padded4(n), val |-> SubSeq(d, i + 5, i + 4 + n)]
  BY <1>3, <1>17, <1>18, <1>19 DEF ReadBlob
<1> QED BY <1>14, <1>15, <1>20 DEF n

\* Of one byte, the byte is all.
LEMMA Single == \A x \in Seq(Bytes) : Len(x) = 1 => x = <<x[1]>>
<1> SUFFICES ASSUME NEW x \in Seq(Bytes), Len(x) = 1 PROVE <<x[1]>> = x
  OBVIOUS
<1> DEFINE y == <<x[1]>>
<1>1. x[1] \in Bytes
  OBVIOUS
<1>2. y \in Seq(Bytes) /\ Len(y) = 1 /\ y[1] = x[1]
  BY <1>1
<1> HIDE DEF y
<1>3. \A k \in 1 .. Len(y) : y[k] = x[k]
  BY <1>2
<1>4. y = x
  BY <1>2, <1>3, SeqEqual
<1> QED BY <1>4 DEF y

\* A char is the last of its four bytes.
LEMMA CharRead ==
    ASSUME NEW d \in Seq(Bytes), NEW i \in Nat, NEW x \in Seq(Bytes), Len(x) = 1,
           At(d, i, Nuls(3) \o x)
    PROVE  ReadChar(d, i) = [ok |-> TRUE, i |-> i + 4, val |-> x]
<1>1. Nuls(3) \in Seq(Bytes) /\ Len(Nuls(3)) = 3
  BY NulsAre
<1>2. At(d, i + Len(Nuls(3)), x)
  BY <1>1, AtBoth
<1>3. At(d, i + 3, x)
  BY <1>1, <1>2
<1>4. (i + 3) + 1 <= Len(d) /\ d[(i + 3) + 1] = x[1]
  BY <1>3 DEF At
<1>5. i + 4 <= Len(d) /\ d[i + 4] = x[1] /\ Len(d) \in Nat
  BY <1>4
<1>6. <<d[i + 4]>> = x
  <2>1. x = <<x[1]>>
    BY Single
  <2> QED BY <1>5, <2>1, Zenon
<1>7. ~(i + 4 > Len(d))
  BY <1>5
<1> QED BY <1>6, <1>7, Zenon DEF ReadChar

\* Whatever an argument is, it is read as it was written.
LEMMA ArgRead ==
    ASSUME NEW a \in Arg, a.tag \notin Brackets,
           NEW d \in Seq(Bytes), NEW i \in Nat, i % 4 = 0, At(d, i, Body(a))
    PROVE  ParseOneTag(a.tag, d, i) = [ok |-> TRUE, i |-> i + Len(Body(a)), val |-> a.val]
<1> DEFINE v == a.val
           n == Len(v)
           goal == ParseOneTag(a.tag, d, i) = [ok |-> TRUE, i |-> i + Len(Body(a)), val |-> a.val]
<1>1. v \in Seq(Bytes) /\ n \in Nat
  BY ArgIs
<1>0. n = Len(v) /\ (v = <<>> => n = 0)
  OBVIOUS
<1> HIDE DEF n
<1>2. CASE /\ v \in Text /\ Body(a) = WritePaddedString(v)
           /\ ParseOneTag(a.tag, d, i) = ReadString(d, i)
  <2>1. Len(Body(a)) = Padded4(n + 1)
    BY <1>0, <1>2, PaddedString
  <2>2. ReadString(d, i) = [ok |-> TRUE, i |-> i + Padded4(n + 1), val |-> v]
    BY <1>0, <1>2, StringRead
  <2> QED BY <1>0, <1>2, <2>1, <2>2
<1>3. CASE /\ n < Word /\ Body(a) = WriteBe32(n) \o (v \o Nuls(Padded4(n) - n))
           /\ ParseOneTag(a.tag, d, i) = ReadBlob(d, i)
  <2> DEFINE z == Nuls(Padded4(n) - n)
             w == WriteBe32(n)
  <2>1. Padded4(n) \in Nat /\ n <= Padded4(n)
    BY <1>0, <1>1, PaddedIs
  <2>2. Padded4(n) - n \in Nat
    BY <1>0, <1>1, <2>1
  <2>3. z \in Seq(Bytes) /\ Len(z) = Padded4(n) - n
    BY <2>2, NulsAre
  <2>4. w \in Seq(Bytes)
    BY <1>0, <1>1, FourBytes
  <2>5. Len(w) = 4
    BY <1>0, <1>1, FourBytes
  <2>6. ReadBlob(d, i) = [ok |-> TRUE, i |-> i + 4 + Padded4(n), val |-> v]
    BY <1>0, <1>1, <1>3, BlobRead
  <2> HIDE DEF z, w
  <2>7. v \o z \in Seq(Bytes) /\ Len(v \o z) = n + Len(z)
    BY <1>0, <1>1, <2>3, BytesJoined
  <2>8. Len(w \o (v \o z)) = 4 + Len(v \o z)
    BY <2>4, <2>5, <2>7, BytesJoined
  <2>9. Len(w \o (v \o z)) = 4 + Padded4(n)
    BY <1>0, <1>1, <2>1, <2>3, <2>7, <2>8
  <2>10. Len(Body(a)) = 4 + Padded4(n)
    BY <1>3, <2>9 DEF w, z
  <2>11. i + (4 + Padded4(n)) = i + 4 + Padded4(n)
    BY <2>1
  <2> QED BY <1>3, <2>6, <2>10, <2>11
<1>4. CASE /\ n = 1 /\ Body(a) = Nuls(3) \o v
           /\ ParseOneTag(a.tag, d, i) = ReadChar(d, i)
  <2>1. Nuls(3) \in Seq(Bytes) /\ Len(Nuls(3)) = 3
    BY NulsAre
  <2>2. Len(Nuls(3) \o v) = Len(Nuls(3)) + n
    BY <1>0, <1>1, <2>1, BytesJoined
  <2>3. n = 1 /\ Body(a) = Nuls(3) \o v
    BY <1>4, Zenon
  <2>4. Len(Nuls(3) \o v) = 4
    <3>1. n = 1 /\ Len(Nuls(3)) = 3
      BY <2>1, <2>3, Zenon
    <3> DEFINE w == Nuls(3) \o v
               m == Len(w)
               l == Len(Nuls(3))
    <3>2. m = l + n
      BY <2>2
    <3> HIDE DEF m, l
    <3>3. l = 3
      BY <3>1 DEF l
    <3>4. m = 4
      BY <3>1, <3>2, <3>3
    <3> QED BY <3>4 DEF m
  <2>5. Len(Body(a)) = 4
    BY <2>3, <2>4, Zenon
  <2>6. Len(v) = 1 /\ At(d, i, Nuls(3) \o v)
    BY <1>0, <2>3, Zenon
  <2>7. ReadChar(d, i) = [ok |-> TRUE, i |-> i + 4, val |-> v]
    BY <1>1, <2>6, CharRead
  <2> QED BY <1>4, <2>5, <2>7, Zenon
<1>5. CASE Body(a) = v /\ ParseOneTag(a.tag, d, i) = Read(d, i, n)
  <2>1. Len(v) = n /\ At(d, i, v)
    BY <1>0, <1>5, Zenon
  <2>2. Read(d, i, n) = [ok |-> TRUE, i |-> i + n, val |-> v]
    BY <1>1, <2>1, PlainRead
  <2> QED BY <1>5, <2>1, <2>2, Zenon
<1>6. \/ a.tag \in Texts /\ v \in Text /\ Body(a) = WritePaddedString(v)
         /\ ParseOneTag(a.tag, d, i) = ReadString(d, i)
      \/ n < Word /\ Body(a) = WriteBe32(n) \o (v \o Nuls(Padded4(n) - n))
         /\ ParseOneTag(a.tag, d, i) = ReadBlob(d, i)
      \/ n = 1 /\ Body(a) = Nuls(3) \o v /\ ParseOneTag(a.tag, d, i) = ReadChar(d, i)
      \/ n = 4 /\ Body(a) = v /\ ParseOneTag(a.tag, d, i) = Read(d, i, 4)
      \/ n = 8 /\ Body(a) = v /\ ParseOneTag(a.tag, d, i) = Read(d, i, 8)
      \/ n = 0 /\ Body(a) = v /\ ParseOneTag(a.tag, d, i) = Read(d, i, 0)
  BY <1>0, ArgKinds, Zenon
<1> QED BY <1>2, <1>3, <1>4, <1>5, <1>6, Zenon

-------------------------------------------------------------------------------
(* Messages.                                                               *)

\* The loop of encodeMessage.
Parts(args, parts) ==
    parts = [n \in 0 .. Len(args) |->
                IF n = 0 THEN [tags |-> <<",">>, body |-> <<>>] ELSE AppendArg(parts[n - 1], args[n])]

\* What encodeMessage's loop has put together after each argument.
LEMMA PartsExist ==
    ASSUME NEW args \in Seq(Arg)
    PROVE  \E parts : Parts(args, parts) /\ Appended(args) = parts[Len(args)]
<1> DEFINE N == Len(args)
           S == [tags : Text, body : Seq(Bytes)]
           b == [tags |-> <<",">>, body |-> <<>>]
           F == [n \in 1 .. N |-> [p \in S |-> AppendArg(p, args[n])]]
<1>1. N \in Nat /\ \A n \in 1 .. N : args[n] \in Arg
  OBVIOUS
<1>2. b \in S
  <2>1. "," \in Bytes \ {NUL}
    BY TagsAre, Zenon
  <2>2. <<",">> \in Text
    BY <2>1, OneText
  <2>3. <<>> \in Seq(Bytes)
    OBVIOUS
  <2> QED BY <2>2, <2>3
<1>3. ASSUME NEW a \in Arg, NEW p \in S PROVE AppendArg(p, a) \in S
  <2>1. a.tag \in Bytes \ {NUL} /\ Body(a) \in Seq(Bytes)
    BY ArgIs, BodyIs
  <2>2. Append(p.tags, a.tag) \in Text
    BY <2>1, AppendProperties DEF Text
  <2>3. p.body \o Body(a) \in Seq(Bytes)
    BY <2>1, BytesJoined
  <2> QED BY <2>2, <2>3 DEF AppendArg
<1>4. F \in [1 .. N -> [S -> S]]
  BY <1>1, <1>3
<1>5. \A n \in 1 .. N : \A p \in S : F[n][p] = AppendArg(p, args[n])
  OBVIOUS
<1> HIDE DEF F, S, b, N
<1>0. N \in Nat
  BY <1>1
<1>6. PICK L \in [0 .. N -> S] : IsLoop(L, b, F, N)
  BY <1>0, <1>2, <1>4, LoopIs
<1>7. \A n \in 0 .. N : L[n] = IF n = 0 THEN b ELSE AppendArg(L[n - 1], args[n])
  <2> TAKE n \in 0 .. N
  <2>1. L[0] = b
    BY <1>6 DEF IsLoop
  <2>2. ASSUME n # 0 PROVE L[n] = AppendArg(L[n - 1], args[n])
    <3>1. n \in 1 .. N /\ n - 1 \in 0 .. N
      BY <1>0, <2>2
    <3>2. L[n] = F[n][L[n - 1]]
      BY <1>6, <3>1 DEF IsLoop
    <3> QED BY <1>5, <1>6, <3>1, <3>2
  <2> QED BY <2>1, <2>2
<1>8. L = [n \in 0 .. N |-> IF n = 0 THEN b ELSE AppendArg(L[n - 1], args[n])]
  BY <1>6, <1>7
<1>9. Parts(args, L)
  BY <1>8 DEF Parts, N, b
<1> QED BY <1>9, Zenon DEF Appended, Parts

\* How the arguments lie in what encodeMessage collects: the tags in a row, the body
\* of the n-th between at[n - 1] and at[n].
Laid(args, p, at) ==
    /\ p.tags \in Text /\ p.body \in Seq(Bytes)
    /\ Len(p.tags) = Len(args) + 1 /\ p.tags[1] = ","
    /\ \A k \in 1 .. Len(args) : p.tags[k + 1] = args[k].tag
    /\ at[0] = 0 /\ at[Len(args)] = Len(p.body)
    /\ \A n \in 1 .. Len(args) : /\ at[n] = at[n - 1] + Len(Body(args[n]))
                                 /\ At(p.body, at[n - 1], Body(args[n]))

\* Every argument's bytes are where the loop put them.
LEMMA AppendedIs ==
    ASSUME NEW args \in Seq(Arg)
    PROVE  \E at \in [0 .. Len(args) -> Nat] : Laid(args, Appended(args), at)
<1> DEFINE N == Len(args)
<1>1. N \in Nat /\ \A n \in 1 .. N : args[n] \in Arg
  OBVIOUS
<1>2. PICK parts : Parts(args, parts) /\ Appended(args) = parts[N]
  BY PartsExist
<1> DEFINE b == [tags |-> <<",">>, body |-> <<>>]
<1>0. b.tags = <<",">> /\ b.body = <<>>
  OBVIOUS
<1>3. parts[0] = b /\ \A n \in 1 .. N : parts[n] = AppendArg(parts[n - 1], args[n])
  <2>1. \A n \in 0 .. N : parts[n] = IF n = 0 THEN b ELSE AppendArg(parts[n - 1], args[n])
    BY <1>2 DEF Parts
  <2> HIDE DEF b
  <2>2. \A n \in 1 .. N : n \in 0 .. N /\ n # 0
    OBVIOUS
  <2>3. 0 \in 0 .. N
    BY <1>1
  <2> QED BY <2>1, <2>2, <2>3
<1> DEFINE at == [n \in 0 .. N |-> Len(parts[n].body)]
           good(n) == /\ parts[n].tags \in Text /\ parts[n].body \in Seq(Bytes)
                      /\ Len(parts[n].tags) = n + 1 /\ parts[n].tags[1] = ","
                      /\ \A k \in 1 .. n : parts[n].tags[k + 1] = args[k].tag
                      /\ \A k \in 0 .. n : at[k] \in Nat
                      /\ \A k \in 1 .. n : /\ at[k] = at[k - 1] + Len(Body(args[k]))
                                           /\ At(parts[n].body, at[k - 1], Body(args[k]))
           T == {n \in 0 .. N : good(n)}
<1>4. \A n \in 0 .. N : at[n] = Len(parts[n].body)
  OBVIOUS
<1> HIDE DEF at
<1>5. good(0)
  <2>1. "," \in Bytes \ {NUL}
    BY TagsAre, Zenon
  <2>2. <<",">> \in Text /\ Len(<<",">>) = 1 /\ <<",">>[1] = ","
    BY <2>1, OneText
  <2>3. parts[0].tags = <<",">> /\ parts[0].body = <<>>
    BY <1>0, <1>3, Zenon
  <2>4. parts[0].tags \in Text /\ Len(parts[0].tags) = 0 + 1 /\ parts[0].tags[1] = ","
    <3>1. 0 + 1 = 1
      OBVIOUS
    <3> QED BY <2>2, <2>3, <3>1, Zenon
  <2>5. parts[0].body \in Seq(Bytes) /\ at[0] \in Nat
    <3>1. <<>> \in Seq(Bytes) /\ Len(<<>>) \in Nat
      OBVIOUS
    <3>2. at[0] = Len(parts[0].body)
      BY <1>1, <1>4
    <3> QED BY <2>3, <3>1, <3>2
  <2>6. 1 .. 0 = {} /\ 0 .. 0 = {0}
    OBVIOUS
  <2> QED BY <2>4, <2>5, <2>6
<1>6. ASSUME NEW n \in 1 .. N, good(n - 1) PROVE good(n)
  <2> DEFINE a == args[n]
             p == parts[n - 1]
             B == Body(a)
             m == Len(p.body)
  <2>1. a \in Arg /\ n - 1 \in 0 .. N /\ n \in 0 .. N
    BY <1>1
  <2>2. a.tag \in Bytes \ {NUL} /\ B \in Seq(Bytes)
    BY <2>1, ArgIs, BodyIs
  <2>3. parts[n].tags = Append(p.tags, a.tag) /\ parts[n].body = p.body \o B
    <3>1. parts[n] = AppendArg(p, a)
      BY <1>3
    <3> HIDE DEF p, a
    <3> QED BY <3>1 DEF AppendArg
  <2>4. /\ p.tags \in Seq(Bytes \ {NUL}) /\ Len(p.tags) = n /\ p.tags[1] = ","
        /\ \A k \in 1 .. n - 1 : p.tags[k + 1] = args[k].tag
        /\ p.body \in Seq(Bytes)
    <3>1. /\ p.tags \in Text /\ p.body \in Seq(Bytes)
          /\ Len(p.tags) = (n - 1) + 1 /\ p.tags[1] = ","
          /\ \A k \in 1 .. n - 1 : p.tags[k + 1] = args[k].tag
      BY <1>6, Zenon
    <3>2. (n - 1) + 1 = n
      OBVIOUS
    <3> QED BY <3>1, <3>2, Zenon DEF Text
  <2>5. \A k \in 1 .. n - 1 : /\ at[k] = at[k - 1] + Len(Body(args[k]))
                              /\ At(p.body, at[k - 1], Body(args[k]))
    BY <1>6
  <2> HIDE DEF p, a, B
  <2> DEFINE tags == Append(p.tags, a.tag)
  <2>6. /\ tags \in Seq(Bytes \ {NUL}) /\ Len(tags) = n + 1 /\ tags[n + 1] = a.tag
        /\ \A k \in 1 .. n : tags[k] = p.tags[k]
    <3>1. p.tags \in Seq(Bytes \ {NUL}) /\ Len(p.tags) = n
      BY <2>4, Zenon
    <3>2. a.tag \in Bytes \ {NUL}
      BY <2>2, Zenon
    <3> QED BY <3>1, <3>2, AppendProperties
  <2> HIDE DEF tags
  <2>7. tags[1] = "," /\ \A k \in 1 .. n : tags[k + 1] = args[k].tag
    <3>1. tags[1] = ","
      <4>1. 1 \in 1 .. n
        OBVIOUS
      <4> QED BY <2>4, <2>6, <4>1, Zenon
    <3>2. ASSUME NEW k \in 1 .. n PROVE tags[k + 1] = args[k].tag
      <4>1. CASE k = n
        BY <2>6, <4>1 DEF a
      <4>2. CASE k # n
        <5>1. k \in 1 .. n - 1 /\ k + 1 \in 1 .. n
          BY <4>2
        <5> QED BY <2>4, <2>6, <5>1
      <4> QED BY <4>1, <4>2
    <3> QED BY <3>1, <3>2
  <2> DEFINE body == p.body \o B
  <2>8. body \in Seq(Bytes) /\ Len(body) = m + Len(B)
    BY <2>2, <2>4, BytesJoined
  <2>9. At(body, 0, p.body) /\ At(body, m, B)
    BY <2>2, <2>4, AtHalves
  <2>10. parts[n].body = body
    BY <2>3
  <2>11. at[n - 1] = m /\ at[n] = m + Len(B)
    <3>1. at[n] = Len(parts[n].body) /\ at[n - 1] = Len(parts[n - 1].body)
      BY <1>4, <2>1
    <3> QED BY <2>8, <2>10, <3>1 DEF p
  <2> HIDE DEF body, m
  <2>12. ASSUME NEW k \in 1 .. n
         PROVE  at[k] = at[k - 1] + Len(Body(args[k])) /\ At(body, at[k - 1], Body(args[k]))
    <3>1. CASE k = n
      BY <2>9, <2>11, <3>1 DEF a, B
    <3>2. CASE k # n
      <4>1. k \in 1 .. n - 1 /\ k \in 1 .. N /\ k - 1 \in 0 .. n - 1 /\ k - 1 \in 0 .. N
        BY <3>2
      <4>2. at[k] = at[k - 1] + Len(Body(args[k])) /\ At(p.body, at[k - 1], Body(args[k]))
        BY <2>5, <4>1
      <4>3. args[k] \in Arg
        BY <1>1, <4>1
      <4>4. Body(args[k]) \in Seq(Bytes)
        BY <4>3, BodyIs
      <4>5. at[k - 1] \in Nat
        BY <1>6, <4>1
      <4>6. At(body, 0 + at[k - 1], Body(args[k]))
        BY <2>4, <2>8, <2>9, <4>2, <4>4, <4>5, AtIn
      <4>7. 0 + at[k - 1] = at[k - 1]
        BY <4>5
      <4> QED BY <4>2, <4>6, <4>7
    <3> QED BY <3>1, <3>2
  <2>13. parts[n].tags = tags
    BY <2>3 DEF tags
  <2>14. \A k \in 0 .. n : at[k] \in Nat
    <3>1. m \in Nat /\ Len(B) \in Nat
      <4>1. B \in Seq(Bytes) /\ p.body \in Seq(Bytes)
        BY <2>2, <2>4, Zenon
      <4> QED BY <4>1 DEF m
    <3>2. at[n] \in Nat
      BY <2>11, <3>1
    <3> TAKE k \in 0 .. n
    <3>3. k = n \/ k \in 0 .. n - 1
      OBVIOUS
    <3> QED BY <1>6, <3>2, <3>3
  <2>15. \A k \in 1 .. n : /\ at[k] = at[k - 1] + Len(Body(args[k]))
                           /\ At(parts[n].body, at[k - 1], Body(args[k]))
    BY <2>10, <2>12, Zenon
  <2>16. parts[n].tags \in Text /\ Len(parts[n].tags) = n + 1 /\ parts[n].body \in Seq(Bytes)
    BY <2>6, <2>8, <2>10, <2>13, Zenon DEF Text
  <2>17. parts[n].tags[1] = "," /\ \A k \in 1 .. n : parts[n].tags[k + 1] = args[k].tag
    BY <2>7, <2>13, Zenon
  <2> QED BY <2>14, <2>15, <2>16, <2>17, Zenon
<1>7. \A n \in 0 .. N : n \in T
  <2>1. 0 \in T
    <3>1. 0 \in 0 .. N
      BY <1>1
    <3> QED BY <1>5, <3>1, Zenon
  <2>2. \A n \in 1 .. N : n - 1 \in T => n \in T
    <3> TAKE n \in 1 .. N
    <3>2. n \in 0 .. N
      OBVIOUS
    <3> HAVE n - 1 \in T
    <3>1. good(n - 1)
      OBVIOUS
    <3> QED BY <1>6, <3>1, <3>2, Zenon
  <2> HIDE DEF T
  <2> QED BY <1>1, <2>1, <2>2, UpTo
<1>8. good(N)
  <2>1. N \in 0 .. N
    BY <1>1
  <2> QED BY <1>7, <2>1, Zenon
<1>9. at[0] = 0
  <2>1. at[0] = Len(parts[0].body)
    BY <1>1, <1>4
  <2>2. parts[0].body = <<>>
    BY <1>0, <1>3, Zenon
  <2> QED BY <2>1, <2>2
<1>10. at[N] = Len(Appended(args).body)
  BY <1>1, <1>2, <1>4
<1>11. at \in [0 .. N -> Nat]
  BY <1>8 DEF at
<1>12. Laid(args, Appended(args), at)
  BY <1>2, <1>8, <1>9, <1>10, Zenon DEF Laid
<1> QED BY <1>11, <1>12, Zenon

-------------------------------------------------------------------------------
(* What the readers do with any bytes.  What one reads in a part it reads in the *)
(* whole.                                                                  *)

Result == [ok : BOOLEAN, i : Nat, val : Seq(Bytes)]

\* A reader that fails says so.
LEMMA FailsIs == Fails \in Result /\ ~Fails.ok
<1>1. <<>> \in Seq(Bytes)
  OBVIOUS
<1> QED BY <1>1 DEF Fails, Result

\* n bytes behind i.
LEMMA SubBytes ==
    ASSUME NEW d \in Seq(Bytes), NEW i \in Nat, NEW n \in Nat, i + n <= Len(d)
    PROVE  LET x == SubSeq(d, i + 1, i + n)
           IN x \in Seq(Bytes) /\ Len(x) = n /\ At(d, i, x)
<1> DEFINE x == SubSeq(d, i + 1, i + n)
<1>1. Len(d) \in Nat
  OBVIOUS
<1>2. x \in Seq(Bytes) /\ Len(x) = n /\ \A k \in 1 .. n : x[k] = d[i + k]
  <2>1. ((i + n) - (i + 1)) + 1 = n
    OBVIOUS
  <2>2. \A k \in 1 .. n : ((i + 1) + k) - 1 = i + k
    OBVIOUS
  <2>3. i + 1 \in 1 .. Len(d) + 1 /\ i + n \in (i + 1) - 1 .. Len(d)
    BY <1>1
  <2> QED BY <2>1, <2>2, <2>3, SubSeqProperties
<1> HIDE DEF x
<1>3. At(d, i, x)
  BY <1>2 DEF At
<1> QED BY <1>2, <1>3 DEF x

\* A part of the front is a part of the whole.
LEMMA SubSame ==
    ASSUME NEW p \in Seq(Bytes), NEW d \in Seq(Bytes), At(d, 0, p),
           NEW i \in Nat, NEW n \in Nat, i + n <= Len(p)
    PROVE  SubSeq(d, i + 1, i + n) = SubSeq(p, i + 1, i + n)
<1> DEFINE x == SubSeq(p, i + 1, i + n)
<1>1. x \in Seq(Bytes) /\ Len(x) = n /\ At(p, i, x)
  BY SubBytes
<1> HIDE DEF x
<1>2. At(d, 0 + i, x)
  <2>1. 0 \in Nat
    OBVIOUS
  <2> QED BY <1>1, <2>1, AtIn
<1>3. At(d, i, x)
  <2>1. 0 + i = i
    OBVIOUS
  <2> QED BY <1>2, <2>1
<1>4. SubSeq(d, i + 1, i + Len(x)) = x
  BY <1>1, <1>3, AtSub
<1> QED BY <1>1, <1>4 DEF x

\* The front has the bytes of the whole.
LEMMA SameBytes ==
    ASSUME NEW p \in Seq(Bytes), NEW d \in Seq(Bytes), At(d, 0, p)
    PROVE  Len(p) <= Len(d) /\ \A k \in 1 .. Len(p) : d[k] = p[k]
BY DEF At

\* Numbers are numbers.
LEMMA ReadBe32Is ==
    ASSUME NEW d \in Seq(Bytes), NEW i \in Nat, i + 4 <= Len(d)
    PROVE  /\ ReadBe32(d, i) \in Nat
           /\ \A e \in Seq(Bytes) : At(e, 0, d) => ReadBe32(e, i) = ReadBe32(d, i)
<1>1. i + 1 \in 1 .. Len(d) /\ i + 2 \in 1 .. Len(d) /\ i + 3 \in 1 .. Len(d) /\ i + 4 \in 1 .. Len(d)
  OBVIOUS
<1>2. ASSUME NEW k \in 1 .. Len(d) PROVE Value(d[k]) \in Nat
  <2>1. d[k] \in Bytes
    OBVIOUS
  <2>2. Value(d[k]) \in 0 .. Base - 1
    BY <2>1, BytesAre
  <2> QED BY <2>2
<1>3. Base \in Nat
  BY BaseIs
<1>4. \A x, y \in Nat : x * Base + y \in Nat
  BY <1>3
<1>5. ReadBe32(d, i) \in Nat
  <2> DEFINE a == Value(d[i + 1])
             b == Value(d[i + 2])
             c == Value(d[i + 3])
             f == Value(d[i + 4])
  <2>1. a \in Nat /\ b \in Nat /\ c \in Nat /\ f \in Nat
    BY <1>1, <1>2
  <2> HIDE DEF a, b, c, f
  <2>2. a * Base + b \in Nat
    BY <1>4, <2>1
  <2>3. (a * Base + b) * Base + c \in Nat
    BY <1>4, <2>1, <2>2
  <2>4. ((a * Base + b) * Base + c) * Base + f \in Nat
    BY <1>4, <2>1, <2>3
  <2> QED BY <2>4 DEF ReadBe32, a, b, c, f
<1>6. ASSUME NEW e \in Seq(Bytes), At(e, 0, d) PROVE ReadBe32(e, i) = ReadBe32(d, i)
  <2>1. e[i + 1] = d[i + 1] /\ e[i + 2] = d[i + 2] /\ e[i + 3] = d[i + 3] /\ e[i + 4] = d[i + 4]
    BY <1>1, <1>6, SameBytes
  <2> QED BY <2>1 DEF ReadBe32
<1> QED BY <1>5, <1>6

\* readString.
LEMMA StringMore ==
    ASSUME NEW p \in Seq(Bytes), NEW i \in Nat
    PROVE  LET r == ReadString(p, i)
           IN /\ r \in Result
              /\ r.ok => r.i <= Len(p) /\ \A d \in Seq(Bytes) : At(d, 0, p) => ReadString(d, i) = r
<1> DEFINE Ends(d) == {z \in i + 1 .. Len(d) : d[z] = NUL}
           First(E) == CHOOSE z \in E : \A y \in E : z <= y
           Got(d, z) == IF Padded4(z) > Len(d) THEN Fails
                        ELSE [ok |-> TRUE, i |-> Padded4(z), val |-> SubSeq(d, i + 1, z - 1)]
           E == Ends(p)
           e == First(E)
<1>1. Len(p) \in Nat
  OBVIOUS
<1>2. ASSUME NEW d \in Seq(Bytes)
      PROVE  ReadString(d, i) = IF Ends(d) = {} THEN Fails ELSE Got(d, First(Ends(d)))
  BY DEF ReadString
<1>3. CASE E = {}
  BY <1>2, <1>3, FailsIs
<1>4. CASE E # {}
  <2>1. E \in SUBSET Nat
    BY <1>1
  <2>2. PICK z \in E : \A y \in E : z <= y
    BY <1>4, <2>1, Least
  <2>3. z \in i + 1 .. Len(p) /\ p[z] = NUL /\ z \in Nat
    BY <1>1, <2>2
  <2>4. ASSUME NEW d \in Seq(Bytes), At(d, 0, p) PROVE Ends(d) # {} /\ First(Ends(d)) = z
    <3>1. Len(p) <= Len(d) /\ Len(d) \in Nat /\ \A k \in 1 .. Len(p) : d[k] = p[k]
      BY <2>4, SameBytes
    <3>2. z \in Ends(d)
      BY <1>1, <2>3, <3>1
    <3>3. \A y \in Ends(d) : z <= y
      <4> SUFFICES ASSUME NEW y \in Ends(d), y < z PROVE FALSE
        BY <2>3
      <4>1. y \in i + 1 .. Len(p) /\ y \in 1 .. Len(p) /\ d[y] = NUL
        BY <1>1, <2>3
      <4>2. y \in E
        BY <3>1, <4>1
      <4> QED BY <2>2, <2>3, <4>1, <4>2
    <3> HIDE DEF Ends
    <3>4. \A x \in Ends(d) : (\A y \in Ends(d) : x <= y) => x = z
      <4> SUFFICES ASSUME NEW x \in Ends(d), \A y \in Ends(d) : x <= y PROVE x = z
        OBVIOUS
      <4>1. x <= z /\ z <= x
        BY <3>2, <3>3
      <4>2. x \in Nat
        BY DEF Ends
      <4> QED BY <2>3, <4>1, <4>2
    <3> QED BY <3>2, <3>3, <3>4
  <2>5. At(p, 0, p)
    BY AtSelf
  <2>6. ReadString(p, i) = Got(p, z)
    BY <1>2, <2>4, <2>5
  <2>7. Padded4(z) \in Nat
    BY <2>3, PaddedIs
  <2>8. z - 1 \in Nat /\ (z - 1) - i \in Nat /\ i + ((z - 1) - i) = z - 1 /\ z - 1 <= Len(p)
    BY <1>1, <2>3
  <2>9. SubSeq(p, i + 1, z - 1) \in Seq(Bytes)
    <3>1. SubSeq(p, i + 1, i + ((z - 1) - i)) \in Seq(Bytes)
      BY <2>8, SubBytes
    <3> QED BY <2>8, <3>1
  <2>10. CASE Padded4(z) > Len(p)
    <3>1. ReadString(p, i) = Fails
      BY <2>6, <2>10
    <3> QED BY <3>1, FailsIs
  <2>11. CASE ~(Padded4(z) > Len(p))
    <3> DEFINE r == [ok |-> TRUE, i |-> Padded4(z), val |-> SubSeq(p, i + 1, z - 1)]
    <3>1. ReadString(p, i) = r
      BY <2>6, <2>11
    <3>2. r \in Result /\ r.ok /\ r.i = Padded4(z)
      BY <2>7, <2>9 DEF Result
    <3>3. Padded4(z) <= Len(p)
      BY <1>1, <2>7, <2>11
    <3>4. ASSUME NEW d \in Seq(Bytes), At(d, 0, p) PROVE ReadString(d, i) = r
      <4>1. ReadString(d, i) = Got(d, z)
        BY <1>2, <2>4, <3>4
      <4>2. Len(p) <= Len(d) /\ Len(d) \in Nat
        BY <3>4, SameBytes
      <4>3. ~(Padded4(z) > Len(d))
        BY <1>1, <2>7, <3>3, <4>2
      <4>4. SubSeq(d, i + 1, i + ((z - 1) - i)) = SubSeq(p, i + 1, i + ((z - 1) - i))
        BY <2>8, <3>4, SubSame
      <4>5. SubSeq(d, i + 1, z - 1) = SubSeq(p, i + 1, z - 1)
        BY <2>8, <4>4
      <4> QED BY <4>1, <4>3, <4>5
    <3> HIDE DEF r
    <3> QED BY <3>1, <3>2, <3>3, <3>4
  <2> QED BY <2>10, <2>11
<1> QED BY <1>3, <1>4

\* readBlob.
LEMMA BlobMore ==
    ASSUME NEW p \in Seq(Bytes), NEW i \in Nat
    PROVE  LET r == ReadBlob(p, i)
           IN /\ r \in Result
              /\ r.ok => r.i <= Len(p) /\ \A d \in Seq(Bytes) : At(d, 0, p) => ReadBlob(d, i) = r
<1> DEFINE Got(d, size) == IF i + 4 > Len(d) \/ i + 4 + Padded4(size) > Len(d) THEN Fails
                           ELSE [ok |-> TRUE, i |-> i + 4 + Padded4(size),
                                 val |-> SubSeq(d, i + 5, i + 4 + size)]
           size == ReadBe32(p, i)
           r == [ok |-> TRUE, i |-> i + 4 + Padded4(size), val |-> SubSeq(p, i + 5, i + 4 + size)]
<1>1. Len(p) \in Nat
  OBVIOUS
<1>2. \A d : ReadBlob(d, i) = Got(d, ReadBe32(d, i))
  BY DEF ReadBlob
<1>3. ReadBlob(p, i) = Got(p, size)
  BY <1>2
<1>4. CASE i + 4 > Len(p) \/ i + 4 + Padded4(size) > Len(p)
  <2>1. ReadBlob(p, i) = Fails
    BY <1>3, <1>4
  <2> QED BY <2>1, FailsIs
<1>5. CASE ~(i + 4 > Len(p) \/ i + 4 + Padded4(size) > Len(p))
  <2>1. i + 4 <= Len(p)
    BY <1>1, <1>5
  <2>2. size \in Nat
    BY <2>1, ReadBe32Is
  <2>3. \A d \in Seq(Bytes) : At(d, 0, p) => ReadBe32(d, i) = size
    BY <2>1, ReadBe32Is
  <2> HIDE DEF size
  <2>4. Padded4(size) \in Nat /\ size <= Padded4(size)
    BY <2>2, PaddedIs
  <2>5. i + 4 + Padded4(size) <= Len(p)
    BY <1>1, <1>5, <2>4
  <2>6. i + 4 \in Nat /\ (i + 4) + size <= Len(p) /\ (i + 4) + 1 = i + 5
    BY <1>1, <2>2, <2>4, <2>5
  <2>7. SubSeq(p, (i + 4) + 1, (i + 4) + size) \in Seq(Bytes)
    BY <2>2, <2>6, SubBytes
  <2>8. ReadBlob(p, i) = r
    BY <1>3, <1>5
  <2>9. i + 4 + Padded4(size) \in Nat
    BY <2>4
  <2>10. r \in Result /\ r.ok /\ r.i = i + 4 + Padded4(size)
    BY <2>6, <2>7, <2>9 DEF Result
  <2>11. ASSUME NEW d \in Seq(Bytes), At(d, 0, p) PROVE ReadBlob(d, i) = r
    <3>1. ReadBlob(d, i) = Got(d, size)
      BY <1>2, <2>3, <2>11
    <3>2. Len(p) <= Len(d) /\ Len(d) \in Nat
      BY <2>11, SameBytes
    <3>3. ~(i + 4 > Len(d) \/ i + 4 + Padded4(size) > Len(d))
      BY <1>1, <2>1, <2>5, <2>9, <3>2
    <3>4. SubSeq(d, (i + 4) + 1, (i + 4) + size) = SubSeq(p, (i + 4) + 1, (i + 4) + size)
      BY <2>2, <2>6, <2>11, SubSame
    <3>5. SubSeq(d, i + 5, i + 4 + size) = SubSeq(p, i + 5, i + 4 + size)
      BY <2>6, <3>4
    <3> QED BY <3>1, <3>3, <3>5
  <2> HIDE DEF r
  <2> QED BY <2>5, <2>8, <2>10, <2>11
<1> QED BY <1>4, <1>5

\* Bytes that are copied.
LEMMA PlainMore ==
    ASSUME NEW p \in Seq(Bytes), NEW i \in Nat, NEW n \in Nat
    PROVE  LET r == Read(p, i, n)
           IN /\ r \in Result
              /\ r.ok => r.i <= Len(p) /\ \A d \in Seq(Bytes) : At(d, 0, p) => Read(d, i, n) = r
<1> DEFINE r == [ok |-> TRUE, i |-> i + n, val |-> SubSeq(p, i + 1, i + n)]
<1>1. Len(p) \in Nat
  OBVIOUS
<1>2. CASE i + n > Len(p)
  <2>1. Read(p, i, n) = Fails
    BY <1>2 DEF Read
  <2> QED BY <2>1, FailsIs
<1>3. CASE ~(i + n > Len(p))
  <2>1. i + n <= Len(p) /\ i + n \in Nat
    BY <1>1, <1>3
  <2>2. Read(p, i, n) = r
    BY <1>3 DEF Read
  <2>3. SubSeq(p, i + 1, i + n) \in Seq(Bytes)
    BY <2>1, SubBytes
  <2>4. r \in Result /\ r.ok /\ r.i = i + n
    BY <2>1, <2>3 DEF Result
  <2>5. ASSUME NEW d \in Seq(Bytes), At(d, 0, p) PROVE Read(d, i, n) = r
    <3>1. Len(p) <= Len(d) /\ Len(d) \in Nat
      BY <2>5, SameBytes
    <3>2. ~(i + n > Len(d))
      BY <1>1, <2>1, <3>1
    <3>3. SubSeq(d, i + 1, i + n) = SubSeq(p, i + 1, i + n)
      BY <2>1, <2>5, SubSame
    <3> QED BY <3>2, <3>3 DEF Read
  <2> HIDE DEF r
  <2> QED BY <2>1, <2>2, <2>4, <2>5
<1> QED BY <1>2, <1>3

\* The char in its word.
LEMMA CharMore ==
    ASSUME NEW p \in Seq(Bytes), NEW i \in Nat
    PROVE  LET r == ReadChar(p, i)
           IN /\ r \in Result
              /\ r.ok => r.i <= Len(p) /\ \A d \in Seq(Bytes) : At(d, 0, p) => ReadChar(d, i) = r
<1> DEFINE r == [ok |-> TRUE, i |-> i + 4, val |-> <<p[i + 4]>>]
<1>1. Len(p) \in Nat
  OBVIOUS
<1>2. CASE i + 4 > Len(p)
  <2>1. ReadChar(p, i) = Fails
    BY <1>2 DEF ReadChar
  <2> QED BY <2>1, FailsIs
<1>3. CASE ~(i + 4 > Len(p))
  <2>1. i + 4 <= Len(p) /\ i + 4 \in 1 .. Len(p) /\ i + 4 \in Nat
    BY <1>1, <1>3
  <2>2. ReadChar(p, i) = r
    BY <1>3 DEF ReadChar
  <2>3. p[i + 4] \in Bytes
    BY <2>1
  <2>4. <<p[i + 4]>> \in Seq(Bytes)
    BY <2>3
  <2>5. r \in Result /\ r.ok /\ r.i = i + 4
    BY <2>1, <2>4 DEF Result
  <2>6. ASSUME NEW d \in Seq(Bytes), At(d, 0, p) PROVE ReadChar(d, i) = r
    <3>1. Len(p) <= Len(d) /\ Len(d) \in Nat /\ d[i + 4] = p[i + 4]
      BY <2>1, <2>6, SameBytes
    <3>2. ~(i + 4 > Len(d))
      BY <1>1, <2>1, <3>1
    <3> QED BY <3>1, <3>2 DEF ReadChar
  <2> HIDE DEF r
  <2> QED BY <2>1, <2>2, <2>5, <2>6
<1> QED BY <1>2, <1>3

\* Any tag.
LEMMA TagMore ==
    ASSUME NEW p \in Seq(Bytes), NEW i \in Nat, NEW tag
    PROVE  LET r == ParseOneTag(tag, p, i)
           IN /\ r \in Result
              /\ r.ok => /\ r.i <= Len(p)
                         /\ \A d \in Seq(Bytes) : At(d, 0, p) => ParseOneTag(tag, d, i) = r
<1>1. CASE \A d : ParseOneTag(tag, d, i) = ReadString(d, i)
  BY <1>1, StringMore
<1>2. CASE \A d : ParseOneTag(tag, d, i) = ReadBlob(d, i)
  BY <1>2, BlobMore
<1>3. CASE \A d : ParseOneTag(tag, d, i) = ReadChar(d, i)
  BY <1>3, CharMore
<1>4. CASE \E n \in Nat : \A d : ParseOneTag(tag, d, i) = Read(d, i, n)
  <2>1. PICK n \in Nat : \A d : ParseOneTag(tag, d, i) = Read(d, i, n)
    BY <1>4
  <2> QED BY <2>1, PlainMore
<1>5. CASE \A d : ParseOneTag(tag, d, i) = Fails
  BY <1>5, FailsIs
<1>6. \/ \A d : ParseOneTag(tag, d, i) = ReadString(d, i)
      \/ \A d : ParseOneTag(tag, d, i) = ReadBlob(d, i)
      \/ \A d : ParseOneTag(tag, d, i) = ReadChar(d, i)
      \/ \E n \in {0, 4, 8} : \A d : ParseOneTag(tag, d, i) = Read(d, i, n)
      \/ \A d : ParseOneTag(tag, d, i) = Fails
  <2>1. CASE tag \in Texts
    <3>1. tag # "b" /\ tag # "c" /\ tag \notin Fours /\ tag \notin Eights /\ tag \notin Nothing
      BY <2>1 DEF Texts, Fours, Eights, Nothing
    <3> QED BY <2>1, <3>1 DEF ParseOneTag
  <2>2. CASE tag = "b"
    <3>1. tag \notin Texts /\ tag # "c" /\ tag \notin Fours /\ tag \notin Eights /\ tag \notin Nothing
      BY <2>2 DEF Texts, Fours, Eights, Nothing
    <3> QED BY <2>2, <3>1 DEF ParseOneTag
  <2>3. CASE tag = "c"
    <3>1. tag \notin Texts /\ tag # "b" /\ tag \notin Eights /\ tag \notin Nothing
      BY <2>3 DEF Texts, Eights, Nothing
    <3> QED BY <2>3, <3>1 DEF ParseOneTag
  <2>4. CASE tag \in Fours \ {"c"}
    <3>1. tag \notin Texts /\ tag # "b" /\ tag # "c" /\ tag \notin Eights /\ tag \notin Nothing
      BY <2>4 DEF Texts, Fours, Eights, Nothing
    <3>2. \A d : ParseOneTag(tag, d, i) = Read(d, i, 4)
      BY <2>4, <3>1 DEF ParseOneTag
    <3> QED BY <3>2
  <2>5. CASE tag \in Eights
    <3>1. tag \notin Texts /\ tag # "b" /\ tag # "c" /\ tag \notin Fours /\ tag \notin Nothing
      BY <2>5 DEF Texts, Fours, Eights, Nothing
    <3>2. \A d : ParseOneTag(tag, d, i) = Read(d, i, 8)
      BY <2>5, <3>1 DEF ParseOneTag
    <3> QED BY <3>2
  <2>6. CASE tag \in Nothing
    <3>1. tag \notin Texts /\ tag # "b" /\ tag # "c" /\ tag \notin Fours /\ tag \notin Eights
      BY <2>6 DEF Texts, Fours, Eights, Nothing
    <3>2. \A d : ParseOneTag(tag, d, i) = Read(d, i, 0)
      BY <2>6, <3>1 DEF ParseOneTag
    <3> QED BY <3>2
  <2>7. CASE /\ tag \notin Texts /\ tag # "b" /\ tag # "c" /\ tag \notin Fours /\ tag \notin Eights
             /\ tag \notin Nothing
    BY <2>7 DEF ParseOneTag
  <2> QED BY <2>1, <2>2, <2>3, <2>4, <2>5, <2>6, <2>7
<1> QED BY <1>1, <1>2, <1>3, <1>4, <1>5, <1>6

-------------------------------------------------------------------------------
(* The loop of parseArgs.                                                  *)

Token == [tag : Bytes, val : Seq(Bytes)]
State == [ok : BOOLEAN, i : Nat, depth : Int, args : Seq(Token)]

\* What one tag does.
LEMMA ParseTagIs ==
    ASSUME NEW s \in State, NEW tag \in Bytes, NEW d
    PROVE  /\ ~s.ok => ParseTag(s, tag, d) = s
           /\ s.ok /\ tag = "[" =>
                 ParseTag(s, tag, d) = [ok |-> TRUE, i |-> s.i, depth |-> s.depth + 1,
                                        args |-> Append(s.args, [tag |-> tag, val |-> <<>>])]
           /\ s.ok /\ tag = "]" =>
                 ParseTag(s, tag, d) = [ok |-> s.depth > 0, i |-> s.i, depth |-> s.depth - 1,
                                        args |-> Append(s.args, [tag |-> tag, val |-> <<>>])]
           /\ s.ok /\ tag \notin Brackets =>
                 LET r == ParseOneTag(tag, d, s.i)
                 IN ParseTag(s, tag, d) = [ok |-> r.ok, i |-> r.i, depth |-> s.depth,
                                           args |-> Append(s.args, [tag |-> tag, val |-> r.val])]
<1>1. ASSUME ~s.ok PROVE ParseTag(s, tag, d) = s
  BY <1>1 DEF ParseTag
<1>2. ASSUME s.ok, tag = "["
      PROVE  ParseTag(s, tag, d) = [ok |-> TRUE, i |-> s.i, depth |-> s.depth + 1,
                                    args |-> Append(s.args, [tag |-> tag, val |-> <<>>])]
  <2>1. ParseTag(s, tag, d) =
          [s EXCEPT !.depth = @ + 1, !.args = Append(@, [tag |-> "[", val |-> <<>>])]
    BY <1>2 DEF ParseTag
  <2> QED BY <1>2, <2>1 DEF State
<1>3. ASSUME s.ok, tag = "]"
      PROVE  ParseTag(s, tag, d) = [ok |-> s.depth > 0, i |-> s.i, depth |-> s.depth - 1,
                                    args |-> Append(s.args, [tag |-> tag, val |-> <<>>])]
  <2>1. ParseTag(s, tag, d) =
          [s EXCEPT !.ok = s.depth > 0, !.depth = @ - 1,
                    !.args = Append(@, [tag |-> "]", val |-> <<>>])]
    BY <1>3 DEF ParseTag
  <2> QED BY <1>3, <2>1 DEF State
<1>4. ASSUME s.ok, tag \notin Brackets
      PROVE  LET r == ParseOneTag(tag, d, s.i)
             IN ParseTag(s, tag, d) = [ok |-> r.ok, i |-> r.i, depth |-> s.depth,
                                       args |-> Append(s.args, [tag |-> tag, val |-> r.val])]
  <2>1. tag # "[" /\ tag # "]"
    BY <1>4 DEF Brackets
  <2> QED BY <1>4, <2>1 DEF ParseTag
<1> QED BY <1>1, <1>2, <1>3, <1>4

\* It keeps the parser's state in shape, and what fails stays so.
LEMMA ParseTagType ==
    ASSUME NEW s \in State, NEW tag \in Bytes, NEW d \in Seq(Bytes)
    PROVE  ParseTag(s, tag, d) \in State /\ (ParseTag(s, tag, d).ok => s.ok)
<1>1. /\ s.ok \in BOOLEAN /\ s.i \in Nat /\ s.depth \in Int /\ s.args \in Seq(Token)
      /\ s.depth + 1 \in Int /\ s.depth - 1 \in Int /\ (s.depth > 0) \in BOOLEAN
  BY DEF State
<1>2. ASSUME NEW v \in Seq(Bytes) PROVE Append(s.args, [tag |-> tag, val |-> v]) \in Seq(Token)
  <2>1. [tag |-> tag, val |-> v] \in Token
    BY DEF Token
  <2> QED BY <1>1, <2>1, AppendProperties
<1>3. <<>> \in Seq(Bytes)
  OBVIOUS
<1>4. CASE ~s.ok
  <2>1. ParseTag(s, tag, d) = s
    BY <1>4, ParseTagIs
  <2> QED BY <1>4, <2>1
<1>5. CASE s.ok /\ tag = "["
  <2>1. ParseTag(s, tag, d) = [ok |-> TRUE, i |-> s.i, depth |-> s.depth + 1,
                               args |-> Append(s.args, [tag |-> tag, val |-> <<>>])]
    BY <1>5, ParseTagIs
  <2>2. Append(s.args, [tag |-> tag, val |-> <<>>]) \in Seq(Token)
    BY <1>2, <1>3
  <2> HIDE DEF Token
  <2> DEFINE q == Append(s.args, [tag |-> tag, val |-> <<>>])
  <2> HIDE DEF q
  <2>3. ParseTag(s, tag, d) = [ok |-> TRUE, i |-> s.i, depth |-> s.depth + 1, args |-> q]
    BY <2>1 DEF q
  <2>4. q \in Seq(Token)
    BY <2>2 DEF q
  <2>5. s.depth + 1 \in Int /\ s.i \in Nat
    BY <1>1
  <2>6. ParseTag(s, tag, d) \in State
    BY <2>3, <2>4, <2>5 DEF State
  <2> QED BY <1>5, <2>6, Zenon
<1>6. CASE s.ok /\ tag = "]"
  <2>1. ParseTag(s, tag, d) = [ok |-> s.depth > 0, i |-> s.i, depth |-> s.depth - 1,
                               args |-> Append(s.args, [tag |-> tag, val |-> <<>>])]
    BY <1>6, ParseTagIs
  <2>2. Append(s.args, [tag |-> tag, val |-> <<>>]) \in Seq(Token)
    BY <1>2, <1>3
  <2> HIDE DEF Token
  <2> DEFINE q == Append(s.args, [tag |-> tag, val |-> <<>>])
             o == s.depth > 0
  <2> HIDE DEF q, o
  <2>3. ParseTag(s, tag, d) = [ok |-> o, i |-> s.i, depth |-> s.depth - 1, args |-> q]
    BY <2>1 DEF q, o
  <2>4. q \in Seq(Token) /\ o \in BOOLEAN
    BY <1>1, <2>2 DEF q, o
  <2> QED BY <1>1, <1>6, <2>3, <2>4 DEF State
<1>7. CASE s.ok /\ tag \notin Brackets
  <2> DEFINE r == ParseOneTag(tag, d, s.i)
  <2>1. ParseTag(s, tag, d) = [ok |-> r.ok, i |-> r.i, depth |-> s.depth,
                               args |-> Append(s.args, [tag |-> tag, val |-> r.val])]
    BY <1>7, ParseTagIs
  <2>2. r \in Result
    BY <1>1, TagMore
  <2> HIDE DEF r
  <2>3. r.ok \in BOOLEAN /\ r.i \in Nat /\ r.val \in Seq(Bytes)
    BY <2>2 DEF Result
  <2>4. Append(s.args, [tag |-> tag, val |-> r.val]) \in Seq(Token)
    BY <1>2, <2>3
  <2> QED BY <1>1, <1>7, <2>1, <2>3, <2>4 DEF State
<1>8. tag \in Brackets => tag = "[" \/ tag = "]"
  BY DEF Brackets
<1> QED BY <1>1, <1>4, <1>5, <1>6, <1>7, <1>8

\* The loop.
Start(i) == [ok |-> TRUE, i |-> i, depth |-> 0, args |-> <<>>]
Walk(after, tags, d, i) ==
    /\ after \in [0 .. Len(tags) - 1 -> State]
    /\ after[0] = Start(i)
    /\ \A n \in 1 .. Len(tags) - 1 : after[n] = ParseTag(after[n - 1], tags[n + 1], d)

\* parseArgs starts with no argument and no array open.
LEMMA StartIs == \A i \in Nat : Start(i) \in State
<1>1. <<>> \in Seq(Token)
  OBVIOUS
<1> QED BY <1>1 DEF Start, State

\* What parseArgs has after each tag.
LEMMA WalkIs ==
    ASSUME NEW tags \in Seq(Bytes), Len(tags) # 0, NEW d \in Seq(Bytes), NEW i \in Nat
    PROVE  \E after : Walk(after, tags, d, i) /\ ParseArgs(tags, d, i) = after[Len(tags) - 1]
<1> DEFINE N == Len(tags) - 1
           F == [n \in 1 .. N |-> [s \in State |-> ParseTag(s, tags[n + 1], d)]]
           b == Start(i)
           Is(f) == f = [n \in 0 .. N |-> IF n = 0 THEN b ELSE ParseTag(f[n - 1], tags[n + 1], d)]
<1>1. N \in Nat /\ \A n \in 1 .. N : tags[n + 1] \in Bytes
  OBVIOUS
<1>2. b \in State
  BY StartIs
<1>3. F \in [1 .. N -> [State -> State]]
  BY <1>1, ParseTagType
<1>4. \A n \in 1 .. N : \A s \in State : F[n][s] = ParseTag(s, tags[n + 1], d)
  OBVIOUS
<1>0. N \in Nat
  BY <1>1
<1> HIDE DEF F, b, N
<1>5. PICK L \in [0 .. N -> State] : IsLoop(L, b, F, N)
  BY <1>0, <1>2, <1>3, LoopIs
<1>6. L[0] = b /\ \A n \in 1 .. N : L[n] = ParseTag(L[n - 1], tags[n + 1], d)
  <2>1. \A n \in 1 .. N : n - 1 \in 0 .. N
    BY <1>0
  <2> QED BY <1>4, <1>5, <2>1 DEF IsLoop
<1>7. \A n \in 0 .. N : L[n] = IF n = 0 THEN b ELSE ParseTag(L[n - 1], tags[n + 1], d)
  <2> TAKE n \in 0 .. N
  <2>1. n = 0 \/ n \in 1 .. N
    BY <1>0
  <2>2. n \in 1 .. N => n # 0
    OBVIOUS
  <2> QED BY <1>6, <2>1, <2>2
<1>8. Is(L)
  BY <1>5, <1>7
<1>9. PICK f : Is(f) /\ ParseArgs(tags, d, i) = f[N]
  BY <1>8, Zenon DEF ParseArgs, N, b, Start
<1>10. f[0] = b /\ \A n \in 1 .. N : f[n] = ParseTag(f[n - 1], tags[n + 1], d)
  <2>1. \A n \in 0 .. N : f[n] = IF n = 0 THEN b ELSE ParseTag(f[n - 1], tags[n + 1], d)
    BY <1>9
  <2>2. \A n \in 1 .. N : n \in 0 .. N /\ n # 0
    OBVIOUS
  <2>3. 0 \in 0 .. N
    BY <1>0
  <2> QED BY <2>1, <2>2, <2>3
<1> DEFINE T == {n \in 0 .. N : f[n] \in State}
<1>11. 0 \in T
  BY <1>0, <1>2, <1>10
<1>12. \A n \in 1 .. N : n - 1 \in T => n \in T
  <2> TAKE n \in 1 .. N
  <2>1. n \in 0 .. N
    OBVIOUS
  <2> HAVE n - 1 \in T
  <2>2. f[n - 1] \in State
    OBVIOUS
  <2>3. ParseTag(f[n - 1], tags[n + 1], d) \in State
    BY <1>1, <2>2, ParseTagType
  <2> QED BY <1>10, <2>1, <2>3
<1> HIDE DEF T
<1>13. \A n \in 0 .. N : n \in T
  BY <1>0, <1>11, <1>12, UpTo
<1>14. f \in [0 .. N -> State]
  BY <1>9, <1>13 DEF T
<1> QED BY <1>9, <1>10, <1>14 DEF Walk, N, b

\* How a tag changes the number of open arrays.
Opens(tag) == CASE tag = "[" -> 1 [] tag = "]" -> -1 [] OTHER -> 0

\* A bracket opens or closes an array, nothing else does.
LEMMA OpensIs ==
    \A tag : /\ Opens(tag) \in Int
             /\ tag = "[" => Opens(tag) = 1
             /\ tag = "]" => Opens(tag) = -1
             /\ tag \notin Brackets => Opens(tag) = 0
<1> SUFFICES ASSUME NEW tag
             PROVE  /\ Opens(tag) \in Int
                    /\ tag = "[" => Opens(tag) = 1
                    /\ tag = "]" => Opens(tag) = -1
                    /\ tag \notin Brackets => Opens(tag) = 0
  OBVIOUS
<1>1. CASE tag = "["
  BY <1>1 DEF Opens, Brackets
<1>2. CASE tag = "]"
  BY <1>2 DEF Opens, Brackets
<1>3. CASE tag # "[" /\ tag # "]"
  BY <1>3 DEF Opens, Brackets
<1> QED BY <1>1, <1>2, <1>3

\* The arrays that are open, one argument after the other.
LEMMA DepthsAre ==
    ASSUME NEW args \in Seq(Arg)
    PROVE  /\ Depths(args) \in [0 .. Len(args) -> Int]
           /\ Depths(args)[0] = 0
           /\ \A n \in 1 .. Len(args) : Depths(args)[n] = Depths(args)[n - 1] + Opens(args[n].tag)
<1> DEFINE N == Len(args)
           F == [n \in 1 .. N |-> [k \in Int |-> k + Opens(args[n].tag)]]
           Is(f) == f = [n \in 0 .. N |-> IF n = 0 THEN 0 ELSE f[n - 1] + Opens(args[n].tag)]
<1>1. N \in Nat /\ 0 \in Int
  OBVIOUS
<1>2. F \in [1 .. N -> [Int -> Int]]
  <2>1. \A n \in 1 .. N : \A k \in Int : k + Opens(args[n].tag) \in Int
    BY OpensIs
  <2> QED BY <2>1
<1>3. \A n \in 1 .. N : \A k \in Int : F[n][k] = k + Opens(args[n].tag)
  OBVIOUS
<1> HIDE DEF F, N
<1>4. PICK L \in [0 .. N -> Int] : IsLoop(L, 0, F, N)
  BY <1>1, <1>2, LoopIs
<1>5. \A n \in 0 .. N : L[n] = IF n = 0 THEN 0 ELSE L[n - 1] + Opens(args[n].tag)
  <2> TAKE n \in 0 .. N
  <2>1. L[0] = 0
    BY <1>4 DEF IsLoop
  <2>2. ASSUME n # 0 PROVE L[n] = L[n - 1] + Opens(args[n].tag)
    <3>1. n \in 1 .. N /\ n - 1 \in 0 .. N
      BY <1>1, <2>2
    <3> QED BY <1>3, <1>4, <3>1 DEF IsLoop
  <2> QED BY <2>1, <2>2
<1>6. Is(L)
  BY <1>4, <1>5
<1>7. Is(Depths(args))
  BY <1>6, Zenon DEF Depths, Opens, N
<1> DEFINE D == Depths(args)
<1> HIDE DEF D
<1>8. D[0] = 0 /\ \A n \in 1 .. N : D[n] = D[n - 1] + Opens(args[n].tag)
  <2>1. \A n \in 0 .. N : D[n] = IF n = 0 THEN 0 ELSE D[n - 1] + Opens(args[n].tag)
    BY <1>7 DEF D
  <2>2. \A n \in 1 .. N : n \in 0 .. N /\ n # 0
    OBVIOUS
  <2>3. 0 \in 0 .. N
    BY <1>1
  <2> QED BY <2>1, <2>2, <2>3
<1> DEFINE T == {n \in 0 .. N : D[n] \in Int}
<1>9. 0 \in T
  BY <1>1, <1>8
<1>10. \A n \in 1 .. N : n - 1 \in T => n \in T
  <2> TAKE n \in 1 .. N
  <2>1. n \in 0 .. N
    OBVIOUS
  <2> HAVE n - 1 \in T
  <2>2. D[n - 1] \in Int
    OBVIOUS
  <2>3. D[n - 1] + Opens(args[n].tag) \in Int
    BY <2>2, OpensIs
  <2> QED BY <1>8, <2>1, <2>3
<1> HIDE DEF T
<1>11. \A n \in 0 .. N : n \in T
  BY <1>1, <1>9, <1>10, UpTo
<1>12. D \in [0 .. N -> Int]
  BY <1>7, <1>11 DEF D, T
<1> QED BY <1>8, <1>12 DEF D, N

\* parseArgs reads the arguments that encodeMessage laid out, all of the body, and
\* ends outside every array.
LEMMA ArgsParsed ==
    ASSUME NEW args \in Seq(Arg), Balanced(args),
           NEW p, NEW at \in [0 .. Len(args) -> Nat], Laid(args, p, at),
           NEW d \in Seq(Bytes), NEW i \in Nat, i % 4 = 0, At(d, i, p.body)
    PROVE  ParseArgs(p.tags, d, i) = [ok |-> TRUE, i |-> i + Len(p.body), depth |-> 0, args |-> args]
<1> DEFINE N == Len(args)
           D == Depths(args)
           tags == p.tags
<1>1. N \in Nat /\ \A n \in 1 .. N : args[n] \in Arg
  OBVIOUS
<1>2. /\ tags \in Text /\ p.body \in Seq(Bytes)
      /\ Len(tags) = N + 1 /\ \A k \in 1 .. N : tags[k + 1] = args[k].tag
      /\ at[0] = 0 /\ at[N] = Len(p.body)
  BY DEF Laid
<1>3. \A n \in 1 .. N : at[n] = at[n - 1] + Len(Body(args[n])) /\ At(p.body, at[n - 1], Body(args[n]))
  BY DEF Laid
<1>4. D \in [0 .. N -> Int] /\ D[0] = 0 /\ \A n \in 1 .. N : D[n] = D[n - 1] + Opens(args[n].tag)
  BY DepthsAre
<1>5. D[N] = 0 /\ \A n \in 0 .. N : D[n] >= 0
  BY DEF Balanced
<1>14. at \in [0 .. N -> Nat]
  OBVIOUS
<1> HIDE DEF D, N
<1>6. tags \in Seq(Bytes) /\ Len(tags) # 0 /\ Len(tags) - 1 = N
  <2>1. tags \in Seq(Bytes)
    BY <1>2, TextBytes
  <2> QED BY <1>1, <1>2, <2>1
<1>7. PICK after : Walk(after, tags, d, i) /\ ParseArgs(tags, d, i) = after[N]
  <2>1. \E after : Walk(after, tags, d, i) /\ ParseArgs(tags, d, i) = after[Len(tags) - 1]
    BY <1>6, WalkIs
  <2> QED BY <1>6, <2>1
<1>8. /\ after \in [0 .. N -> State] /\ after[0] = Start(i)
      /\ \A n \in 1 .. N : after[n] = ParseTag(after[n - 1], tags[n + 1], d)
  BY <1>6, <1>7 DEF Walk
<1> DEFINE want(n) == [ok |-> TRUE, i |-> i + at[n], depth |-> D[n], args |-> SubSeq(args, 1, n)]
           T == {n \in 0 .. N : after[n] = want(n) /\ at[n] % 4 = 0}
<1>9. 0 \in T
  <2>1. SubSeq(args, 1, 0) = <<>>
    BY SubSeqProperties
  <2>2. i + at[0] = i /\ at[0] % 4 = 0 /\ 0 \in 0 .. N
    BY <1>1, <1>2
  <2>3. want(0) = Start(i)
    BY <1>4, <2>1, <2>2 DEF Start
  <2> HIDE DEF want
  <2> QED BY <1>8, <2>2, <2>3
<1> HIDE DEF T
<1>10. ASSUME NEW n \in 1 .. N, n - 1 \in T PROVE n \in T
  <2> DEFINE a == args[n]
             B == Body(a)
             s == after[n - 1]
  <2>1. a \in Arg /\ n \in 0 .. N /\ n - 1 \in 0 .. N
    BY <1>1
  <2>2. s = want(n - 1) /\ at[n - 1] % 4 = 0
    BY <1>10 DEF T
  <2>3. after[n] = ParseTag(s, a.tag, d)
    <3>1. tags[n + 1] = a.tag
      BY <1>2
    <3> QED BY <1>8, <3>1
  <2>4. s \in State
    BY <1>8, <2>1
  <2>5. /\ s.ok /\ s.i = i + at[n - 1] /\ s.depth = D[n - 1] /\ s.args = SubSeq(args, 1, n - 1)
    BY <2>2
  <2>6. at[n - 1] \in Nat /\ D[n - 1] \in Int /\ D[n - 1] >= 0 /\ D[n] >= 0
    BY <1>4, <1>5, <1>14, <2>1
  <2>7. D[n] = D[n - 1] + Opens(a.tag)
    BY <1>4
  <2>8. at[n] = at[n - 1] + Len(B) /\ At(p.body, at[n - 1], B)
    BY <1>3
  <2>9. B \in Seq(Bytes) /\ Len(B) % 4 = 0 /\ Len(B) \in Nat
    <3>1. \A v \in Seq(Bytes) : Len(v) \in Nat
      OBVIOUS
    <3> QED BY <2>1, <3>1, BodyIs
  <2>10. a.tag \in Bytes /\ a = [tag |-> a.tag, val |-> a.val] /\ a.val \in Seq(Bytes)
    BY <2>1, ArgIs
  <2>11. a.tag \in Brackets => a.val = <<>> /\ B = a.val
    <3>1. a.tag \in Brackets => /\ a.tag \notin Texts /\ a.tag # "b" /\ a.tag # "c"
                                /\ a.tag \notin Fours /\ a.tag \notin Eights /\ a.tag \notin Nothing
      BY DEF Brackets, Texts, Fours, Eights, Nothing
    <3> HIDE DEF a
    <3> QED BY <2>1, <3>1, ArgKinds, Zenon DEF B
  <2>12. Append(SubSeq(args, 1, n - 1), a) = SubSeq(args, 1, n)
    BY <1>1, SubSeqLess DEF N
  <2>13. at[n] % 4 = 0 /\ at[n] \in Nat
    <3> DEFINE x == at[n - 1]
               y == at[n]
               l == Len(B)
    <3>1. x \in Nat /\ x % 4 = 0 /\ l \in Nat /\ l % 4 = 0 /\ y = x + l
      BY <2>2, <2>6, <2>8, <2>9
    <3> HIDE DEF x, y, l
    <3>2. y % 4 = 0 /\ y \in Nat
      BY <3>1
    <3> QED BY <3>2 DEF y
  <2> HIDE DEF B, a, s, want
  <2>16. s.ok
    BY <2>5
  <2>17. ASSUME NEW t \in Bytes, t = "["
         PROVE  ParseTag(s, t, d) = [ok |-> TRUE, i |-> s.i, depth |-> s.depth + 1,
                                     args |-> Append(s.args, [tag |-> t, val |-> <<>>])]
    BY <2>4, <2>16, <2>17, ParseTagIs
  <2>18. ASSUME NEW t \in Bytes, t = "]"
         PROVE  ParseTag(s, t, d) = [ok |-> s.depth > 0, i |-> s.i, depth |-> s.depth - 1,
                                     args |-> Append(s.args, [tag |-> t, val |-> <<>>])]
    BY <2>4, <2>16, <2>18, ParseTagIs
  <2>14. CASE a.tag \in Brackets
    <3>1. a = [tag |-> a.tag, val |-> <<>>] /\ Len(B) = 0
      BY <2>10, <2>11, <2>14
    <3>2. s.i = i + at[n]
      BY <2>5, <2>6, <2>8, <3>1
    <3>3. CASE a.tag = "["
      <4>1. ParseTag(s, a.tag, d) = [ok |-> TRUE, i |-> s.i, depth |-> s.depth + 1,
                                     args |-> Append(s.args, [tag |-> a.tag, val |-> <<>>])]
        BY <2>10, <2>17, <3>3, Zenon
      <4>2. s.depth + 1 = D[n]
        BY <2>5, <2>7, <3>3, OpensIs
      <4>3. Append(s.args, [tag |-> a.tag, val |-> <<>>]) = SubSeq(args, 1, n)
        BY <2>5, <2>12, <3>1
      <4>4. after[n] = want(n)
        BY <2>3, <3>2, <4>1, <4>2, <4>3 DEF want
      <4> QED BY <2>1, <2>13, <4>4 DEF T
    <3>4. CASE a.tag = "]"
      <4>1. ParseTag(s, a.tag, d) = [ok |-> s.depth > 0, i |-> s.i, depth |-> s.depth - 1,
                                     args |-> Append(s.args, [tag |-> a.tag, val |-> <<>>])]
        BY <2>10, <2>18, <3>4, Zenon
      <4>2. Opens(a.tag) = -1
        BY <3>4, OpensIs
      <4>3. s.depth - 1 = D[n] /\ (s.depth > 0) = TRUE
        BY <2>5, <2>6, <2>7, <4>2
      <4>4. Append(s.args, [tag |-> a.tag, val |-> <<>>]) = SubSeq(args, 1, n)
        BY <2>5, <2>12, <3>1
      <4>5. after[n] = want(n)
        BY <2>3, <3>2, <4>1, <4>3, <4>4 DEF want
      <4> QED BY <2>1, <2>13, <4>5 DEF T
    <3> QED BY <2>14, <3>3, <3>4 DEF Brackets
  <2>15. CASE a.tag \notin Brackets
    <3> DEFINE j == i + at[n - 1]
               r == ParseOneTag(a.tag, d, s.i)
    <3>1. j \in Nat /\ j % 4 = 0
      <4> DEFINE x == at[n - 1]
      <4>1. x \in Nat /\ x % 4 = 0 /\ j = i + x
        BY <2>2, <2>6
      <4> HIDE DEF x, j
      <4> QED BY <4>1
    <3>2. At(d, j, B)
      BY <1>2, <2>6, <2>8, <2>9, AtIn
    <3>3. s.i = j
      BY <2>5
    <3> HIDE DEF j
    <3>4. r = [ok |-> TRUE, i |-> j + Len(B), val |-> a.val]
      BY <2>1, <2>15, <3>1, <3>2, <3>3, ArgRead DEF B
    <3>5. ParseTag(s, a.tag, d) = [ok |-> r.ok, i |-> r.i, depth |-> s.depth,
                                   args |-> Append(s.args, [tag |-> a.tag, val |-> r.val])]
      BY <2>4, <2>5, <2>10, <2>15, ParseTagIs
    <3> HIDE DEF r
    <3>6. r.ok = TRUE /\ r.i = j + Len(B) /\ r.val = a.val
      BY <3>4
    <3>7. j + Len(B) = i + at[n]
      <4> DEFINE x == at[n - 1]
                 l == Len(B)
      <4>1. x \in Nat /\ l \in Nat /\ j = i + x /\ at[n] = x + l
        BY <2>6, <2>8, <2>9 DEF j
      <4> HIDE DEF x, l
      <4>2. j + l = i + (x + l)
        BY <4>1
      <4> QED BY <4>1, <4>2 DEF l
    <3>8. s.depth = D[n]
      <4>1. Opens(a.tag) = 0
        BY <2>15, OpensIs
      <4> QED BY <2>5, <2>6, <2>7, <4>1
    <3>9. Append(s.args, [tag |-> a.tag, val |-> r.val]) = SubSeq(args, 1, n)
      BY <2>5, <2>10, <2>12, <3>6
    <3>10. after[n] = want(n)
      BY <2>3, <3>5, <3>6, <3>7, <3>8, <3>9 DEF want
    <3> QED BY <2>1, <2>13, <3>10 DEF T
  <2> QED BY <2>14, <2>15
<1>11. \A n \in 0 .. N : n \in T
  BY <1>1, <1>9, <1>10, UpTo
<1>12. after[N] = want(N)
  BY <1>1, <1>11 DEF T
<1>13. SubSeq(args, 1, N) = args
  BY SubSeqFull DEF N
<1> QED BY <1>2, <1>5, <1>7, <1>12, <1>13

\* The same for each kind of tag by itself.
LEMMA TagOpens ==
    \A s \in State : \A d : s.ok =>
        ParseTag(s, "[", d) = [ok |-> TRUE, i |-> s.i, depth |-> s.depth + 1,
                               args |-> Append(s.args, [tag |-> "[", val |-> <<>>])]
<1>1. "[" \in Bytes
  BY TagsAre, Zenon DEF Brackets
<1> QED BY <1>1, ParseTagIs

\* A closing bracket.
LEMMA TagCloses ==
    \A s \in State : \A d : s.ok =>
        ParseTag(s, "]", d) = [ok |-> s.depth > 0, i |-> s.i, depth |-> s.depth - 1,
                               args |-> Append(s.args, [tag |-> "]", val |-> <<>>])]
<1>1. "]" \in Bytes
  BY TagsAre, Zenon DEF Brackets
<1> QED BY <1>1, ParseTagIs

\* A tag that is no bracket reads its bytes.
LEMMA TagReads ==
    \A s \in State, tag \in Bytes \ Brackets : \A d : s.ok =>
        ParseTag(s, tag, d) =
            [ok |-> ParseOneTag(tag, d, s.i).ok, i |-> ParseOneTag(tag, d, s.i).i, depth |-> s.depth,
             args |-> Append(s.args, [tag |-> tag, val |-> ParseOneTag(tag, d, s.i).val])]
BY ParseTagIs

\* What parseArgs reads from the front of a packet it reads from the packet.
LEMMA WalkMore ==
    ASSUME NEW tags \in Seq(Bytes), Len(tags) # 0, NEW p \in Seq(Bytes), NEW d \in Seq(Bytes),
           At(d, 0, p), NEW i \in Nat, i <= Len(p), ParseArgs(tags, p, i).ok
    PROVE  ParseArgs(tags, d, i) = ParseArgs(tags, p, i) /\ ParseArgs(tags, p, i).i <= Len(p)
<1> DEFINE N == Len(tags) - 1
<1>1. N \in Nat /\ \A n \in 1 .. N : tags[n + 1] \in Bytes
  OBVIOUS
<1>2. PICK f : Walk(f, tags, p, i) /\ ParseArgs(tags, p, i) = f[N]
  BY WalkIs
<1>3. PICK g : Walk(g, tags, d, i) /\ ParseArgs(tags, d, i) = g[N]
  BY WalkIs
<1>4. /\ f \in [0 .. N -> State] /\ f[0] = Start(i)
      /\ \A n \in 1 .. N : f[n] = ParseTag(f[n - 1], tags[n + 1], p)
  BY <1>2 DEF Walk
<1>5. /\ g \in [0 .. N -> State] /\ g[0] = Start(i)
      /\ \A n \in 1 .. N : g[n] = ParseTag(g[n - 1], tags[n + 1], d)
  BY <1>3 DEF Walk
<1> HIDE DEF N
<1> DEFINE T == {n \in 0 .. N : f[n].ok => g[n] = f[n] /\ f[n].i <= Len(p)}
<1>6. 0 \in T
  <2>1. f[0].i = i /\ 0 \in 0 .. N
    BY <1>1, <1>4 DEF Start
  <2> QED BY <1>4, <1>5, <2>1
<1>7. ASSUME NEW n \in 1 .. N, n - 1 \in T PROVE n \in T
  <2> DEFINE s == f[n - 1]
             tag == tags[n + 1]
             r == ParseOneTag(tag, p, s.i)
  <2>1. n \in 0 .. N /\ n - 1 \in 0 .. N /\ tag \in Bytes
    BY <1>1
  <2>2. s \in State /\ s.i \in Nat
    BY <1>4, <2>1 DEF State
  <2>3. s.ok => g[n - 1] = s /\ s.i <= Len(p)
    BY <1>7
  <2>4. f[n] = ParseTag(s, tag, p) /\ g[n] = ParseTag(g[n - 1], tag, d)
    BY <1>4, <1>5
  <2> HIDE DEF T, s, tag
  <2>5. ASSUME f[n].ok PROVE g[n] = f[n] /\ f[n].i <= Len(p)
    <3>1. s.ok
      BY <2>1, <2>2, <2>4, <2>5, ParseTagType
    <3>2. g[n] = ParseTag(s, tag, d) /\ s.i <= Len(p)
      BY <2>3, <2>4, <3>1
    <3>3. CASE tag = "["
      <4> DEFINE o == TRUE
                 x == s.depth + 1
                 q == Append(s.args, [tag |-> "[", val |-> <<>>])
      <4>2. \A e : ParseTag(s, "[", e) = [ok |-> o, i |-> s.i, depth |-> x, args |-> q]
        BY <2>2, <3>1, TagOpens, Zenon
      <4> HIDE DEF o, x, q
      <4>1. ParseTag(s, tag, d) = ParseTag(s, tag, p) /\ ParseTag(s, tag, p).i = s.i
        BY <3>3, <4>2
      <4> QED BY <2>4, <3>2, <4>1
    <3>4. CASE tag = "]"
      <4> DEFINE o == s.depth > 0
                 x == s.depth - 1
                 q == Append(s.args, [tag |-> "]", val |-> <<>>])
      <4>2. \A e : ParseTag(s, "]", e) = [ok |-> o, i |-> s.i, depth |-> x, args |-> q]
        BY <2>2, <3>1, TagCloses, Zenon
      <4> HIDE DEF o, x, q
      <4>1. ParseTag(s, tag, d) = ParseTag(s, tag, p) /\ ParseTag(s, tag, p).i = s.i
        BY <3>4, <4>2
      <4> QED BY <2>4, <3>2, <4>1
    <3>5. CASE tag \notin Brackets
      <4>1. f[n] = [ok |-> r.ok, i |-> r.i, depth |-> s.depth,
                    args |-> Append(s.args, [tag |-> tag, val |-> r.val])]
        BY <2>1, <2>2, <2>4, <3>1, <3>5, TagReads
      <4> DEFINE q == ParseOneTag(tag, d, s.i)
      <4>2. g[n] = [ok |-> q.ok, i |-> q.i, depth |-> s.depth,
                    args |-> Append(s.args, [tag |-> tag, val |-> q.val])]
        BY <2>1, <2>2, <3>1, <3>2, <3>5, TagReads
      <4>3. r.ok /\ f[n].i = r.i
        BY <2>5, <4>1
      <4>4. r.i <= Len(p) /\ q = r
        BY <2>2, <4>3, TagMore
      <4> HIDE DEF q, r
      <4> QED BY <4>1, <4>2, <4>3, <4>4
    <3> QED BY <3>3, <3>4, <3>5 DEF Brackets
  <2> QED BY <2>1, <2>5 DEF T
<1> HIDE DEF T
<1>8. \A n \in 0 .. N : n \in T
  BY <1>1, <1>6, <1>7, UpTo
<1>9. N \in T
  BY <1>1, <1>8
<1> QED BY <1>2, <1>3, <1>9 DEF T

\* Where the arguments of a message end.
Ended(d) == LET address == ReadString(d, 0)
                tags == ReadString(d, address.i)
            IN ParseArgs(tags.val, d, tags.i)

\* When parseOneMessage takes bytes for a message, and what it makes of them.
LEMMA MessageIs ==
    ASSUME NEW d \in Seq(Bytes)
    PROVE  LET address == ReadString(d, 0)
               tags == ReadString(d, address.i)
           IN /\ ParseOneMessage(d).ok =>
                    /\ Len(d) >= 4 /\ d[1] # "#"
                    /\ address.ok /\ address.val # <<>> /\ address.val[1] = "/"
                    /\ tags.ok /\ tags.val # <<>> /\ tags.val[1] = ","
                    /\ Ended(d).ok /\ Ended(d).depth = 0
              /\ (/\ Len(d) >= 4 /\ d[1] # "#"
                  /\ address.ok /\ address.val # <<>> /\ address.val[1] = "/"
                  /\ tags.ok /\ tags.val # <<>> /\ tags.val[1] = ","
                  /\ Ended(d).ok /\ Ended(d).depth = 0) =>
                 ParseOneMessage(d) = [ok |-> TRUE, address |-> address.val, args |-> Ended(d).args]
<1> DEFINE address == ReadString(d, 0)
           tags == ReadString(d, address.i)
           args == ParseArgs(tags.val, d, tags.i)
           C == /\ Len(d) >= 4 /\ d[1] # "#"
                /\ address.ok /\ address.val # <<>> /\ address.val[1] = "/"
                /\ tags.ok /\ tags.val # <<>> /\ tags.val[1] = ","
                /\ args.ok /\ args.depth = 0
           v == address.val
           w == args.args
<1>1. ParseOneMessage(d) = IF C THEN [ok |-> TRUE, address |-> v, args |-> w] ELSE [ok |-> FALSE]
  BY DEF ParseOneMessage
<1>2. Ended(d) = args
  BY DEF Ended
<1> HIDE DEF v, w, C
<1>3. ~C => ~ParseOneMessage(d).ok
  BY <1>1
<1>4. C => ParseOneMessage(d) = [ok |-> TRUE, address |-> v, args |-> w]
  BY <1>1
<1> HIDE DEF address, tags, args
<1> QED BY <1>2, <1>3, <1>4, Zenon DEF C, v, w, address, tags, args

\* A message is read back, all of it.
LEMMA Encoded ==
    ASSUME NEW a \in Text, a # <<>>, a[1] = "/", NEW args \in Seq(Arg), Balanced(args)
    PROVE  LET d == EncodeMessage(a, args)
           IN /\ d \in Seq(Bytes) /\ Len(d) >= 4 /\ d[1] = "/"
              /\ ParseOneMessage(d) = [ok |-> TRUE, address |-> a, args |-> args]
              /\ Ended(d).i = Len(d)
              /\ args = <<>> => Len(d) % 4 = 0
<1> DEFINE p == Appended(args)
           tags == p.tags
           body == p.body
           x == WritePaddedString(a)
           y == WritePaddedString(tags)
           d == x \o (y \o body)
           k == Len(x)
           l == Len(y)
           m == Len(body)
<1>1. PICK at \in [0 .. Len(args) -> Nat] : Laid(args, p, at)
  BY AppendedIs
<1>2. tags \in Text /\ body \in Seq(Bytes) /\ tags[1] = "," /\ Len(tags) = Len(args) + 1
  BY <1>1 DEF Laid
<1>3. d = EncodeMessage(a, args)
  BY DEF EncodeMessage
<1> HIDE DEF p
<1>4. x \in Seq(Bytes) /\ k = Padded4(Len(a) + 1) /\ At(x, 0, a)
  BY PaddedString
<1>5. y \in Seq(Bytes) /\ l = Padded4(Len(tags) + 1)
  BY <1>2, PaddedString
<1>6. Len(a) \in Nat /\ Len(a) >= 1 /\ Len(tags) \in Nat /\ tags # <<>> /\ m \in Nat /\ Len(args) \in Nat
  <2>1. Len(a) \in Nat /\ Len(a) >= 1 /\ Len(args) \in Nat
    BY DEF Text
  <2> DEFINE n == Len(args)
  <2>2. n \in Nat /\ Len(tags) = n + 1 /\ tags \in Text /\ body \in Seq(Bytes)
    BY <1>2, <2>1
  <2>3. \A t \in Text : Len(t) \in Nat /\ (t = <<>> => Len(t) = 0)
    BY DEF Text
  <2>4. \A t \in Seq(Bytes) : Len(t) \in Nat
    OBVIOUS
  <2> HIDE DEF n, tags, body
  <2>5. Len(tags) \in Nat /\ tags # <<>> /\ m \in Nat
    BY <2>2, <2>3, <2>4
  <2> QED BY <2>1, <2>5
<1> HIDE DEF tags, body
<1>7. k \in Nat /\ k % 4 = 0 /\ k >= 1 /\ l \in Nat /\ l % 4 = 0 /\ l >= 1
  <2>1. k \in Nat /\ k % 4 = 0 /\ k >= 1
    BY <1>4, <1>6, PaddedIs
  <2>2. l \in Nat /\ l % 4 = 0 /\ l >= 1
    BY <1>5, <1>6, PaddedIs
  <2> QED BY <2>1, <2>2
<1> HIDE DEF x, y
<1>8. y \o body \in Seq(Bytes) /\ Len(y \o body) = l + m
  BY <1>2, <1>5, BytesJoined
<1>9. d \in Seq(Bytes) /\ Len(d) = k + (l + m)
  BY <1>4, <1>8, BytesJoined
<1>10. At(d, 0, x) /\ At(d, k, y \o body)
  BY <1>4, <1>8, AtHalves
<1> HIDE DEF d, k
<1>11. At(d, k, y) /\ At(d, k + l, body)
  BY <1>2, <1>5, <1>7, <1>9, <1>10, AtBoth
<1> HIDE DEF l
<1>12. ReadString(d, 0) = [ok |-> TRUE, i |-> k, val |-> a]
  <2>1. ReadString(d, 0) = [ok |-> TRUE, i |-> 0 + Padded4(Len(a) + 1), val |-> a]
    BY <1>9, <1>10, StringRead DEF x
  <2>2. 0 + k = k
    BY <1>7
  <2> QED BY <1>4, <2>1, <2>2
<1>13. ReadString(d, k) = [ok |-> TRUE, i |-> k + l, val |-> tags]
  BY <1>2, <1>5, <1>7, <1>9, <1>11, StringRead DEF y
<1>14. ParseArgs(tags, d, k + l) = [ok |-> TRUE, i |-> (k + l) + m, depth |-> 0, args |-> args]
  <2>1. k + l \in Nat /\ (k + l) % 4 = 0
    BY <1>7
  <2> HIDE DEF m
  <2> DEFINE j == k + l
  <2> HIDE DEF j
  <2>2. j \in Nat /\ j % 4 = 0 /\ At(d, j, body)
    BY <1>11, <2>1 DEF j
  <2>3. ParseArgs(p.tags, d, j) = [ok |-> TRUE, i |-> j + Len(p.body), depth |-> 0, args |-> args]
    BY <1>1, <1>9, <2>2, ArgsParsed DEF body
  <2> QED BY <2>3 DEF j, m, tags, body
<1>15. (k + l) + m = Len(d)
  BY <1>6, <1>7, <1>9
<1>16. d[1] = "/"
  <2>1. a \in Seq(Bytes)
    BY TextBytes
  <2>2. At(d, 0 + 0, a)
    BY <1>4, <1>9, <1>10, <2>1, AtIn
  <2>3. d[0 + 1] = a[1]
    BY <1>6, <2>2 DEF At
  <2> QED BY <2>3
<1>17. Len(d) >= 4
  <2>1. k >= 4
    <3> DEFINE i == k
    <3>1. i \in Nat /\ i % 4 = 0 /\ i >= 1
      BY <1>7
    <3> HIDE DEF i
    <3>2. i >= 4
      BY <3>1
    <3> QED BY <3>2 DEF i
  <2> DEFINE j == Len(d)
  <2>2. j = k + (l + m)
    BY <1>9
  <2> HIDE DEF j, m
  <2>3. j >= 4
    BY <1>6, <1>7, <2>1, <2>2
  <2> QED BY <2>3 DEF j
<1> DEFINE r == ReadString(d, 0)
           t == ReadString(d, r.i)
<1>18. r.ok /\ r.i = k /\ r.val = a
  BY <1>12
<1>19. t.ok /\ t.i = k + l /\ t.val = tags
  BY <1>13, <1>18
<1>20. Ended(d) = ParseArgs(t.val, d, t.i)
  BY DEF Ended
<1> HIDE DEF r, t
<1>21. Ended(d) = [ok |-> TRUE, i |-> Len(d), depth |-> 0, args |-> args]
  BY <1>14, <1>15, <1>19, <1>20
<1>22. Ended(d).ok /\ Ended(d).depth = 0 /\ Ended(d).i = Len(d) /\ Ended(d).args = args
  BY <1>21
<1>23. d[1] # "#"
  BY <1>16
<1>24. ParseOneMessage(d) = [ok |-> TRUE, address |-> r.val, args |-> Ended(d).args]
  BY <1>2, <1>6, <1>9, <1>17, <1>18, <1>19, <1>22, <1>23, MessageIs, Zenon DEF r, t
<1>25. ASSUME args = <<>> PROVE Len(d) % 4 = 0
  <2>1. m = 0
    <3>1. Len(args) = 0
      BY <1>25
    <3>2. at[0] = 0 /\ at[Len(args)] = Len(p.body)
      BY <1>1 DEF Laid
    <3> QED BY <3>1, <3>2 DEF m, body
  <2> HIDE DEF m
  <2> QED BY <1>7, <1>9, <2>1
<1> QED BY <1>3, <1>9, <1>16, <1>17, <1>18, <1>22, <1>24, <1>25

\* With its end it loses its meaning.
LEMMA Incomplete ==
    ASSUME NEW d \in Seq(Bytes), Ended(d).i = Len(d), NEW n \in 0 .. Len(d) - 1
    PROVE  ~ParseOneMessage(SubSeq(d, 1, n)).ok
<1> DEFINE p == SubSeq(d, 1, n)
           r == ReadString(p, 0)
           t == ReadString(p, r.i)
<1>1. Len(d) \in Nat /\ n \in Nat /\ 0 + n <= Len(d) /\ n < Len(d)
  OBVIOUS
<1>2. p \in Seq(Bytes) /\ Len(p) = n /\ At(d, 0, p)
  <2>1. SubSeq(d, 0 + 1, 0 + n) = p
    BY <1>1
  <2>2. SubSeq(d, 0 + 1, 0 + n) \in Seq(Bytes) /\ Len(SubSeq(d, 0 + 1, 0 + n)) = n
        /\ At(d, 0, SubSeq(d, 0 + 1, 0 + n))
    BY <1>1, SubBytes
  <2> QED BY <2>1, <2>2
<1> HIDE DEF p
<1> SUFFICES ASSUME ParseOneMessage(p).ok PROVE FALSE
  BY DEF p
<1>3. r.ok /\ t.ok /\ t.val # <<>> /\ Ended(p).ok
  BY <1>2, MessageIs, Zenon
<1>4. r \in Result /\ r.i \in Nat /\ r.i <= Len(p) /\ ReadString(d, 0) = r
  <2>1. r \in Result /\ r.i <= Len(p) /\ ReadString(d, 0) = r
    BY <1>2, <1>3, StringMore
  <2> QED BY <2>1 DEF Result
<1>5. t \in Result /\ t.i \in Nat /\ t.i <= Len(p) /\ ReadString(d, r.i) = t /\ t.val \in Seq(Bytes)
  <2> HIDE DEF r
  <2>1. t \in Result /\ t.i <= Len(p) /\ ReadString(d, r.i) = t
    BY <1>2, <1>3, <1>4, StringMore
  <2> QED BY <2>1 DEF Result
<1>6. Ended(p) = ParseArgs(t.val, p, t.i)
  BY DEF Ended
<1>7. Ended(d) = ParseArgs(t.val, d, t.i)
  BY <1>4, <1>5, Zenon DEF Ended
<1> HIDE DEF r, t
<1>8. Len(t.val) # 0
  BY <1>3, <1>5
<1>9. Ended(d) = Ended(p) /\ Ended(p).i <= Len(p)
  BY <1>2, <1>3, <1>5, <1>6, <1>7, <1>8, WalkMore
<1> QED BY <1>1, <1>2, <1>9

-------------------------------------------------------------------------------
(* The calls of parsePacket.                                                *)

\* parsePacket one call deeper than parse.
Silent == [d \in Seq(Bytes) |-> [parent \in Nat |-> <<>>]]
Deeper(parse) == [d \in Seq(Bytes) |-> [parent \in Nat |-> Messages(d, parent, parse)]]
Deep(f, N) == f = [n \in 0 .. N |-> IF n = 0 THEN Silent ELSE Deeper(f[n - 1])]

\* However deep, there are the calls.
LEMMA DeepIs ==
    \A N \in Nat : \E f : Deep(f, N)
<1> SUFFICES ASSUME NEW M \in Nat PROVE \E f : Deep(f, M)
  OBVIOUS
<1> DEFINE T == {N \in 0 .. M : \E f : Deep(f, N)}
<1>1. 0 \in T
  <2> DEFINE f == [n \in 0 .. 0 |-> Silent]
  <2>1. f = [n \in 0 .. 0 |-> IF n = 0 THEN Silent ELSE Deeper(f[n - 1])]
    OBVIOUS
  <2>2. Deep(f, 0)
    BY <2>1 DEF Deep
  <2> QED BY <2>2
<1>2. ASSUME NEW N \in 1 .. M, N - 1 \in T PROVE N \in T
  <2>1. PICK f : Deep(f, N - 1)
    BY <1>2
  <2> DEFINE g == [n \in 0 .. N |-> IF n = N THEN Deeper(f[N - 1]) ELSE f[n]]
  <2>2. \A n \in 0 .. N - 1 : f[n] = IF n = 0 THEN Silent ELSE Deeper(f[n - 1])
    BY <2>1 DEF Deep
  <2>3. \A n \in 0 .. N - 1 : g[n] = f[n]
    OBVIOUS
  <2>4. g[N] = Deeper(f[N - 1])
    OBVIOUS
  <2>5. ASSUME NEW n \in 0 .. N PROVE g[n] = IF n = 0 THEN Silent ELSE Deeper(g[n - 1])
    <3>1. CASE n = N
      <4>1. g[n - 1] = f[N - 1] /\ n # 0
        BY <2>3, <3>1
      <4> HIDE DEF g
      <4> QED BY <2>4, <3>1, <4>1
    <3>2. CASE n # N /\ n # 0
      <4>1. g[n] = f[n] /\ g[n - 1] = f[n - 1] /\ n \in 0 .. N - 1
        BY <2>3, <3>2
      <4> HIDE DEF g
      <4> QED BY <2>2, <3>2, <4>1
    <3>3. CASE n # N /\ n = 0
      <4>1. g[n] = f[n] /\ n \in 0 .. N - 1
        BY <2>3, <3>3
      <4> HIDE DEF g
      <4> QED BY <2>2, <3>3, <4>1
    <3> QED BY <3>1, <3>2, <3>3
  <2>6. DOMAIN g = 0 .. N /\ g = [n \in DOMAIN g |-> g[n]]
    OBVIOUS
  <2> HIDE DEF g
  <2>7. Deep(g, N)
    BY <2>5, <2>6 DEF Deep
  <2>8. N \in 0 .. M
    OBVIOUS
  <2> QED BY <2>7, <2>8
<1> HIDE DEF T
<1>3. \A N \in 0 .. M : N \in T
  BY <1>1, <1>2, UpTo
<1> QED BY <1>3 DEF T

\* They do not depend on how deep it goes on.
LEMMA DeepSame ==
    ASSUME NEW M \in Nat, NEW N \in Nat, M <= N, NEW f, Deep(f, M), NEW g, Deep(g, N)
    PROVE  f[M] = g[M]
<1>1. \A n \in 0 .. M : f[n] = IF n = 0 THEN Silent ELSE Deeper(f[n - 1])
  BY DEF Deep
<1>2. \A n \in 0 .. N : g[n] = IF n = 0 THEN Silent ELSE Deeper(g[n - 1])
  BY DEF Deep
<1> DEFINE T == {n \in 0 .. M : f[n] = g[n]}
<1>3. 0 \in T
  BY <1>1, <1>2
<1>4. ASSUME NEW n \in 1 .. M, n - 1 \in T PROVE n \in T
  <2>1. n \in 0 .. M /\ n \in 0 .. N /\ n # 0 /\ f[n - 1] = g[n - 1]
    BY <1>4
  <2> QED BY <1>1, <1>2, <2>1
<1> HIDE DEF T
<1>5. \A n \in 0 .. M : n \in T
  BY <1>3, <1>4, UpTo
<1> QED BY <1>5 DEF T

\* So Parse is what its definition says, one call after the other.
LEMMA ParseIs ==
    \A n \in Nat : Parse[n] = IF n = 0 THEN Silent ELSE Deeper(Parse[n - 1])
<1> DEFINE D(n) == CHOOSE f : Deep(f, n)
           P == [n \in Nat |-> D(n)[n]]
           Is(f) == f = [n \in Nat |-> IF n = 0 THEN Silent ELSE Deeper(f[n - 1])]
<1>1. \A n \in Nat : Deep(D(n), n)
  BY DeepIs
<1>2. \A n \in Nat : P[n] = D(n)[n]
  OBVIOUS
<1>3. DOMAIN P = Nat /\ P = [n \in DOMAIN P |-> P[n]]
  OBVIOUS
<1> HIDE DEF D, P
<1>4. ASSUME NEW n \in Nat PROVE P[n] = IF n = 0 THEN Silent ELSE Deeper(P[n - 1])
  <2>1. \A m \in 0 .. n : D(n)[m] = IF m = 0 THEN Silent ELSE Deeper(D(n)[m - 1])
    BY <1>1 DEF Deep
  <2>2. n \in 0 .. n
    OBVIOUS
  <2>3. CASE n = 0
    BY <1>2, <2>1, <2>2, <2>3
  <2>4. CASE n # 0
    <3>1. n - 1 \in Nat /\ n - 1 <= n
      BY <2>4
    <3>2. D(n - 1)[n - 1] = D(n)[n - 1]
      BY <1>1, <3>1, DeepSame
    <3>3. P[n] = Deeper(D(n)[n - 1]) /\ P[n - 1] = D(n - 1)[n - 1]
      BY <1>2, <2>1, <2>2, <2>4, <3>1
    <3> QED BY <2>4, <3>2, <3>3
  <2> QED BY <2>3, <2>4
<1>5. Is(P)
  BY <1>3, <1>4
<1>6. Is(Parse)
  BY <1>5, Zenon DEF Parse, Silent, Deeper
<1> HIDE DEF Silent, Deeper
<1> QED BY <1>6

\* A call hands the elements to a call one deeper.
LEMMA ParseOf ==
    ASSUME NEW n \in Nat \ {0}, NEW d \in Seq(Bytes), NEW t \in Nat
    PROVE  Parse[n][d][t] = Messages(d, t, Parse[n - 1])
<1> DEFINE q == Parse[n - 1]
<1>1. Parse[n] = Deeper(q)
  BY ParseIs
<1> HIDE DEF q
<1>2. Deeper(q)[d][t] = Messages(d, t, q)
  BY DEF Deeper
<1> QED BY <1>1, <1>2 DEF q

\* What bundles begin with.
LEMMA TagIs ==
    /\ BundleTag \in Seq(Bytes) /\ Len(BundleTag) = 8 /\ BundleTag[1] = "#"
    /\ \A d \in Seq(Bytes) : IsBundle(d) <=> At(d, 0, BundleTag)
<1>1. /\ "#" \in Bytes /\ "b" \in Bytes /\ "u" \in Bytes /\ "n" \in Bytes /\ "d" \in Bytes
      /\ "l" \in Bytes /\ "e" \in Bytes /\ NUL \in Bytes
  BY TagsAre, BytesAre, Zenon
<1>2. BundleTag \in Seq(Bytes) /\ Len(BundleTag) = 8 /\ BundleTag[1] = "#"
  BY <1>1 DEF BundleTag
<1> DEFINE b == BundleTag
<1> HIDE DEF b
<1>3. b \in Seq(Bytes) /\ Len(b) = 8 /\ BundleTag = b
  BY <1>2 DEF b
<1>4. ASSUME NEW d \in Seq(Bytes) PROVE IsBundle(d) <=> At(d, 0, b)
  <2>1. Len(d) \in Nat
    OBVIOUS
  <2>2. IsBundle(d) <=> Len(b) <= Len(d) /\ SubSeq(b, 1, Len(b)) = SubSeq(d, 1, Len(b))
    BY <1>3 DEF IsBundle, IsPrefix
  <2>3. SubSeq(b, 1, Len(b)) = b
    BY <1>3, SubSeqFull
  <2>4. ASSUME At(d, 0, b) PROVE IsBundle(d)
    <3>1. SubSeq(d, 0 + 1, 0 + Len(b)) = b
      BY <1>3, <2>4, AtSub
    <3> QED BY <1>3, <2>1, <2>2, <2>3, <2>4, <3>1 DEF At
  <2>5. ASSUME IsBundle(d) PROVE At(d, 0, b)
    <3>1. 0 + 8 <= Len(d)
      BY <1>3, <2>1, <2>2, <2>5
    <3>2. At(d, 0, SubSeq(d, 0 + 1, 0 + 8))
      BY <3>1, SubBytes
    <3>3. SubSeq(d, 1, 8) = b
      BY <1>3, <2>2, <2>3, <2>5
    <3>4. SubSeq(d, 0 + 1, 0 + 8) = b
      BY <3>3
    <3> QED BY <3>2, <3>4
  <2> QED BY <2>4, <2>5
<1> QED BY <1>2, <1>3, <1>4

\* Nothing that begins as a message does is a bundle.
LEMMA NoBundle ==
    ASSUME NEW d \in Seq(Bytes), d[1] = "/" \/ d = <<>>
    PROVE  ~IsBundle(d)
<1> SUFFICES ASSUME At(d, 0, BundleTag) PROVE FALSE
  BY TagIs
<1> DEFINE b == BundleTag
<1>1. b[1] = "#" /\ Len(b) = 8
  BY TagIs
<1> HIDE DEF b
<1>2. 0 + Len(b) <= Len(d) /\ d[0 + 1] = b[1]
  BY <1>1 DEF At, b
<1>3. d[1] = "#" /\ Len(d) >= 8
  BY <1>1, <1>2
<1> QED BY <1>3

-------------------------------------------------------------------------------
(* What a bundle says, and when.                                            *)

\* What a bundle says: messages without arguments.
Said == [address : Seq(Bytes), args : {<<>>}, time : Nat]

\* Of two times, the later.
LEMMA LaterIs ==
    \A t, u \in Nat : /\ Later(t, u) \in Nat /\ Later(t, u) >= t /\ Later(t, u) >= u
                      /\ t >= u => Later(t, u) = t
                      /\ u >= t => Later(t, u) = u
BY DEF Later

\* What a message says.
LEMMA SaidIs ==
    \A x \in Said : /\ x.address \in Seq(Bytes) /\ x.args = <<>> /\ x.time \in Nat
                    /\ x = [address |-> x.address, args |-> x.args, time |-> x.time]
BY DEF Said

\* A time around messages moves those before it.
LEMMA AroundIs ==
    ASSUME NEW t \in Nat, NEW s \in Seq(Said)
    PROVE  /\ Around(t, s) \in Seq(Said) /\ Len(Around(t, s)) = Len(s)
           /\ \A k \in 1 .. Len(s) :
                 Around(t, s)[k] = [address |-> s[k].address, args |-> s[k].args,
                                    time |-> Later(t, s[k].time)]
<1> DEFINE w(k) == [address |-> s[k].address, args |-> s[k].args, time |-> Later(t, s[k].time)]
<1>1. Len(s) \in Nat /\ DOMAIN s = 1 .. Len(s) /\ \A k \in 1 .. Len(s) : s[k] \in Said
  OBVIOUS
<1>2. ASSUME NEW k \in 1 .. Len(s)
      PROVE  [s[k] EXCEPT !.time = Later(t, @)] = w(k) /\ w(k) \in Said
  <2>1. s[k] \in Said
    BY <1>1
  <2> DEFINE x == s[k]
  <2> HIDE DEF x
  <2>2. x.address \in Seq(Bytes) /\ x.args \in {<<>>} /\ x.time \in Nat
        /\ x = [address |-> x.address, args |-> x.args, time |-> x.time]
    BY <2>1 DEF Said, x
  <2>3. [x EXCEPT !.time = Later(t, @)] =
           [address |-> x.address, args |-> x.args, time |-> Later(t, x.time)]
    BY <2>2
  <2>4. Later(t, x.time) \in Nat
    BY <2>2, LaterIs
  <2>5. [address |-> x.address, args |-> x.args, time |-> Later(t, x.time)] \in Said
    BY <2>2, <2>4 DEF Said
  <2> QED BY <2>3, <2>5 DEF x
<1> HIDE DEF w
<1>3. Around(t, s) = [k \in 1 .. Len(s) |-> w(k)]
  BY <1>1, <1>2 DEF Around
<1>4. [k \in 1 .. Len(s) |-> w(k)] \in Seq(Said)
  BY <1>1, <1>2
<1>5. Len(Around(t, s)) = Len(s) /\ \A k \in 1 .. Len(s) : Around(t, s)[k] = w(k)
  BY <1>1, <1>3
<1> QED BY <1>3, <1>4, <1>5 DEF w

\* Two ways to say the same.
LEMMA SaidSame ==
    ASSUME NEW x \in Seq(Said), NEW y \in Seq(Said), Len(x) = Len(y),
           \A k \in 1 .. Len(x) : /\ x[k].address = y[k].address /\ x[k].args = y[k].args
                                  /\ x[k].time = y[k].time
    PROVE  x = y
<1>1. ASSUME NEW k \in 1 .. Len(x) PROVE x[k] = y[k]
  <2>1. x[k] \in Said /\ y[k] \in Said
    OBVIOUS
  <2>2. \A a, b \in Said : a.address = b.address /\ a.args = b.args /\ a.time = b.time => a = b
    <3> TAKE a, b \in Said
    <3> HAVE a.address = b.address /\ a.args = b.args /\ a.time = b.time
    <3>1. a = [address |-> a.address, args |-> a.args, time |-> a.time]
      BY SaidIs
    <3>2. b = [address |-> b.address, args |-> b.args, time |-> b.time]
      BY SaidIs
    <3>3. [address |-> a.address, args |-> a.args, time |-> a.time] =
              [address |-> b.address, args |-> b.args, time |-> b.time]
      OBVIOUS
    <3> QED BY <3>1, <3>2, <3>3, Zenon
  <2> QED BY <2>1, <2>2
<1> QED BY <1>1, SeqEqual

\* It moves each by itself.
LEMMA AroundBoth ==
    ASSUME NEW t \in Nat, NEW x \in Seq(Said), NEW y \in Seq(Said)
    PROVE  Around(t, x \o y) = Around(t, x) \o Around(t, y)
<1> DEFINE a == Around(t, x)
           b == Around(t, y)
           z == x \o y
           c == Around(t, z)
           m == Len(x)
           n == Len(y)
<1>1. m \in Nat /\ n \in Nat
  OBVIOUS
<1>2. z \in Seq(Said) /\ Len(z) = m + n /\ \A k \in 1 .. m : z[k] = x[k]
  BY Joined
<1>3. \A k \in 1 .. n : z[m + k] = y[k]
  BY Joined
<1>4. a \in Seq(Said) /\ Len(a) = m /\ b \in Seq(Said) /\ Len(b) = n
  BY AroundIs
<1>5. c \in Seq(Said) /\ Len(c) = m + n
  BY <1>2, AroundIs
<1>6. a \o b \in Seq(Said) /\ Len(a \o b) = m + n /\ \A k \in 1 .. m : (a \o b)[k] = a[k]
  <2> HIDE DEF a, b, m, n
  <2> QED BY <1>4, Joined
<1>7. \A k \in 1 .. n : (a \o b)[m + k] = b[k]
  <2> HIDE DEF a, b, m, n
  <2> QED BY <1>4, Joined
<1> DEFINE w(s, k) == [address |-> s[k].address, args |-> s[k].args, time |-> Later(t, s[k].time)]
<1>8. \A k \in 1 .. m : a[k] = w(x, k)
  BY AroundIs
<1>9. \A k \in 1 .. n : b[k] = w(y, k)
  BY AroundIs
<1> HIDE DEF z, w, a, b
<1>10. \A k \in 1 .. m + n : c[k] = w(z, k)
  BY <1>2, AroundIs DEF w
<1>11. \A k \in 1 .. m : w(z, k) = w(x, k)
  BY <1>2 DEF w
<1>12. \A k \in 1 .. n : w(z, m + k) = w(y, k)
  BY <1>3 DEF w
<1> HIDE DEF m, n, c
<1>13. ASSUME NEW k \in 1 .. m + n PROVE c[k] = (a \o b)[k]
  <2>1. CASE k <= m
    <3>1. k \in 1 .. m
      BY <1>1, <2>1
    <3> QED BY <1>6, <1>8, <1>10, <1>11, <3>1
  <2>2. CASE k > m
    <3>1. k - m \in 1 .. n /\ m + (k - m) = k
      BY <1>1, <2>2
    <3> DEFINE j == k - m
    <3>2. j \in 1 .. n /\ m + j = k
      BY <3>1
    <3> HIDE DEF j
    <3> QED BY <1>7, <1>9, <1>10, <1>12, <3>2
  <2>3. k <= m \/ k > m
    BY <1>1
  <2> QED BY <2>1, <2>2, <2>3
<1>14. c = a \o b
  BY <1>5, <1>6, <1>13, SeqEqual
<1> QED BY <1>14 DEF a, b, c, z

\* Only the latest of the times around a message counts.
LEMMA AroundAround ==
    ASSUME NEW t \in Nat, NEW w \in Nat, w >= t, NEW s \in Seq(Said)
    PROVE  Around(w, Around(t, s)) = Around(w, s)
<1> DEFINE a == Around(t, s)
           b == Around(w, a)
           c == Around(w, s)
<1>1. a \in Seq(Said) /\ Len(a) = Len(s)
  BY AroundIs
<1>2. c \in Seq(Said) /\ Len(c) = Len(s)
  BY AroundIs
<1>3. b \in Seq(Said) /\ Len(b) = Len(s)
  BY <1>1, AroundIs
<1>4. ASSUME NEW k \in 1 .. Len(s)
      PROVE  b[k].address = c[k].address /\ b[k].args = c[k].args /\ b[k].time = c[k].time
  <2>1. a[k] = [address |-> s[k].address, args |-> s[k].args, time |-> Later(t, s[k].time)]
    BY AroundIs
  <2>2. c[k] = [address |-> s[k].address, args |-> s[k].args, time |-> Later(w, s[k].time)]
    BY AroundIs
  <2>3. s[k].time \in Nat
    <3>1. s[k] \in Said
      OBVIOUS
    <3> QED BY <3>1 DEF Said
  <2> HIDE DEF a
  <2>4. b[k] = [address |-> a[k].address, args |-> a[k].args, time |-> Later(w, a[k].time)]
    BY <1>1, AroundIs
  <2>5. a[k].address = s[k].address /\ a[k].args = s[k].args /\ a[k].time = Later(t, s[k].time)
    BY <2>1
  <2>6. Later(w, Later(t, s[k].time)) = Later(w, s[k].time)
    BY <2>3 DEF Later
  <2> HIDE DEF b, c
  <2> QED BY <2>2, <2>4, <2>5, <2>6
<1> HIDE DEF a, b, c
<1>5. b = c
  BY <1>2, <1>3, <1>4, SaidSame
<1> QED BY <1>5 DEF a, b, c

\* It moves none that is late enough.
LEMMA AroundLate ==
    ASSUME NEW t \in Nat, NEW s \in Seq(Said), \A k \in 1 .. Len(s) : s[k].time >= t
    PROVE  /\ Around(t, s) = s
           /\ \A w \in Nat : Around(Later(w, t), s) = Around(w, s)
<1>1. \A k \in 1 .. Len(s) : s[k] \in Said /\ s[k].time \in Nat
  <2>1. \A k \in 1 .. Len(s) : s[k] \in Said
    OBVIOUS
  <2> QED BY <2>1, SaidIs
<1>2. Around(t, s) = s
  <2> DEFINE c == Around(t, s)
  <2>1. c \in Seq(Said) /\ Len(c) = Len(s)
    BY AroundIs
  <2>2. ASSUME NEW k \in 1 .. Len(s)
        PROVE  c[k].address = s[k].address /\ c[k].args = s[k].args /\ c[k].time = s[k].time
    <3>1. c[k] = [address |-> s[k].address, args |-> s[k].args, time |-> Later(t, s[k].time)]
      BY AroundIs
    <3>2. Later(t, s[k].time) = s[k].time
      BY <1>1, LaterIs
    <3> HIDE DEF c
    <3> QED BY <3>1, <3>2
  <2> HIDE DEF c
  <2>3. c = s
    BY <2>1, <2>2, SaidSame
  <2> QED BY <2>3 DEF c
<1>3. ASSUME NEW w \in Nat PROVE Around(Later(w, t), s) = Around(w, s)
  <2> DEFINE u == Later(w, t)
             b == Around(u, s)
             c == Around(w, s)
  <2>1. u \in Nat
    BY LaterIs
  <2>2. c \in Seq(Said) /\ Len(c) = Len(s)
    BY AroundIs
  <2>3. b \in Seq(Said) /\ Len(b) = Len(s)
    BY <2>1, AroundIs
  <2>4. ASSUME NEW k \in 1 .. Len(s)
        PROVE  b[k].address = c[k].address /\ b[k].args = c[k].args /\ b[k].time = c[k].time
    <3>1. c[k] = [address |-> s[k].address, args |-> s[k].args, time |-> Later(w, s[k].time)]
      BY AroundIs
    <3>2. Later(u, s[k].time) = Later(w, s[k].time)
      BY <1>1 DEF Later
    <3> HIDE DEF u
    <3>3. b[k] = [address |-> s[k].address, args |-> s[k].args, time |-> Later(u, s[k].time)]
      BY <2>1, AroundIs
    <3> HIDE DEF b, c
    <3> QED BY <3>1, <3>2, <3>3
  <2> HIDE DEF b, c
  <2>5. b = c
    BY <2>2, <2>3, <2>4, SaidSame
  <2> QED BY <2>5 DEF b, c
<1> QED BY <1>2, <1>3

-------------------------------------------------------------------------------
(* The loop over a bundle's elements.                                       *)

\* The first rounds of the loop over a bundle's elements.
Rounds(f, d, when, parse, N) ==
    /\ f[0] = [i |-> 16, out |-> <<>>]
    /\ \A n \in 1 .. N : f[n] = NextElement(f[n - 1], d, when, parse)

Looped(f, d, when, parse, N) ==
    f = [n \in 0 .. N |-> IF n = 0 THEN [i |-> 16, out |-> <<>>]
                          ELSE NextElement(f[n - 1], d, when, parse)]

\* However many, there are the rounds.
LEMMA RoundsExist ==
    ASSUME NEW M \in Nat, NEW d, NEW when, NEW parse
    PROVE  \E f : Looped(f, d, when, parse, M)
<1> DEFINE b == [i |-> 16, out |-> <<>>]
           Is(f, N) == f = [n \in 0 .. N |-> IF n = 0 THEN b ELSE NextElement(f[n - 1], d, when, parse)]
           T == {N \in 0 .. M : \E f : Is(f, N)}
<1> SUFFICES \E f : Is(f, M)
  BY DEF Looped
<1> HIDE DEF b
<1>1. 0 \in T
  <2> DEFINE f == [n \in 0 .. 0 |-> b]
  <2>1. Is(f, 0)
    OBVIOUS
  <2> HIDE DEF Is, f
  <2> QED BY <2>1
<1>2. ASSUME NEW N \in 1 .. M, N - 1 \in T PROVE N \in T
  <2>1. PICK f : Is(f, N - 1)
    BY <1>2
  <2> DEFINE y == NextElement(f[N - 1], d, when, parse)
             g == [n \in 0 .. N |-> IF n = N THEN y ELSE f[n]]
  <2>2. \A n \in 0 .. N - 1 :
            f[n] = IF n = 0 THEN b ELSE NextElement(f[n - 1], d, when, parse)
    BY <2>1
  <2> HIDE DEF y
  <2>3. (\A n \in 0 .. N - 1 : g[n] = f[n]) /\ g[N] = y
    OBVIOUS
  <2>4. DOMAIN g = 0 .. N /\ g = [n \in DOMAIN g |-> g[n]]
    OBVIOUS
  <2> HIDE DEF g
  <2>5. ASSUME NEW n \in 0 .. N
        PROVE  g[n] = IF n = 0 THEN b ELSE NextElement(g[n - 1], d, when, parse)
    <3>1. CASE n = N
      <4>1. g[n - 1] = f[N - 1] /\ n # 0
        BY <2>3, <3>1
      <4> QED BY <2>3, <3>1, <4>1 DEF y
    <3>2. CASE n # N /\ n # 0
      <4>1. g[n] = f[n] /\ g[n - 1] = f[n - 1] /\ n \in 0 .. N - 1
        BY <2>3, <3>2
      <4> QED BY <2>2, <3>2, <4>1
    <3>3. CASE n # N /\ n = 0
      <4>1. g[n] = f[n] /\ n \in 0 .. N - 1
        BY <2>3, <3>3
      <4> QED BY <2>2, <3>3, <4>1
    <3> QED BY <3>1, <3>2, <3>3
  <2>6. Is(g, N)
    BY <2>4, <2>5
  <2>7. N \in 0 .. M
    OBVIOUS
  <2> HIDE DEF Is
  <2> QED BY <2>6, <2>7
<1> HIDE DEF T
<1>3. \A N \in 0 .. M : N \in T
  BY <1>1, <1>2, UpTo
<1>4. M \in T
  BY <1>3
<1> QED BY <1>4 DEF T

\* ParseElements is its rounds.
LEMMA RoundsAre ==
    ASSUME NEW d \in Seq(Bytes), NEW when, NEW parse
    PROVE  \E f : /\ Rounds(f, d, when, parse, Len(d) \div 8)
                  /\ ParseElements(d, when, parse) = f[Len(d) \div 8].out
<1> DEFINE N == Len(d) \div 8
           Is(f) == f = [n \in 0 .. N |-> IF n = 0 THEN [i |-> 16, out |-> <<>>]
                                          ELSE NextElement(f[n - 1], d, when, parse)]
           g == CHOOSE f : Is(f)
<1>1. N \in Nat
  <2>1. Len(d) \in Nat
    OBVIOUS
  <2> QED BY <2>1, DivMod
<1>2. \E f : Is(f)
  <2>1. \E f : Looped(f, d, when, parse, N)
    <3> HIDE DEF N
    <3> QED BY <1>1, RoundsExist
  <2> QED BY <2>1 DEF Looped
<1>3. Is(g)
  BY <1>2, Zenon
<1>4. ParseElements(d, when, parse) = g[N].out
  BY Zenon DEF ParseElements
<1> HIDE DEF g, N
<1>5. Rounds(g, d, when, parse, N)
  <2> DEFINE b == [i |-> 16, out |-> <<>>]
  <2> HIDE DEF b
  <2>1. \A n \in 0 .. N : g[n] = IF n = 0 THEN b ELSE NextElement(g[n - 1], d, when, parse)
    BY <1>3 DEF b
  <2>2. g[0] = b
    BY <1>1, <2>1
  <2>3. ASSUME NEW n \in 1 .. N PROVE g[n] = NextElement(g[n - 1], d, when, parse)
    <3>1. n \in 0 .. N /\ n # 0
      OBVIOUS
    <3> QED BY <2>1, <3>1
  <2> QED BY <2>2, <2>3 DEF Rounds, b
<1> QED BY <1>4, <1>5 DEF N

\* What does not move in one round does not move in any later one.
LEMMA RoundsStay ==
    ASSUME NEW f, NEW d, NEW when, NEW parse, NEW N \in Nat, NEW r \in 0 .. N,
           Rounds(f, d, when, parse, N), NextElement(f[r], d, when, parse) = f[r]
    PROVE  f[N] = f[r]
<1>1. \A n \in 1 .. N : f[n] = NextElement(f[n - 1], d, when, parse)
  BY DEF Rounds
<1> DEFINE M == N - r
           T == {n \in 0 .. M : f[r + n] = f[r]}
<1>2. M \in Nat /\ r + 0 = r /\ r + M = N
  OBVIOUS
<1>3. 0 \in T
  BY <1>2
<1>4. ASSUME NEW n \in 1 .. M, n - 1 \in T PROVE n \in T
  <2>1. r + n \in 1 .. N /\ (r + n) - 1 = r + (n - 1) /\ n \in 0 .. M
    OBVIOUS
  <2>2. f[r + (n - 1)] = f[r]
    BY <1>4
  <2> QED BY <1>1, <2>1, <2>2
<1> HIDE DEF T, M
<1>5. \A n \in 0 .. M : n \in T
  BY <1>2, <1>3, <1>4, UpTo
<1>6. M \in T
  BY <1>2, <1>5
<1> QED BY <1>2, <1>6 DEF T

-------------------------------------------------------------------------------
(* A bundle that is open, and what parsePacket reads of it.                 *)

\* A bundle that is open.
Level == [time : Times, bytes : Seq(Bytes), says : Seq(Said), cut : BOOLEAN]

\* The rounds of parsePacket over its elements so far, however it goes on and however
\* late the bundles around it are: they push what it says, and come to its end, or to
\* a size that cannot be.
Reads(b, r) ==
    \A z \in Seq(Bytes), when \in Nat, m \in Nat : \A f :
        LET d == b.bytes \o z
        IN /\ Len(b.bytes) + Len(z) <= Longest /\ when >= b.time /\ m + 1 >= Len(b.bytes)
           /\ Rounds(f, d, when, Parse[m], r)
           => /\ f[r].out = Around(when, b.says)
              /\ b.cut => NextElement(f[r], d, when, Parse[m]) = f[r]
              /\ ~b.cut => f[r].i = Len(b.bytes)

LevelOK(b) ==
    /\ b \in Level
    /\ Len(b.bytes) <= Longest /\ Len(b.bytes) % 4 = 0
    /\ At(b.bytes, 0, BundleHead(b.time))
    /\ \A k \in 1 .. Len(b.says) : b.says[k].time >= b.time
    /\ \E r \in Nat : 16 + (8 * r) <= Len(b.bytes) /\ Reads(b, r)

\* The parts of a bundle.
LEMMA LevelIs ==
    ASSUME NEW b \in Level
    PROVE  /\ b.time \in Times /\ b.time \in Nat /\ b.time >= 1
           /\ b.bytes \in Seq(Bytes) /\ Len(b.bytes) \in Nat
           /\ b.says \in Seq(Said) /\ b.cut \in BOOLEAN
           /\ b = [time |-> b.time, bytes |-> b.bytes, says |-> b.says, cut |-> b.cut]
<1>1. /\ b.time \in Times /\ b.bytes \in Seq(Bytes) /\ b.says \in Seq(Said) /\ b.cut \in BOOLEAN
      /\ b = [time |-> b.time, bytes |-> b.bytes, says |-> b.says, cut |-> b.cut]
  BY DEF Level
<1>2. \A t \in Times : t \in Nat /\ t >= Immediate /\ t \div Word < Word
  BY BundleAssumption, Zenon
<1>3. Immediate = 1
  BY DEF Immediate
<1>4. \A v \in Seq(Bytes) : Len(v) \in Nat
  OBVIOUS
<1> QED BY <1>1, <1>2, <1>3, <1>4

\* A packet's length fits in a word.
LEMMA LongestIs == Longest \in Nat /\ Longest >= 16 /\ Longest < Word /\ Word \in Nat
<1>1. Longest \in 16 .. Word - 1
  BY BundleAssumption, Zenon
<1>2. Word \in Nat
  BY BaseIs
<1> QED BY <1>1, <1>2

\* What a bundle begins with is read as such.
LEMMA BundleHeadIs ==
    ASSUME NEW t \in Times
    PROVE  /\ BundleHead(t) \in Seq(Bytes) /\ Len(BundleHead(t)) = 16
           /\ \A d \in Seq(Bytes) : At(d, 0, BundleHead(t)) => IsBundle(d) /\ ReadBe64(d, 8) = t
<1> DEFINE x == BundleTag
           y == WriteBe64(t)
<1>0. t \in Nat /\ t \div Word < Word
  BY BundleAssumption, Zenon
<1>1. x \in Seq(Bytes) /\ Len(x) = 8 /\ \A d \in Seq(Bytes) : IsBundle(d) <=> At(d, 0, x)
  BY TagIs
<1>2. y \in Seq(Bytes) /\ Len(y) = 8
      /\ \A d \in Seq(Bytes), i \in Nat : At(d, i, y) => ReadBe64(d, i) = t
  BY <1>0, EightBytes
<1>3. BundleHead(t) = x \o y
  BY DEF BundleHead
<1> HIDE DEF x, y
<1>4. x \o y \in Seq(Bytes) /\ Len(x \o y) = 16
  <2>1. x \o y \in Seq(Bytes) /\ Len(x \o y) = Len(x) + Len(y)
    BY <1>1, <1>2, BytesJoined, Zenon
  <2> QED BY <1>1, <1>2, <2>1
<1>5. ASSUME NEW d \in Seq(Bytes), At(d, 0, x \o y) PROVE IsBundle(d) /\ ReadBe64(d, 8) = t
  <2>1. At(d, 0, x) /\ At(d, 0 + Len(x), y)
    BY <1>1, <1>2, <1>5, AtBoth
  <2>2. At(d, 8, y)
    BY <1>1, <2>1
  <2> QED BY <1>1, <1>2, <2>1, <2>2
<1>6. BundleHead(t) \in Seq(Bytes) /\ Len(BundleHead(t)) = 16
  BY <1>3, <1>4
<1>7. \A d \in Seq(Bytes) : At(d, 0, BundleHead(t)) => IsBundle(d) /\ ReadBe64(d, 8) = t
  BY <1>3, <1>5
<1> QED BY <1>6, <1>7

\* A bundle without elements can be read back.
LEMMA NewLevel ==
    ASSUME NEW t \in Times
    PROVE  LevelOK(NewBundle(t))
<1> DEFINE b == NewBundle(t)
<1> DEFINE h == BundleHead(t)
<1>2. h \in Seq(Bytes) /\ Len(h) = 16
  BY BundleHeadIs
<1>3. b.time = t /\ b.bytes = BundleHead(t) /\ b.says = <<>> /\ ~b.cut
  BY DEF NewBundle
<1>4. b \in Level
  <2>1. <<>> \in Seq(Said) /\ FALSE \in BOOLEAN
    OBVIOUS
  <2> QED BY <1>2, <2>1 DEF NewBundle, Level
<1> HIDE DEF b
<1>5. Len(b.bytes) = 16
  BY <1>2, <1>3
<1>6. At(b.bytes, 0, BundleHead(b.time))
  BY <1>2, <1>3, AtSelf
<1>7. Reads(b, 0)
  <2> SUFFICES ASSUME NEW z \in Seq(Bytes), NEW when \in Nat, NEW m \in Nat, NEW f,
                      Rounds(f, b.bytes \o z, when, Parse[m], 0)
               PROVE  f[0].out = Around(when, b.says) /\ f[0].i = Len(b.bytes)
    BY <1>3 DEF Reads
  <2>1. f[0] = [i |-> 16, out |-> <<>>]
    BY DEF Rounds
  <2>2. Around(when, <<>>) = <<>>
    BY DEF Around
  <2>3. f[0].out = <<>> /\ f[0].i = 16
    BY <2>1
  <2> QED BY <1>3, <1>5, <2>2, <2>3
<1>8. 16 <= Longest /\ Len(b.bytes) <= Longest /\ Len(b.bytes) % 4 = 0
  BY <1>5, LongestIs
<1>9. \A k \in 1 .. Len(b.says) : b.says[k].time >= b.time
  BY <1>3
<1>10. 16 + (8 * 0) <= Len(b.bytes)
  BY <1>5
<1> QED BY <1>4, <1>6, <1>7, <1>8, <1>9, <1>10 DEF LevelOK, b

\* How reading goes on over bytes e that say something: one round more.
ReadsOn(b, e, says, cut) ==
    \A z \in Seq(Bytes), when \in Nat, m \in Nat : \A s :
        LET d == (b.bytes \o e) \o z
            y == NextElement(s, d, when, Parse[m])
        IN /\ (Len(b.bytes) + Len(e)) + Len(z) <= Longest /\ when >= b.time
           /\ m + 1 >= Len(b.bytes) + Len(e) /\ s.i = Len(b.bytes) /\ s.out \in Seq(Said)
           => /\ y.out = s.out \o Around(when, says)
              /\ cut => NextElement(y, d, when, Parse[m]) = y
              /\ ~cut => y.i = Len(b.bytes) + Len(e)

Grown(b, e, says, cut) == [With(b, e, says) EXCEPT !.cut = b.cut \/ cut]

\* What a bundle is with more bytes.
LEMMA GrownIs ==
    ASSUME NEW b \in Level, NEW e \in Seq(Bytes), NEW says \in Seq(Said), NEW cut \in BOOLEAN
    PROVE  LET g == Grown(b, e, says, cut)
           IN /\ g \in Level
              /\ g.time = b.time /\ g.bytes = b.bytes \o e /\ g.cut = (b.cut \/ cut)
              /\ g.says = IF b.cut THEN b.says ELSE b.says \o Around(b.time, says)
<1> DEFINE t == b.time
           x == b.bytes \o e
           s == IF b.cut THEN b.says ELSE b.says \o Around(t, says)
           c == b.cut \/ cut
<1>1. t \in Times /\ t \in Nat /\ b.bytes \in Seq(Bytes) /\ b.says \in Seq(Said) /\ b.cut \in BOOLEAN
      /\ b = [time |-> t, bytes |-> b.bytes, says |-> b.says, cut |-> b.cut]
  BY LevelIs
<1>2. x \in Seq(Bytes)
  BY <1>1, BytesJoined
<1>3. s \in Seq(Said)
  <2>1. Around(t, says) \in Seq(Said)
    BY <1>1, AroundIs
  <2> QED BY <1>1, <2>1, Joined
<1>4. c \in BOOLEAN
  BY <1>1
<1>5. With(b, e, says) = [time |-> t, bytes |-> x, says |-> s, cut |-> b.cut]
  <2> DEFINE u == b.bytes
             v == b.says
             c0 == b.cut
             w == IF c0 THEN v ELSE v \o Around(t, says)
  <2>1. With(b, e, says) = [b EXCEPT !.bytes = u \o e, !.says = w]
    BY <1>1 DEF With
  <2> HIDE DEF t, u, v, c0, w
  <2>2. b = [time |-> t, bytes |-> u, says |-> v, cut |-> c0]
    BY <1>1 DEF u, v, c0
  <2>3. With(b, e, says) = [time |-> t, bytes |-> u \o e, says |-> w, cut |-> c0]
    BY <2>1, <2>2
  <2> QED BY <2>3 DEF u, v, c0, w
<1> DEFINE d == b.cut
<1> HIDE DEF t, x, s, c, d
<1>6. Grown(b, e, says, cut) = [[time |-> t, bytes |-> x, says |-> s, cut |-> d] EXCEPT !.cut = c]
  BY <1>5 DEF Grown, c, d
<1>7. Grown(b, e, says, cut) = [time |-> t, bytes |-> x, says |-> s, cut |-> c]
  BY <1>6
<1>8. [time |-> t, bytes |-> x, says |-> s, cut |-> c] \in Level
  BY <1>1, <1>2, <1>3, <1>4 DEF Level
<1>9. LET g == Grown(b, e, says, cut)
      IN g \in Level /\ g.time = t /\ g.bytes = x /\ g.cut = c /\ g.says = s
  BY <1>7, <1>8
<1> QED BY <1>9 DEF t, x, s, c

\* Bytes behind bytes.
LEMMA BytesThree == \A x, y, z \in Seq(Bytes) : (x \o y) \o z = x \o (y \o z)
BY ConcatAssociative

\* What is put behind a bundle's elements leaves what they say, and adds what it says.
LEMMA LevelGrows ==
    ASSUME NEW b, LevelOK(b), NEW e \in Seq(Bytes), Len(e) % 4 = 0, Len(e) >= 8,
           Len(b.bytes) + Len(e) <= Longest, NEW says \in Seq(Said), NEW cut \in BOOLEAN,
           ~b.cut => ReadsOn(b, e, says, cut)
    PROVE  LevelOK(Grown(b, e, says, cut))
<1> DEFINE g == Grown(b, e, says, cut)
           v == b.bytes
           l == Len(v)
           n == Len(e)
           t == b.time
           w == Around(t, says)
<1>1. /\ b \in Level /\ l <= Longest /\ l % 4 = 0 /\ At(v, 0, BundleHead(t))
      /\ \A k \in 1 .. Len(b.says) : b.says[k].time >= t
  BY DEF LevelOK
<1>2. t \in Times /\ t \in Nat /\ v \in Seq(Bytes) /\ l \in Nat /\ b.says \in Seq(Said)
      /\ b.cut \in BOOLEAN
  BY <1>1, LevelIs
<1>3. /\ g \in Level /\ g.time = t /\ g.bytes = v \o e /\ g.cut = (b.cut \/ cut)
      /\ g.says = IF b.cut THEN b.says ELSE b.says \o w
  BY <1>1, GrownIs
<1>4. n \in Nat /\ n >= 8 /\ n % 4 = 0 /\ l + n <= Longest
  OBVIOUS
<1>5. v \o e \in Seq(Bytes) /\ Len(v \o e) = l + n
  BY <1>2, BytesJoined
<1>6. w \in Seq(Said) /\ Len(w) = Len(says) /\ \A k \in 1 .. Len(w) : w[k].time >= t
  <2>1. w \in Seq(Said) /\ Len(w) = Len(says)
    BY <1>2, AroundIs
  <2>2. ASSUME NEW k \in 1 .. Len(says) PROVE w[k].time >= t
    <3>1. w[k] = [address |-> says[k].address, args |-> says[k].args,
                  time |-> Later(t, says[k].time)]
      BY <1>2, AroundIs
    <3>2. says[k] \in Said
      OBVIOUS
    <3>3. says[k].time \in Nat
      BY <3>2, SaidIs
    <3>4. Later(t, says[k].time) >= t
      <4>1. \A i, j \in Nat : Later(i, j) >= i
        BY LaterIs
      <4> HIDE DEF t
      <4> QED BY <1>2, <3>3, <4>1
    <3>5. w[k].time = Later(t, says[k].time)
      BY <3>1
    <3> QED BY <3>4, <3>5
  <2> QED BY <2>1, <2>2
<1> HIDE DEF g, w, t, v, l, n
<1>13. (l + n) % 4 = 0
  BY <1>1, <1>2, <1>4, FourMore
<1>7. At(g.bytes, 0, BundleHead(g.time))
  <2> DEFINE h == BundleHead(t)
  <2>1. h \in Seq(Bytes)
    BY <1>2, BundleHeadIs
  <2>2. At(v \o e, 0, v)
    BY <1>2, AtHalves
  <2>3. At(v, 0, h)
    BY <1>1
  <2> HIDE DEF h
  <2>4. At(v \o e, 0 + 0, h)
    BY <1>2, <1>5, <2>1, <2>2, <2>3, AtIn
  <2>5. At(v \o e, 0, h)
    BY <2>4
  <2> QED BY <1>3, <2>5 DEF h
<1>8. \A k \in 1 .. Len(g.says) : g.says[k].time >= g.time
  <2>1. CASE b.cut
    BY <1>1, <1>3, <2>1
  <2>2. CASE ~b.cut
    <3> DEFINE x == b.says
               i == Len(x)
               j == Len(w)
    <3>1. x \in Seq(Said) /\ i \in Nat /\ j \in Nat
      BY <1>2, <1>6
    <3>2. Len(x \o w) = i + j /\ \A k \in 1 .. i : (x \o w)[k] = x[k]
      BY <1>6, <3>1, Joined
    <3>3. \A k \in 1 .. j : (x \o w)[i + k] = w[k]
      BY <1>6, <3>1, Joined
    <3>4. \A k \in 1 .. i : x[k].time >= t
      BY <1>1
    <3>5. g.says = x \o w /\ g.time = t
      BY <1>3, <2>2
    <3> HIDE DEF x, i, j
    <3>6. \A k \in 1 .. i : (x \o w)[k].time >= t
      BY <3>2, <3>4
    <3>7. \A k \in 1 .. j : (x \o w)[i + k].time >= t
      BY <1>6, <3>3 DEF j
    <3>8. ASSUME NEW k \in 1 .. i + j PROVE (x \o w)[k].time >= t
      <4>1. CASE k \in 1 .. i
        BY <3>6, <4>1
      <4>2. CASE k \notin 1 .. i
        <5>1. k - i \in 1 .. j /\ i + (k - i) = k
          BY <3>1, <4>2
        <5> QED BY <3>7, <5>1
      <4> QED BY <4>1, <4>2
    <3> QED BY <3>2, <3>5, <3>8
  <2> QED BY <2>1, <2>2
<1>9. PICK r \in Nat : 16 + (8 * r) <= l /\ Reads(b, r)
  <2>1. \E r \in Nat : 16 + (8 * r) <= Len(b.bytes) /\ Reads(b, r)
    BY DEF LevelOK
  <2> QED BY <2>1 DEF l, v
\* The rounds over the bytes before e, when there is more.
<1>10. ASSUME NEW z \in Seq(Bytes), NEW when \in Nat, NEW m \in Nat, NEW f, NEW N \in Nat, r <= N,
              (l + n) + Len(z) <= Longest, when >= t, m + 1 >= l + n,
              Rounds(f, (v \o e) \o z, when, Parse[m], N)
       PROVE  /\ f[r].out = Around(when, b.says)
              /\ b.cut => NextElement(f[r], (v \o e) \o z, when, Parse[m]) = f[r]
              /\ ~b.cut => f[r].i = l
  <2>1. (v \o e) \o z = v \o (e \o z)
    BY <1>2, <1>10, BytesThree
  <2>2. e \o z \in Seq(Bytes) /\ Len(e \o z) = n + Len(z)
    BY BytesJoined DEF n
  <2>3. Rounds(f, (v \o e) \o z, when, Parse[m], r)
    <3>1. \A k \in 1 .. r : k \in 1 .. N
      BY <1>9, <1>10
    <3> QED BY <1>10, <3>1 DEF Rounds
  <2>4. Len(z) \in Nat
    BY <1>10
  <2>5. l + Len(e \o z) <= Longest /\ m + 1 >= l
    BY <1>2, <1>4, <1>10, <2>2, <2>4
  <2> DEFINE y == e \o z
  <2> HIDE DEF y
  <2>6. y \in Seq(Bytes) /\ l + Len(y) <= Longest /\ (v \o e) \o z = v \o y
    BY <2>1, <2>2, <2>5 DEF y
  <2>7. Rounds(f, v \o y, when, Parse[m], r)
    BY <2>3, <2>6
  <2>8. /\ f[r].out = Around(when, b.says)
        /\ b.cut => NextElement(f[r], v \o y, when, Parse[m]) = f[r]
        /\ ~b.cut => f[r].i = l
    BY <1>9, <1>10, <2>5, <2>6, <2>7 DEF Reads, v, l, t
  <2> QED BY <2>6, <2>8
<1>11. CASE b.cut
  <2>4. g.cut /\ g.says = b.says
    BY <1>3, <1>11
  <2>5. g.time = t /\ g.bytes = v \o e /\ Len(v \o e) = l + n
    BY <1>3, <1>5
  <2>1. Reads(g, r)
    <3> SUFFICES ASSUME NEW z \in Seq(Bytes), NEW when \in Nat, NEW m \in Nat, NEW f,
                        (l + n) + Len(z) <= Longest, when >= t, m + 1 >= l + n,
                        Rounds(f, (v \o e) \o z, when, Parse[m], r)
                 PROVE  /\ f[r].out = Around(when, g.says)
                        /\ NextElement(f[r], (v \o e) \o z, when, Parse[m]) = f[r]
      BY <2>4, <2>5, SMTT(40) DEF Reads
    <3>1. r <= r
      BY <1>9
    <3>2. /\ f[r].out = Around(when, b.says)
          /\ b.cut => NextElement(f[r], (v \o e) \o z, when, Parse[m]) = f[r]
      BY <1>9, <1>10, <3>1
    <3> QED BY <1>11, <2>4, <3>2, Zenon
  <2>2. Len(g.bytes) = l + n
    BY <1>3, <1>5
  <2>3. l + n <= Longest /\ 16 + (8 * r) <= l + n
    BY <1>2, <1>4, <1>9
  <2> QED BY <1>3, <1>7, <1>8, <1>9, <1>13, <2>1, <2>2, <2>3 DEF LevelOK, g
<1>12. CASE ~b.cut
  <2>1. Reads(g, r + 1)
    <3> SUFFICES ASSUME NEW z \in Seq(Bytes), NEW when \in Nat, NEW m \in Nat, NEW f,
                        (l + n) + Len(z) <= Longest, when >= t, m + 1 >= l + n,
                        Rounds(f, (v \o e) \o z, when, Parse[m], r + 1)
                 PROVE  /\ f[r + 1].out = Around(when, g.says)
                        /\ cut => NextElement(f[r + 1], (v \o e) \o z, when, Parse[m]) = f[r + 1]
                        /\ ~cut => f[r + 1].i = l + n
      BY <1>3, <1>5, <1>12 DEF Reads
    <3>1. r <= r + 1 /\ r + 1 \in Nat /\ r + 1 \in 1 .. r + 1 /\ (r + 1) - 1 = r
      BY <1>9
    <3>2. f[r].out = Around(when, b.says) /\ f[r].i = l
      BY <1>10, <1>12, <3>1
    <3>3. Around(when, b.says) \in Seq(Said)
      BY <1>2, AroundIs
    <3>4. f[r + 1] = NextElement(f[r], (v \o e) \o z, when, Parse[m])
      BY <3>1 DEF Rounds
    <3>5. /\ f[r + 1].out = f[r].out \o Around(when, says)
          /\ cut => NextElement(f[r + 1], (v \o e) \o z, when, Parse[m]) = f[r + 1]
          /\ ~cut => f[r + 1].i = l + n
      <4>1. ReadsOn(b, e, says, cut)
        BY <1>12
      <4>2. f[r].out \in Seq(Said)
        BY <3>2, <3>3
      <4>3. /\ (Len(b.bytes) + Len(e)) + Len(z) <= Longest /\ when >= b.time
            /\ m + 1 >= Len(b.bytes) + Len(e) /\ f[r].i = Len(b.bytes)
        BY <3>2 DEF v, l, n, t
      <4> DEFINE d == (b.bytes \o e) \o z
                 s == f[r]
                 y == NextElement(s, d, when, Parse[m])
      <4>4. /\ y.out = s.out \o Around(when, says)
            /\ cut => NextElement(y, d, when, Parse[m]) = y
            /\ ~cut => y.i = Len(b.bytes) + Len(e)
        <5>1. z \in Seq(Bytes) /\ when \in Nat /\ m \in Nat
          OBVIOUS
        <5>2. \A o : /\ (Len(b.bytes) + Len(e)) + Len(z) <= Longest /\ when >= b.time
                     /\ m + 1 >= Len(b.bytes) + Len(e) /\ o.i = Len(b.bytes) /\ o.out \in Seq(Said)
                 => /\ NextElement(o, d, when, Parse[m]).out = o.out \o Around(when, says)
                    /\ cut => NextElement(NextElement(o, d, when, Parse[m]), d, when, Parse[m])
                               = NextElement(o, d, when, Parse[m])
                    /\ ~cut => NextElement(o, d, when, Parse[m]).i = Len(b.bytes) + Len(e)
          BY <4>1, <5>1, Zenon DEF ReadsOn
        <5> HIDE DEF d
        <5> QED BY <4>2, <4>3, <5>2, Zenon
      <4>5. f[r + 1] = y
        BY <3>4 DEF v
      <4> HIDE DEF y
      <4> QED BY <4>4, <4>5 DEF v, l, n
    <3>6. Around(when, b.says \o w) = Around(when, b.says) \o Around(when, w)
      BY <1>2, <1>6, AroundBoth
    <3>7. Around(when, w) = Around(when, says)
      BY <1>2, AroundAround DEF w
    <3>8. g.says = b.says \o w
      BY <1>3, <1>12
    <3> QED BY <3>2, <3>5, <3>6, <3>7, <3>8
  <2>2. Len(g.bytes) = l + n
    BY <1>3, <1>5
  <2>3. l + n <= Longest /\ 16 + (8 * (r + 1)) <= l + n /\ r + 1 \in Nat
    BY <1>2, <1>4, <1>9
  <2> QED BY <1>3, <1>7, <1>8, <1>13, <2>1, <2>2, <2>3 DEF LevelOK, g
<1> QED BY <1>11, <1>12

\* Bytes that, as an element of a bundle, push messages.
Pushes(x, says) ==
    \A when \in Nat, m \in Nat :
        when >= 1 /\ m >= Len(x) => Parse[m][x][when] = Around(when, says)

\* One round reads one element.
LEMMA ElementRead ==
    ASSUME NEW d \in Seq(Bytes), NEW l \in Nat, NEW x \in Seq(Bytes), At(d, l, Element(x)),
           Len(x) % 4 = 0, Len(x) >= 4, Len(x) < Word, NEW s, s.i = l, NEW when, NEW parse
    PROVE  NextElement(s, d, when, parse) =
               [i |-> (l + 4) + Len(x), out |-> s.out \o parse[x][when]]
<1> DEFINE n == Len(x)
           w == WriteBe32(n)
           size == ReadBe32(d, s.i)
           end == s.i + 4 + size
<1>1. n \in Nat /\ n >= 4 /\ n % 4 = 0 /\ n < Word /\ Len(d) \in Nat /\ Word \in Nat
  BY LongestIs
<1>2. n \in 0 .. Word - 1
  BY <1>1
<1> HIDE DEF n
<1>3. w \in Seq(Bytes) /\ Len(w) = 4 /\ \A e, i : At(e, i, w) => ReadBe32(e, i) = n
  BY <1>2, FourBytesFit
<1>4. At(d, l, w \o x)
  BY DEF Element, n
<1> HIDE DEF w
<1>5. At(d, l, w) /\ At(d, l + 4, x)
  BY <1>3, <1>4, AtBoth
<1>6. size = n
  BY <1>3, <1>5
<1>7. l + 4 <= Len(d) /\ (l + 4) + n <= Len(d)
  <2>1. l + Len(w) <= Len(d) /\ (l + 4) + Len(x) <= Len(d)
    BY <1>5 DEF At
  <2> QED BY <1>3, <2>1 DEF n
<1>8. SubSeq(d, (l + 4) + 1, (l + 4) + n) = x
  <2>1. l + 4 \in Nat
    OBVIOUS
  <2> QED BY <1>5, <2>1, AtSub DEF n
<1> HIDE DEF size
<1>9. s.i + 5 = (l + 4) + 1 /\ end = (l + 4) + n /\ ~(s.i + 4 > Len(d)) /\ ~(end > Len(d))
  BY <1>1, <1>6, <1>7
<1>10. ~(size = 0) /\ ~(size % 4 # 0)
  BY <1>1, <1>6
<1> HIDE DEF end
<1>11. NextElement(s, d, when, parse) =
         IF s.i + 4 > Len(d) \/ size = 0 \/ size % 4 # 0 \/ end > Len(d) THEN s
         ELSE [i |-> end, out |-> s.out \o parse[SubSeq(d, s.i + 5, end)][when]]
  BY DEF NextElement, size, end
<1>12. NextElement(s, d, when, parse) =
           [i |-> end, out |-> s.out \o parse[SubSeq(d, s.i + 5, end)][when]]
  BY <1>9, <1>10, <1>11
<1>13. SubSeq(d, s.i + 5, end) = x
  BY <1>8, <1>9
<1>14. NextElement(s, d, when, parse) = [i |-> end, out |-> s.out \o parse[x][when]]
  BY <1>12, <1>13
<1> QED BY <1>9, <1>14 DEF n

\* A size that cannot be stops the loop.
LEMMA SizeStops ==
    ASSUME NEW d \in Seq(Bytes), Len(d) <= Longest, NEW l \in Nat, NEW n \in Sizes,
           At(d, l, WriteBe32(n)), NEW s, s.i = l, NEW when, NEW parse
    PROVE  NextElement(s, d, when, parse) = s
<1> DEFINE w == WriteBe32(n)
           size == ReadBe32(d, s.i)
<1>1. n \in 0 .. Word - 1 /\ (n = 0 \/ n % 4 # 0 \/ n > Longest)
  BY BundleAssumption, Zenon
<1>2. \A e, i : At(e, i, w) => ReadBe32(e, i) = n
  BY <1>1, FourBytesFit
<1>3. size = n
  BY <1>2
<1>4. n \in Nat /\ Longest \in Nat /\ Len(d) \in Nat
  BY <1>1, LongestIs
<1> HIDE DEF size, w
<1>5. n > Longest => s.i + 4 + size > Len(d)
  BY <1>3, <1>4
<1>6. NextElement(s, d, when, parse) =
         IF s.i + 4 > Len(d) \/ size = 0 \/ size % 4 # 0 \/ s.i + 4 + size > Len(d) THEN s
         ELSE [i |-> s.i + 4 + size,
               out |-> s.out \o parse[SubSeq(d, s.i + 5, s.i + 4 + size)][when]]
  BY DEF NextElement, size
<1> QED BY <1>1, <1>3, <1>5, <1>6

\* Where bytes behind a bundle's are.
LEMMA Behind ==
    ASSUME NEW v \in Seq(Bytes), NEW e \in Seq(Bytes), NEW z \in Seq(Bytes)
    PROVE  /\ (v \o e) \o z \in Seq(Bytes) /\ Len((v \o e) \o z) = (Len(v) + Len(e)) + Len(z)
           /\ At((v \o e) \o z, Len(v), e)
<1> DEFINE x == v \o e
           d == x \o z
<1>1. x \in Seq(Bytes) /\ Len(x) = Len(v) + Len(e) /\ Len(v) \in Nat
  BY BytesJoined
<1>2. At(x, Len(v), e)
  BY AtHalves
<1> HIDE DEF x
<1>3. d \in Seq(Bytes) /\ Len(d) = Len(x) + Len(z)
  BY <1>1, BytesJoined
<1>4. At(d, 0, x)
  BY <1>1, AtHalves
<1> HIDE DEF d
<1>5. At(d, 0 + Len(v), e)
  BY <1>1, <1>2, <1>3, <1>4, AtIn
<1>6. 0 + Len(v) = Len(v)
  BY <1>1
<1> QED BY <1>1, <1>3, <1>5, <1>6 DEF d, x

\* An element is read behind those before it.
LEMMA ElementGrows ==
    ASSUME NEW b, LevelOK(b), NEW x \in Seq(Bytes), Len(x) % 4 = 0, Len(x) >= 4,
           Len(b.bytes) + Len(Element(x)) <= Longest, NEW says \in Seq(Said), Pushes(x, says)
    PROVE  LevelOK(With(b, Element(x), says))
<1> DEFINE e == Element(x)
           v == b.bytes
           l == Len(v)
           n == Len(x)
<1>1. b \in Level
  BY DEF LevelOK
<1>2. v \in Seq(Bytes) /\ l \in Nat /\ b.time \in Nat /\ b.time >= 1 /\ b.cut \in BOOLEAN
  BY <1>1, LevelIs
<1>3. n \in Nat /\ n >= 4 /\ n % 4 = 0
  OBVIOUS
<1>4. e \in Seq(Bytes) /\ Len(e) = 4 + n
  <2>1. WriteBe32(n) \in Seq(Bytes) /\ Len(WriteBe32(n)) = 4
    BY <1>3, FourBytes
  <2> HIDE DEF n
  <2> DEFINE w == WriteBe32(n)
  <2> HIDE DEF w
  <2>2. e = w \o x
    BY DEF Element, w, n
  <2>3. w \in Seq(Bytes) /\ Len(w) = 4
    BY <2>1 DEF w
  <2> HIDE DEF e
  <2>4. w \o x \in Seq(Bytes) /\ Len(w \o x) = Len(w) + Len(x)
    BY <2>3, BytesJoined
  <2> QED BY <2>2, <2>3, <2>4 DEF n
<1>5. l + (4 + n) <= Longest
  BY <1>4
<1> HIDE DEF e, v, l, n
<1>6. n < Word /\ (4 + n) % 4 = 0 /\ 4 + n >= 8
  BY <1>2, <1>3, <1>5, LongestIs
<1>7. ASSUME NEW cut, ~cut PROVE ReadsOn(b, e, says, cut)
  <2>0. ASSUME NEW z \in Seq(Bytes), NEW when \in Nat, NEW m \in Nat, NEW s,
               when >= b.time, m + 1 >= l + Len(e), s.i = l
        PROVE  /\ NextElement(s, (v \o e) \o z, when, Parse[m]).out = s.out \o Around(when, says)
               /\ NextElement(s, (v \o e) \o z, when, Parse[m]).i = l + Len(e)
    <3> DEFINE d == (v \o e) \o z
    <3>1. d \in Seq(Bytes) /\ At(d, l, e)
      BY <1>2, <1>4, Behind DEF l
    <3> HIDE DEF d
    <3>2. NextElement(s, d, when, Parse[m]) = [i |-> (l + 4) + n, out |-> s.out \o Parse[m][x][when]]
      <4> DEFINE p == Parse[m]
      <4>1. Len(x) % 4 = 0 /\ Len(x) >= 4 /\ Len(x) < Word /\ At(d, l, Element(x))
        BY <1>3, <1>6, <3>1 DEF n, e
      <4> HIDE DEF p
      <4>2. NextElement(s, d, when, p) = [i |-> (l + 4) + Len(x), out |-> s.out \o p[x][when]]
        <5>1. d \in Seq(Bytes) /\ l \in Nat /\ x \in Seq(Bytes) /\ s.i = l
          BY <1>2, <2>0, <3>1
        <5>2. \A o : o.i = l => \A t, q : NextElement(o, d, t, q) =
                  [i |-> (l + 4) + Len(x), out |-> o.out \o q[x][t]]
          BY <4>1, <5>1, ElementRead
        <5> QED BY <5>1, <5>2, Zenon
      <4> QED BY <4>2 DEF p, n
    <3>3. when >= 1 /\ m >= n /\ (l + 4) + n = l + Len(e)
      BY <1>2, <1>3, <1>4, <2>0
    <3>4. Parse[m][x][when] = Around(when, says)
      BY <3>3 DEF Pushes, n
    <3> DEFINE y == NextElement(s, d, when, Parse[m])
    <3>5. y = [i |-> l + Len(e), out |-> s.out \o Around(when, says)]
      BY <3>2, <3>3, <3>4
    <3> HIDE DEF y
    <3>6. y.out = s.out \o Around(when, says) /\ y.i = l + Len(e)
      BY <3>5
    <3> QED BY <3>6 DEF y, d
  <2> SUFFICES ASSUME NEW z \in Seq(Bytes), NEW when \in Nat, NEW m \in Nat, NEW s
               PROVE  LET d == (b.bytes \o e) \o z
                          y == NextElement(s, d, when, Parse[m])
                      IN /\ (Len(b.bytes) + Len(e)) + Len(z) <= Longest /\ when >= b.time
                         /\ m + 1 >= Len(b.bytes) + Len(e) /\ s.i = Len(b.bytes) /\ s.out \in Seq(Said)
                         => /\ y.out = s.out \o Around(when, says)
                            /\ cut => NextElement(y, d, when, Parse[m]) = y
                            /\ ~cut => y.i = Len(b.bytes) + Len(e)
    BY Zenon DEF ReadsOn
  <2>1. ASSUME when >= b.time, m + 1 >= Len(b.bytes) + Len(e), s.i = Len(b.bytes)
        PROVE  LET d == (b.bytes \o e) \o z
                   y == NextElement(s, d, when, Parse[m])
               IN /\ y.out = s.out \o Around(when, says)
                  /\ cut => NextElement(y, d, when, Parse[m]) = y
                  /\ ~cut => y.i = Len(b.bytes) + Len(e)
    <3>1. m + 1 >= l + Len(e) /\ s.i = l
      BY <2>1 DEF l, v
    <3>2. /\ NextElement(s, (v \o e) \o z, when, Parse[m]).out = s.out \o Around(when, says)
          /\ NextElement(s, (v \o e) \o z, when, Parse[m]).i = l + Len(e)
      BY <2>0, <2>1, <3>1, Zenon
    <3> QED BY <1>7, <3>2, Zenon DEF l, v
  <2> QED BY <2>1, Zenon
<1>8. LevelOK(Grown(b, e, says, FALSE))
  <2>1. Len(e) % 4 = 0 /\ Len(e) >= 8 /\ Len(b.bytes) + Len(e) <= Longest
    BY <1>4, <1>5, <1>6 DEF l, v
  <2>2. FALSE \in BOOLEAN
    OBVIOUS
  <2>3. ReadsOn(b, e, says, FALSE)
    BY <1>7
  <2> QED BY <1>4, <2>1, <2>2, <2>3, LevelGrows
<1>9. Grown(b, e, says, FALSE) = With(b, e, says)
  <2> DEFINE u == IF b.cut THEN b.says ELSE b.says \o Around(b.time, says)
  <2> HIDE DEF u
  <2>1. With(b, e, says) = [b EXCEPT !.bytes = b.bytes \o e, !.says = u]
    BY <1>1, LevelIs DEF With, u
  <2>2. (b.cut \/ FALSE) = b.cut
    BY <1>2
  <2>3. b = [time |-> b.time, bytes |-> b.bytes, says |-> b.says, cut |-> b.cut]
    BY <1>1, LevelIs
  <2>4. With(b, e, says) = [time |-> b.time, bytes |-> b.bytes \o e, says |-> u, cut |-> b.cut]
    BY <2>1, <2>3
  <2>5. [With(b, e, says) EXCEPT !.cut = b.cut] = With(b, e, says)
    <3> DEFINE t == b.time
               y == b.bytes \o e
               c == b.cut
    <3>1. With(b, e, says) = [time |-> t, bytes |-> y, says |-> u, cut |-> c]
      BY <2>4
    <3> HIDE DEF t, y, c
    <3>2. [With(b, e, says) EXCEPT !.cut = c] = With(b, e, says)
      BY <3>1
    <3> QED BY <3>2 DEF c
  <2> QED BY <2>2, <2>5 DEF Grown
<1> QED BY <1>8, <1>9 DEF e

\* A size that cannot be ends what a bundle says.
LEMMA CutGrows ==
    ASSUME NEW b, LevelOK(b), NEW n \in Sizes, NEW x \in Seq(Bytes), Len(x) = 4,
           Len(b.bytes) + Len(WriteBe32(n) \o x) <= Longest
    PROVE  LevelOK([With(b, WriteBe32(n) \o x, <<>>) EXCEPT !.cut = TRUE])
<1> DEFINE w == WriteBe32(n)
           e == w \o x
           v == b.bytes
           l == Len(v)
<1>1. b \in Level
  BY DEF LevelOK
<1>2. v \in Seq(Bytes) /\ l \in Nat
  BY <1>1, LevelIs
<1>3. w \in Seq(Bytes) /\ Len(w) = 4
  <2>1. n \in Nat
    <3>1. n \in 0 .. Word - 1
      BY BundleAssumption, Zenon
    <3> QED BY <3>1
  <2> QED BY <2>1, FourBytes
<1> HIDE DEF w
<1>4. e \in Seq(Bytes) /\ Len(e) = 8
  <2>1. e \in Seq(Bytes) /\ Len(e) = Len(w) + Len(x)
    BY <1>3, BytesJoined, Zenon
  <2> QED BY <1>3, <2>1
<1>5. ASSUME NEW z \in Seq(Bytes), (l + Len(e)) + Len(z) <= Longest,
             NEW when, NEW m, NEW s, s.i = l
      PROVE  NextElement(s, (v \o e) \o z, when, Parse[m]) = s
  <2> DEFINE d == (v \o e) \o z
             p == Parse[m]
  <2>1. d \in Seq(Bytes) /\ Len(d) = (l + Len(e)) + Len(z) /\ At(d, l, e)
    BY <1>2, <1>4, Behind
  <2> HIDE DEF d, p
  <2>2. At(d, l, w)
    BY <1>2, <1>3, <2>1, AtBoth
  <2>3. Len(d) <= Longest
    BY <1>5, <2>1
  <2>4. d \in Seq(Bytes) /\ l \in Nat /\ s.i = l /\ n \in Sizes /\ At(d, l, WriteBe32(n))
    BY <1>2, <1>5, <2>1, <2>2 DEF w
  <2>5. \A o : o.i = l => \A t, q : NextElement(o, d, t, q) = o
    BY <2>3, <2>4, SizeStops
  <2>6. NextElement(s, d, when, p) = s
    BY <2>4, <2>5, Zenon
  <2> QED BY <2>6 DEF d, p
<1> HIDE DEF e, v, l
<1>6. ASSUME NEW cut, cut PROVE ReadsOn(b, e, <<>>, cut)
  <2> SUFFICES ASSUME NEW z \in Seq(Bytes), NEW when \in Nat, NEW m \in Nat, NEW s
               PROVE  LET d == (b.bytes \o e) \o z
                          y == NextElement(s, d, when, Parse[m])
                      IN /\ (Len(b.bytes) + Len(e)) + Len(z) <= Longest /\ when >= b.time
                         /\ m + 1 >= Len(b.bytes) + Len(e) /\ s.i = Len(b.bytes) /\ s.out \in Seq(Said)
                         => /\ y.out = s.out \o Around(when, <<>>)
                            /\ cut => NextElement(y, d, when, Parse[m]) = y
                            /\ ~cut => y.i = Len(b.bytes) + Len(e)
    BY Zenon DEF ReadsOn
  <2>1. ASSUME (Len(b.bytes) + Len(e)) + Len(z) <= Longest, s.i = Len(b.bytes), s.out \in Seq(Said)
        PROVE  LET d == (b.bytes \o e) \o z
                   y == NextElement(s, d, when, Parse[m])
               IN /\ y.out = s.out \o Around(when, <<>>)
                  /\ cut => NextElement(y, d, when, Parse[m]) = y
                  /\ ~cut => y.i = Len(b.bytes) + Len(e)
    <3> DEFINE d == (b.bytes \o e) \o z
               p == Parse[m]
    <3>1. NextElement(s, d, when, p) = s
      <4>1. (l + Len(e)) + Len(z) <= Longest /\ s.i = l
        BY <2>1 DEF l, v
      <4>2. NextElement(s, (v \o e) \o z, when, Parse[m]) = s
        BY <1>5, <4>1, Zenon
      <4> QED BY <4>2 DEF v
    <3>2. s.out \o Around(when, <<>>) = s.out
      <4>1. Around(when, <<>>) = <<>>
        BY DEF Around
      <4>2. s.out \o <<>> = s.out
        BY <2>1, ConcatEmptySeq
      <4> QED BY <4>1, <4>2
    <3> HIDE DEF d, p
    <3> DEFINE y == NextElement(s, d, when, p)
    <3>3. y.out = s.out \o Around(when, <<>>) /\ NextElement(y, d, when, p) = y
      <4> DEFINE u == Around(when, <<>>)
      <4> HIDE DEF u
      <4>1. s.out \o u = s.out
        BY <3>2 DEF u
      <4>2. y = s
        BY <3>1
      <4>3. NextElement(y, d, when, p) = y
        BY <3>1, <4>2
      <4> HIDE DEF y
      <4> QED BY <4>1, <4>2, <4>3 DEF u
    <3> QED BY <1>6, <3>3, Zenon DEF d, p
  <2> QED BY <2>1, Zenon
<1>7. LevelOK(Grown(b, e, <<>>, TRUE))
  <2>1. Len(e) % 4 = 0 /\ Len(e) >= 8
    BY <1>4
  <2>2. Len(b.bytes) + Len(e) <= Longest
    BY DEF e, w
  <2>3. TRUE \in BOOLEAN /\ <<>> \in Seq(Said)
    OBVIOUS
  <2>4. ReadsOn(b, e, <<>>, TRUE)
    BY <1>6
  <2> QED BY <1>4, <2>1, <2>2, <2>3, <2>4, LevelGrows
<1>8. Grown(b, e, <<>>, TRUE) = [With(b, e, <<>>) EXCEPT !.cut = TRUE]
  <2>1. (b.cut \/ TRUE) = TRUE
    OBVIOUS
  <2> QED BY <2>1 DEF Grown
<1> QED BY <1>7, <1>8 DEF e, w

\* parsePacket pushes the message that was encoded.
LEMMA MessageMessages ==
    ASSUME NEW a \in MessageAddresses, NEW args \in Seq(Arg), Balanced(args)
    PROVE  LET d == EncodeMessage(a, args)
           IN /\ d \in Seq(Bytes) /\ Len(d) >= 4 /\ Ended(d).i = Len(d)
              /\ args = <<>> => Len(d) % 4 = 0
              /\ ParseOneMessage(d).ok /\ ~IsBundle(d) /\ d[1] = "/"
              /\ \A t, parse : Messages(d, t, parse) = <<[address |-> a, args |-> args, time |-> t]>>
<1> DEFINE d == EncodeMessage(a, args)
           e == ParseOneMessage(d)
<1>1. a \in Text /\ a # <<>> /\ a[1] = "/"
  BY MessageAssumption, Zenon DEF Text
<1>2. /\ d \in Seq(Bytes) /\ Len(d) >= 4 /\ d[1] = "/" /\ Ended(d).i = Len(d)
      /\ args = <<>> => Len(d) % 4 = 0
      /\ e = [ok |-> TRUE, address |-> a, args |-> args]
  BY <1>1, Encoded
<1> HIDE DEF d
<1>3. ~IsBundle(d)
  BY <1>2, NoBundle
<1>4. e.ok /\ e.address = a /\ e.args = args
  BY <1>2
<1>5. ASSUME NEW t, NEW parse
      PROVE  Messages(d, t, parse) = <<[address |-> a, args |-> args, time |-> t]>>
  <2> HIDE DEF e
  <2>1. Messages(d, t, parse) = IF e.ok THEN <<[address |-> e.address, args |-> e.args, time |-> t]>>
                                ELSE <<>>
    BY <1>3, Zenon DEF Messages, e
  <2>2. Messages(d, t, parse) = <<[address |-> e.address, args |-> e.args, time |-> t]>>
    BY <1>4, <2>1
  <2> QED BY <1>4, <2>2
<1> QED BY <1>2, <1>3, <1>4, <1>5 DEF d

\* No arguments are balanced arguments.
LEMMA Balance == <<>> \in Seq(Arg) /\ Balanced(<<>>)
<1>1. <<>> \in Seq(Arg) /\ Len(<<>>) = 0
  OBVIOUS
<1>2. Depths(<<>>)[0] = 0
  BY <1>1, DepthsAre
<1> QED BY <1>1, <1>2 DEF Balanced

\* A message without arguments, as an element of a bundle.
LEMMA MessagePushes ==
    ASSUME NEW a \in MessageAddresses
    PROVE  LET x == EncodeMessage(a, <<>>)
               says == <<[address |-> a, args |-> <<>>, time |-> Immediate]>>
           IN /\ x \in Seq(Bytes) /\ Len(x) % 4 = 0 /\ Len(x) >= 4
              /\ says \in Seq(Said) /\ Pushes(x, says)
<1> DEFINE x == EncodeMessage(a, <<>>)
           M(t) == [address |-> a, args |-> <<>>, time |-> t]
           says == <<M(Immediate)>>
<1>1. /\ x \in Seq(Bytes) /\ Len(x) % 4 = 0 /\ Len(x) >= 4
      /\ \A t, parse : Messages(x, t, parse) = <<M(t)>>
  BY Balance, MessageMessages
<1>2. a \in Seq(Bytes)
  <2>1. a \in Text
    BY MessageAssumption, Zenon DEF Text
  <2> QED BY <2>1, TextBytes
<1>3. Immediate = 1
  BY DEF Immediate
<1>4. \A t \in Nat : M(t) \in Said /\ M(t).address = a /\ M(t).args = <<>> /\ M(t).time = t
  BY <1>2 DEF Said
<1> HIDE DEF M, x
<1>5. says \in Seq(Said) /\ Len(says) = 1 /\ says[1] = M(1)
  BY <1>3, <1>4
<1> HIDE DEF says
<1>6. ASSUME NEW when \in Nat, when >= 1 PROVE Around(when, says) = <<M(when)>>
  <2> DEFINE w == Around(when, says)
             y == <<M(when)>>
  <2>1. w \in Seq(Said) /\ Len(w) = 1
    BY <1>5, AroundIs
  <2>2. w[1] = [address |-> says[1].address, args |-> says[1].args, time |-> Later(when, says[1].time)]
    BY <1>5, AroundIs
  <2>3. says[1].address = a /\ says[1].args = <<>> /\ says[1].time = 1
    BY <1>4, <1>5
  <2>4. Later(when, 1) = when
    BY <1>6, LaterIs
  <2>5. w[1].address = a /\ w[1].args = <<>> /\ w[1].time = when
    <3> HIDE DEF w
    <3> QED BY <2>2, <2>3, <2>4
  <2>6. y \in Seq(Said) /\ Len(y) = 1 /\ y[1] = M(when)
    BY <1>4
  <2>7. y[1].address = a /\ y[1].args = <<>> /\ y[1].time = when
    BY <1>4, <2>6
  <2> HIDE DEF w, y
  <2>8. \A k \in 1 .. Len(w) : k = 1
    BY <2>1
  <2>9. \A k \in 1 .. Len(w) : /\ w[k].address = y[k].address /\ w[k].args = y[k].args
                               /\ w[k].time = y[k].time
    BY <2>5, <2>7, <2>8, Zenon
  <2>10. w = y
    BY <2>1, <2>6, <2>9, SaidSame
  <2> QED BY <2>10 DEF w, y
<1>7. Pushes(x, says)
  <2> SUFFICES ASSUME NEW when \in Nat, NEW m \in Nat, when >= 1, m >= Len(x)
               PROVE  Parse[m][x][when] = Around(when, says)
    BY DEF Pushes
  <2>1. m \in Nat \ {0}
    BY <1>1
  <2>2. Parse[m][x][when] = Messages(x, when, Parse[m - 1])
    BY <1>1, <2>1, ParseOf
  <2> QED BY <1>1, <1>6, <2>2
<1> QED BY <1>1, <1>5, <1>7 DEF x, says, M

\* An element that is no packet pushes nothing.
LEMMA GarbagePushes ==
    Garbage \in Seq(Bytes) /\ Len(Garbage) = 4 /\ Pushes(Garbage, <<>>)
<1> DEFINE g == Garbage
           s == <<"d">>
           w == WritePaddedString(s)
           r == ReadString(g, 0)
<1>1. "d" \in Bytes \ {NUL} /\ NUL \in Bytes
  BY TagsAre, BytesAre, Zenon
<1>2. s \in Text /\ Len(s) = 1 /\ s[1] = "d"
  BY <1>1, OneText
<1>3. g \in Seq(Bytes) /\ Len(g) = 4 /\ g[1] = "d" /\ \A k \in 2 .. 4 : g[k] = NUL
  BY <1>1 DEF Garbage
<1>4. w \in Seq(Bytes) /\ Len(w) = 4 /\ w[1] = "d" /\ \A k \in 2 .. 4 : w[k] = NUL
  <2>1. w \in Seq(Bytes) /\ Len(w) = Padded4(2) /\ At(w, 0, s) /\ \A k \in 2 .. Len(w) : w[k] = NUL
    <3>1. Len(s) + 1 = 2
      BY <1>2
    <3> HIDE DEF s
    <3>2. w \in Seq(Bytes) /\ Len(w) = Padded4(Len(s) + 1) /\ At(w, 0, s)
          /\ \A k \in Len(s) + 1 .. Len(w) : w[k] = NUL
      BY <1>2, PaddedString
    <3> HIDE DEF w
    <3> QED BY <3>1, <3>2
  <2>2. Padded4(2) = 4
    BY DEF Padded4
  <2> HIDE DEF w, s
  <2>3. w[0 + 1] = s[1]
    BY <1>2, <2>1 DEF At
  <2> QED BY <1>2, <2>1, <2>2, <2>3
<1> HIDE DEF g, w, s
<1>5. At(g, 0, w)
  <2>1. \A k \in 1 .. 4 : g[k] = w[k]
    <3>1. \A k \in 1 .. 4 : k = 1 \/ k \in 2 .. 4
      OBVIOUS
    <3> QED BY <1>3, <1>4, <3>1
  <2> QED BY <1>3, <1>4, <2>1 DEF At
<1>6. r.val = s
  <2>1. r = [ok |-> TRUE, i |-> 0 + Padded4(Len(s) + 1), val |-> s]
    <3>1. At(g, 0, WritePaddedString(s)) /\ 0 \in Nat /\ 0 % 4 = 0
      BY <1>5 DEF w
    <3> QED BY <1>2, <1>3, <3>1, StringRead
  <2> HIDE DEF r
  <2> QED BY <2>1
<1>7. ~ParseOneMessage(g).ok
  <2> SUFFICES ASSUME ParseOneMessage(g).ok PROVE FALSE
    OBVIOUS
  <2>1. r.val[1] = "/"
    BY <1>3, MessageIs, Zenon
  <2> HIDE DEF r
  <2> QED BY <1>2, <1>6, <2>1
<1>8. ~IsBundle(g)
  <2>1. Len(BundleTag) = 8 /\ (IsBundle(g) <=> At(g, 0, BundleTag))
    BY <1>3, TagIs
  <2> QED BY <1>3, <2>1 DEF At
<1>9. ASSUME NEW t, NEW parse PROVE Messages(g, t, parse) = <<>>
  BY <1>7, <1>8, Zenon DEF Messages
<1>10. Pushes(g, <<>>)
  <2> SUFFICES ASSUME NEW when \in Nat, NEW m \in Nat, when >= 1, m >= Len(g)
               PROVE  Parse[m][g][when] = Around(when, <<>>)
    BY DEF Pushes
  <2>1. m \in Nat \ {0}
    BY <1>3
  <2>2. Parse[m][g][when] = Messages(g, when, Parse[m - 1])
    BY <1>3, <2>1, ParseOf
  <2>3. Around(when, <<>>) = <<>>
    BY DEF Around
  <2> QED BY <1>9, <2>2, <2>3
<1> QED BY <1>3, <1>10 DEF g

\* effectiveTimetag is the later of the two times, when neither is below immediate.
LEMMA EffectiveIs ==
    \A t, u \in Nat : t >= 1 /\ u >= 1 => EffectiveTimetag(t, u) = Later(t, u)
BY DEF EffectiveTimetag, Later, Immediate

\* parsePacket pushes what a bundle says, none before the times around it.
LEMMA BundlePushes ==
    ASSUME NEW b, LevelOK(b)
    PROVE  Pushes(b.bytes, b.says)
<1> DEFINE x == b.bytes
           n == Len(x)
           t == b.time
           N == n \div 8
<1>1. /\ b \in Level /\ n <= Longest /\ At(x, 0, BundleHead(t))
      /\ \A k \in 1 .. Len(b.says) : b.says[k].time >= t
  BY DEF LevelOK
<1>2. t \in Times /\ t \in Nat /\ t >= 1 /\ x \in Seq(Bytes) /\ n \in Nat /\ b.says \in Seq(Said)
      /\ b.cut \in BOOLEAN
  BY <1>1, LevelIs
<1>3. PICK r \in Nat : 16 + (8 * r) <= n /\ Reads(b, r)
  BY DEF LevelOK
<1>4. IsBundle(x) /\ ReadBe64(x, 8) = t
  BY <1>1, <1>2, BundleHeadIs
<1>5. \A w \in Nat : Around(Later(w, t), b.says) = Around(w, b.says)
  BY <1>1, <1>2, AroundLate
<1> SUFFICES ASSUME NEW when \in Nat, NEW m \in Nat, when >= 1, m >= n
             PROVE  Parse[m][x][when] = Around(when, b.says)
  BY DEF Pushes
<1> DEFINE w == Later(when, t)
           p == Parse[m - 1]
<1>6. m \in Nat \ {0} /\ m - 1 \in Nat /\ (m - 1) + 1 >= n /\ ~(n < 16)
  BY <1>2, <1>3
<1>7. w \in Nat /\ w >= t
  BY <1>2, LaterIs
<1>8. Parse[m][x][when] = Messages(x, when, p)
  BY <1>2, <1>6, ParseOf
<1>9. EffectiveTimetag(when, t) = w
  BY <1>2, EffectiveIs
<1>10. Messages(x, when, p) = ParseElements(x, w, p)
  <2> HIDE DEF p, w
  <2> QED BY <1>4, <1>6, <1>9 DEF Messages
<1>11. N \in Nat /\ r <= N
  <2>1. 8 \in Nat \ {0} /\ n \in Nat /\ 16 + (8 * r) <= n /\ r \in Nat
    BY <1>2, <1>3
  <2> HIDE DEF n
  <2>2. n \div 8 \in Nat /\ n % 8 \in 0 .. 8 - 1 /\ n = ((n \div 8) * 8) + (n % 8)
    BY <2>1, DivMod, Zenon
  <2> QED BY <2>1, <2>2
<1>12. PICK f : Rounds(f, x, w, p, N) /\ ParseElements(x, w, p) = f[N].out
  BY <1>2, RoundsAre
<1> HIDE DEF w, N
<1>13. f[r].out = Around(w, b.says) /\ NextElement(f[r], x, w, p) = f[r]
  <2>1. x \o <<>> = x /\ <<>> \in Seq(Bytes) /\ Len(<<>>) = 0
    BY <1>2, ConcatEmptySeq
  <2>2. Rounds(f, x \o <<>>, w, p, r)
    <3>1. \A k \in 1 .. r : k \in 1 .. N
      BY <1>3, <1>11
    <3> QED BY <1>12, <2>1, <3>1 DEF Rounds
  <2>3. Len(b.bytes) + Len(<<>>) <= Longest /\ w >= b.time /\ (m - 1) + 1 >= Len(b.bytes)
    BY <1>1, <1>2, <1>6, <1>7, <2>1
  <2>4. /\ f[r].out = Around(w, b.says)
        /\ b.cut => NextElement(f[r], x \o <<>>, w, p) = f[r]
        /\ ~b.cut => f[r].i = Len(b.bytes)
    <3>1. w \in Nat /\ m - 1 \in Nat /\ <<>> \in Seq(Bytes)
      BY <1>6, <1>7, <2>1
    <3>2. Rounds(f, b.bytes \o <<>>, w, Parse[m - 1], r)
      BY <2>2
    <3> DEFINE e == <<>>
               k == m - 1
    <3> HIDE DEF e, k, x, n
    <3>3. w \in Nat /\ k \in Nat /\ e \in Seq(Bytes)
      BY <3>1 DEF e, k
    <3>4. \A g : LET d == b.bytes \o e
                 IN /\ Len(b.bytes) + Len(e) <= Longest /\ w >= b.time /\ k + 1 >= Len(b.bytes)
                    /\ Rounds(g, d, w, Parse[k], r)
                    => /\ g[r].out = Around(w, b.says)
                       /\ b.cut => NextElement(g[r], d, w, Parse[k]) = g[r]
                       /\ ~b.cut => g[r].i = Len(b.bytes)
      <4>1. Reads(b, r)
        BY <1>3
      <4> QED BY <3>3, <4>1, Zenon DEF Reads
    <3>5. /\ Len(b.bytes) + Len(e) <= Longest /\ w >= b.time /\ k + 1 >= Len(b.bytes)
          /\ Rounds(f, b.bytes \o e, w, Parse[k], r)
      BY <2>3, <3>2 DEF e, k
    <3>6. /\ f[r].out = Around(w, b.says)
          /\ b.cut => NextElement(f[r], b.bytes \o e, w, Parse[k]) = f[r]
          /\ ~b.cut => f[r].i = Len(b.bytes)
      BY <3>4, <3>5, Zenon
    <3> QED BY <3>6 DEF e, k, x
  <2>5. ASSUME ~b.cut PROVE NextElement(f[r], x, w, p) = f[r]
    <3>1. f[r].i = n
      BY <2>4, <2>5
    <3> DEFINE s == f[r]
    <3> HIDE DEF s, p
    <3>2. s.i + 4 > Len(x)
      BY <1>2, <3>1 DEF s
    <3>3. NextElement(s, x, w, p) = s
      BY <3>2 DEF NextElement
    <3> QED BY <3>3 DEF s
  <2> QED BY <1>2, <2>1, <2>4, <2>5
<1>14. f[N] = f[r]
  <2>1. r \in 0 .. N
    BY <1>3, <1>11
  <2> QED BY <1>11, <1>12, <1>13, <2>1, RoundsStay
<1>15. Around(w, b.says) = Around(when, b.says)
  BY <1>5 DEF w
<1> QED BY <1>8, <1>10, <1>12, <1>13, <1>14, <1>15

-------------------------------------------------------------------------------
(* What inputs are.                                                        *)

AMessage == [kind : {"message"}, address : MessageAddresses, args : Seq(Arg)]
ABundle == [kind : {"bundle"}, items : Nat, open : Seq(Level)]
Names == [kind : {"bus"}, prefix : Seq(Chars), id : Seq(Chars), leaf : Seq(Chars)]

\* Every open bundle can be read back; bundles are not mixed with the rest.
InputOK ==
    \/ input \in AMessage
    \/ /\ input \in ABundle /\ Len(input.open) >= 1
       /\ \A k \in 1 .. Len(input.open) : LevelOK(input.open[k])
    \/ input \in Names

\* The parts of an input.
LEMMA KindsAre ==
    /\ \A i \in AMessage : i.kind = "message" /\ i.address \in MessageAddresses /\ i.args \in Seq(Arg)
    /\ \A i \in ABundle : i.kind = "bundle" /\ i.items \in Nat /\ i.open \in Seq(Level)
                          /\ i = [kind |-> "bundle", items |-> i.items, open |-> i.open]
    /\ \A i \in Names : /\ i.kind = "bus" /\ i.prefix \in Seq(Chars) /\ i.id \in Seq(Chars)
                        /\ i.leaf \in Seq(Chars)
<1>1. \A i \in AMessage : i.kind = "message" /\ i.address \in MessageAddresses /\ i.args \in Seq(Arg)
  BY DEF AMessage
<1>2. \A i \in ABundle : i.kind = "bundle" /\ i.items \in Nat /\ i.open \in Seq(Level)
                          /\ i = [kind |-> "bundle", items |-> i.items, open |-> i.open]
  BY DEF ABundle
<1>3. \A i \in Names : /\ i.kind = "bus" /\ i.prefix \in Seq(Chars) /\ i.id \in Seq(Chars)
                       /\ i.leaf \in Seq(Chars)
  BY DEF Names
<1> QED BY <1>1, <1>2, <1>3

\* One more argument.
LEMMA MessageGrows == InputOK /\ GrowMessage => InputOK'
<1> SUFFICES ASSUME InputOK, GrowMessage PROVE input' \in AMessage
  BY DEF InputOK
<1>1. input \in AMessage
  <2>1. input.kind = "message"
    BY DEF GrowMessage
  <2> QED BY <2>1, KindsAre DEF InputOK
<1>2. PICK kind \in Kinds : \E a \in kind.args : input' = [input EXCEPT !.args = Append(@, a)]
  BY DEF GrowMessage
<1>3. PICK a \in kind.args : input' = [input EXCEPT !.args = Append(@, a)]
  BY <1>2
<1>4. a \in Arg
  BY MessageAssumption, Zenon DEF Arg
<1>5. input.args \in Seq(Arg)
  BY <1>1, KindsAre
<1> DEFINE args == Append(input.args, a)
<1>6. args \in Seq(Arg)
  BY <1>4, <1>5, AppendProperties
<1> HIDE DEF args
<1>7. input' = [input EXCEPT !.args = args]
  BY <1>3 DEF args
<1> HIDE DEF Arg
<1> QED BY <1>1, <1>6, <1>7 DEF AMessage

\* One more letter of a name.
LEMMA NamesGrow == InputOK /\ GrowNames => InputOK'
<1> SUFFICES ASSUME InputOK, GrowNames PROVE input' \in Names
  BY DEF InputOK
<1>1. input \in Names
  <2>1. input.kind = "bus"
    BY DEF GrowNames
  <2> QED BY <2>1, KindsAre DEF InputOK
<1>2. PICK name \in {"prefix", "id", "leaf"}, c \in NameLetters :
          input' = [input EXCEPT ![name] = Append(@, c)]
  BY DEF GrowNames
<1>3. c \in Chars
  BY NamesAssumption
<1>4. input.prefix \in Seq(Chars) /\ input.id \in Seq(Chars) /\ input.leaf \in Seq(Chars)
  BY <1>1, KindsAre
<1> DEFINE u == Append(input[name], c)
<1>5. u \in Seq(Chars)
  <2>1. input[name] \in Seq(Chars)
    BY <1>4
  <2> QED BY <1>3, <2>1, AppendProperties
<1> HIDE DEF u
<1>6. input' = [input EXCEPT ![name] = u]
  BY <1>2 DEF u
<1> QED BY <1>1, <1>5, <1>6 DEF Names

\* Open bundles of a packet.
Stack(s) == s \in Seq(Level) /\ Len(s) >= 1 /\ \A k \in 1 .. Len(s) : LevelOK(s[k])

\* One bundle of the packet is put together further.
LEMMA StackTop ==
    ASSUME NEW s, Stack(s), NEW g, LevelOK(g)
    PROVE  Stack([s EXCEPT ![Len(s)] = g])
<1>1. s \in Seq(Level) /\ Len(s) \in Nat /\ Len(s) >= 1 /\ g \in Level
  BY DEF Stack, LevelOK
<1> DEFINE t == [s EXCEPT ![Len(s)] = g]
<1>2. t \in Seq(Level) /\ Len(t) = Len(s)
  BY <1>1
<1>3. \A k \in 1 .. Len(s) : t[k] = IF k = Len(s) THEN g ELSE s[k]
  BY <1>1
<1> HIDE DEF t
<1>4. \A k \in 1 .. Len(t) : LevelOK(t[k])
  BY <1>2, <1>3 DEF Stack
<1> QED BY <1>1, <1>2, <1>4 DEF Stack, t

\* A bundle is opened inside the packet.
LEMMA StackMore ==
    ASSUME NEW s \in Seq(Level), \A k \in 1 .. Len(s) : LevelOK(s[k]), NEW g, LevelOK(g)
    PROVE  Stack(Append(s, g))
<1>1. Len(s) \in Nat /\ g \in Level
  BY DEF LevelOK
<1> DEFINE t == Append(s, g)
<1>2. t \in Seq(Level) /\ Len(t) = Len(s) + 1
  BY <1>1
<1>3. \A k \in 1 .. Len(s) + 1 : t[k] = IF k = Len(s) + 1 THEN g ELSE s[k]
  BY <1>1
<1> HIDE DEF t
<1>4. \A k \in 1 .. Len(t) : LevelOK(t[k])
  BY <1>1, <1>2, <1>3
<1> QED BY <1>1, <1>2, <1>4 DEF Stack, t

\* One more element, or a bundle opened or closed.
LEMMA BundleGrows == InputOK /\ GrowBundle => InputOK'
<1> SUFFICES ASSUME InputOK, GrowBundle PROVE InputOK'
  OBVIOUS
<1> DEFINE s == input.open
           n == Len(s)
           Fit(x) == Len(s[n].bytes) + Len(x) <= Longest
<1>1. input \in ABundle /\ Stack(s)
  <2>1. input.kind = "bundle"
    BY DEF GrowBundle
  <2>2. input \in ABundle /\ Len(s) >= 1 /\ \A k \in 1 .. Len(s) : LevelOK(s[k])
    BY <2>1, KindsAre DEF InputOK
  <2>3. s \in Seq(Level)
    BY <2>2, KindsAre
  <2> QED BY <2>2, <2>3 DEF Stack
<1>2. input.items \in Nat /\ input = [kind |-> "bundle", items |-> input.items, open |-> s]
  BY <1>1, KindsAre
<1>3. s \in Seq(Level) /\ n \in Nat /\ n >= 1 /\ \A k \in 1 .. n : LevelOK(s[k])
  BY <1>1 DEF Stack
<1>4. LevelOK(s[n])
  BY <1>3
<1>5. ASSUME NEW j \in Nat, NEW t, Stack(t), input' = [kind |-> "bundle", items |-> j, open |-> t]
      PROVE  InputOK'
  <2>1. t \in Seq(Level) /\ Len(t) >= 1 /\ \A k \in 1 .. Len(t) : LevelOK(t[k])
    BY <1>5, Zenon DEF Stack
  <2>2. input' \in ABundle /\ input'.open = t
    BY <1>5, <2>1 DEF ABundle
  <2>3. Len(input'.open) >= 1 /\ \A k \in 1 .. Len(input'.open) : LevelOK(input'.open[k])
    BY <2>1, <2>2
  <2> QED BY <2>2, <2>3, Zenon DEF InputOK
<1> DEFINE i == input.items
<1>6. ASSUME NEW g, LevelOK(g), input' = [input EXCEPT !.items = @ + 1, !.open[Open] = g]
      PROVE  InputOK'
  <2> DEFINE t == [s EXCEPT ![n] = g]
  <2>1. Stack(t)
    BY <1>1, <1>6, StackTop
  <2>2. input' = [kind |-> "bundle", items |-> i + 1, open |-> t]
    <3>1. input' = [input EXCEPT !.items = i + 1, !.open = t]
      BY <1>2, <1>6 DEF Open
    <3> HIDE DEF t, s, i
    <3>2. input = [kind |-> "bundle", items |-> i, open |-> s]
      BY <1>2 DEF i, s
    <3> QED BY <3>1, <3>2
  <2>3. i + 1 \in Nat
    BY <1>2
  <2> QED BY <1>5, <2>1, <2>2, <2>3
<1>7. ASSUME NEW x \in Seq(Bytes), Len(x) % 4 = 0, Len(x) >= 4, NEW says \in Seq(Said),
             Pushes(x, says), AddElement(Element(x), says)
      PROVE  InputOK'
  <2> DEFINE g == With(s[n], Element(x), says)
  <2>1. Fit(Element(x)) /\ input' = [input EXCEPT !.items = @ + 1, !.open[Open] = With(@, Element(x), says)]
    BY <1>7 DEF AddElement, Fits, Open
  <2>2. LevelOK(g)
    BY <1>4, <1>7, <2>1, ElementGrows
  <2>3. input' = [input EXCEPT !.items = @ + 1, !.open[Open] = g]
    BY <2>1 DEF Open
  <2> QED BY <1>6, <2>2, <2>3
<1>8. ASSUME NEW a \in MessageAddresses, AddMessage(a) PROVE InputOK'
  <2> DEFINE x == EncodeMessage(a, <<>>)
             says == <<[address |-> a, args |-> <<>>, time |-> Immediate]>>
  <2>1. /\ x \in Seq(Bytes) /\ Len(x) % 4 = 0 /\ Len(x) >= 4
        /\ says \in Seq(Said) /\ Pushes(x, says)
    BY MessagePushes
  <2>2. AddElement(Element(x), says)
    BY <1>8 DEF AddMessage
  <2> HIDE DEF x, says
  <2> QED BY <1>7, <2>1, <2>2
<1>9. ASSUME AddBroken PROVE InputOK'
  <2>1. Garbage \in Seq(Bytes) /\ Len(Garbage) = 4 /\ Pushes(Garbage, <<>>) /\ <<>> \in Seq(Said)
    BY GarbagePushes
  <2>2. AddElement(Element(Garbage), <<>>)
    BY <1>9 DEF AddBroken
  <2>3. Len(Garbage) % 4 = 0 /\ Len(Garbage) >= 4
    BY <2>1
  <2> QED BY <1>7, <2>1, <2>2, <2>3
<1>10. ASSUME NEW size \in Sizes, AddCut(size) PROVE InputOK'
  <2> DEFINE e == WriteBe32(size) \o Garbage
             g == [With(s[n], e, <<>>) EXCEPT !.cut = TRUE]
  <2>1. Fit(e)
    BY <1>10 DEF AddCut, Fits, Open
  <2>2. input' = [input EXCEPT !.items = @ + 1, !.open[Open] = g]
    BY <1>10 DEF AddCut, Open
  <2>3. LevelOK(g)
    BY <1>4, <2>1, CutGrows, GarbagePushes
  <2> HIDE DEF g
  <2> QED BY <1>6, <2>2, <2>3
<1>11. ASSUME NEW t \in Times, OpenBundle(t) PROVE InputOK'
  <2> DEFINE u == Append(s, NewBundle(t))
  <2>1. Stack(u)
    BY <1>3, NewLevel, StackMore
  <2>2. input' = [input EXCEPT !.items = i + 1, !.open = u]
    BY <1>11 DEF OpenBundle
  <2> HIDE DEF u
  <2>3. input' = [kind |-> "bundle", items |-> i + 1, open |-> u]
    <3> HIDE DEF s, i
    <3>1. input = [kind |-> "bundle", items |-> i, open |-> s]
      BY <1>2 DEF i, s
    <3> QED BY <2>2, <3>1
  <2>4. i + 1 \in Nat
    BY <1>2
  <2> QED BY <1>5, <2>1, <2>3, <2>4
<1>12. ASSUME CloseBundle PROVE InputOK'
  <2> DEFINE inner == s[n]
             outer == s[n - 1]
             x == inner.bytes
             g == With(outer, Element(x), inner.says)
             u == SubSeq(s, 1, n - 2)
             t == Append(u, g)
  <2>1. n > 1 /\ Len(outer.bytes) + Len(Element(x)) <= Longest
        /\ input' = [input EXCEPT !.open = Append(SubSeq(@, 1, Open - 2), g)]
    BY <1>12 DEF CloseBundle, Open
  <2>2. LevelOK(inner) /\ LevelOK(outer)
    <3>1. n \in 1 .. n /\ n - 1 \in 1 .. n
      <4>1. n \in Nat /\ n > 1
        BY <1>3, <2>1
      <4> HIDE DEF n
      <4> QED BY <4>1
    <3> QED BY <1>3, <3>1, Zenon
  <2>3. /\ x \in Seq(Bytes) /\ Len(x) % 4 = 0 /\ Len(x) >= 4 /\ inner.says \in Seq(Said)
        /\ Pushes(x, inner.says)
    <3>1. inner \in Level /\ Len(x) % 4 = 0
      BY <2>2 DEF LevelOK
    <3>2. x \in Seq(Bytes) /\ inner.says \in Seq(Said) /\ Len(x) \in Nat
      BY <3>1, LevelIs
    <3>3. Pushes(x, inner.says)
      BY <2>2, BundlePushes
    <3>4. PICK r \in Nat : 16 + (8 * r) <= Len(x)
      BY <2>2 DEF LevelOK
    <3> HIDE DEF x, inner
    <3>5. Len(x) >= 4
      BY <3>2, <3>4
    <3> QED BY <3>1, <3>2, <3>3, <3>5 DEF x
  <2>4. LevelOK(g)
    BY <2>1, <2>2, <2>3, ElementGrows
  <2>5. u \in Seq(Level) /\ \A k \in 1 .. Len(u) : LevelOK(u[k])
    BY <1>3, <2>1
  <2> HIDE DEF g, u
  <2>6. Stack(t)
    BY <2>4, <2>5, StackMore
  <2>7. input' = [input EXCEPT !.open = t]
    BY <2>1 DEF Open, u
  <2> HIDE DEF t
  <2>8. input' = [kind |-> "bundle", items |-> i, open |-> t]
    <3> HIDE DEF s, i
    <3>1. input = [kind |-> "bundle", items |-> i, open |-> s]
      BY <1>2 DEF i, s
    <3> QED BY <2>7, <3>1
  <2> QED BY <1>2, <1>5, <2>6, <2>8
<1> QED BY <1>8, <1>9, <1>10, <1>11, <1>12 DEF GrowBundle

\* Every input starts as one of the three.
LEMMA InputsStart == InputsInit => InputOK
<1>1. ASSUME NewMessage PROVE InputOK
  <2>1. PICK a \in MessageAddresses : input = [kind |-> "message", address |-> a, args |-> <<>>]
    BY <1>1 DEF NewMessage
  <2>2. <<>> \in Seq(Arg)
    OBVIOUS
  <2>3. input \in AMessage
    BY <2>1, <2>2 DEF AMessage
  <2> QED BY <2>3 DEF InputOK
<1>2. ASSUME NewPacket PROVE InputOK
  <2>1. PICK t \in Times : input = [kind |-> "bundle", items |-> 0, open |-> <<NewBundle(t)>>]
    BY <1>2 DEF NewPacket
  <2> DEFINE b == NewBundle(t)
  <2>2. LevelOK(b)
    BY NewLevel
  <2>3. b \in Level
    BY <2>2 DEF LevelOK
  <2> HIDE DEF b
  <2>4. input.open = <<b>> /\ input \in ABundle
    BY <2>1, <2>3 DEF ABundle, b
  <2>5. Len(input.open) = 1 /\ input.open[1] = b
    BY <2>4
  <2>6. \A k \in 1 .. Len(input.open) : LevelOK(input.open[k])
    BY <2>2, <2>5
  <2> QED BY <2>4, <2>5, <2>6 DEF InputOK
<1>3. ASSUME NewNames PROVE InputOK
  <2>1. input = [kind |-> "bus", prefix |-> <<>>, id |-> <<>>, leaf |-> <<>>]
    BY <1>3 DEF NewNames
  <2>2. <<>> \in Seq(Chars)
    OBVIOUS
  <2> QED BY <2>1, <2>2 DEF InputOK, Names
<1> QED BY <1>1, <1>2, <1>3 DEF InputsInit

\* Whatever is put together, each open bundle can be read back as what it says.
THEOREM InputsTypes == InputsSpec => []InputOK
<1>1. InputsInit => InputOK
  BY InputsStart
<1>2. InputOK /\ [InputsNext]_input => InputOK'
  <2>1. InputOK /\ InputsNext => InputOK'
    BY MessageGrows, BundleGrows, NamesGrow, Zenon DEF InputsNext
  <2>2. InputOK /\ UNCHANGED input => InputOK'
    BY DEF InputOK
  <2> QED BY <2>1, <2>2
<1> QED BY <1>1, <1>2, PTL DEF InputsSpec

-------------------------------------------------------------------------------
(* The theorems.                                                            *)

\* A message is an input like the others.
LEMMA MessageInput == InputOK /\ input.kind = "message" =>
                          input.address \in MessageAddresses /\ input.args \in Seq(Arg)
BY KindsAre DEF InputOK

\* Names are.
LEMMA NamesInput == InputOK /\ input.kind = "bus" =>
                        input.prefix \in Seq(Chars) /\ input.id \in Seq(Chars) /\ input.leaf \in Seq(Chars)
BY KindsAre DEF InputOK

\* Bundles are.
LEMMA BundleInput == InputOK /\ input.kind = "bundle" => \A k \in 1 .. Open : LevelOK(input.open[k])
BY KindsAre DEF InputOK, Open

\* Of one message, what parsePacket gives.
LEMMA OneMessage == InputOK => RoundTrip
<1> SUFFICES ASSUME InputOK, input.kind = "message", Balanced(input.args)
             PROVE  ParsePacket(EncodeMessage(input.address, input.args), Immediate)
                       = <<[address |-> input.address, args |-> input.args, time |-> Immediate]>>
  BY DEF RoundTrip
<1> DEFINE a == input.address
           args == input.args
           d == EncodeMessage(a, args)
<1>1. a \in MessageAddresses /\ args \in Seq(Arg)
  BY MessageInput
<1>2. d \in Seq(Bytes) /\ Len(d) >= 4
      /\ \A t, parse : Messages(d, t, parse) = <<[address |-> a, args |-> args, time |-> t]>>
  BY <1>1, MessageMessages
<1> HIDE DEF d
<1>3. Len(d) \in Nat \ {0} /\ Immediate \in Nat
  BY <1>2 DEF Immediate
<1>4. Parse[Len(d)][d][Immediate] = Messages(d, Immediate, Parse[Len(d) - 1])
  BY <1>2, <1>3, ParseOf
<1>5. ParsePacket(d, Immediate) = Messages(d, Immediate, Parse[Len(d) - 1])
  BY <1>4 DEF ParsePacket
<1>6. ParsePacket(d, Immediate) = <<[address |-> a, args |-> args, time |-> Immediate]>>
  BY <1>2, <1>5
<1> QED BY <1>6 DEF d

\* Of less than a message, nothing.
LEMMA LessMessage == InputOK => NoShortRead
<1> SUFFICES ASSUME InputOK, input.kind = "message", Balanced(input.args),
                    NEW n \in 0 .. Len(EncodeMessage(input.address, input.args)) - 1
             PROVE  ~IsPacket(SubSeq(EncodeMessage(input.address, input.args), 1, n))
  BY DEF NoShortRead
<1> DEFINE d == EncodeMessage(input.address, input.args)
           p == SubSeq(d, 1, n)
<1>1. input.address \in MessageAddresses /\ input.args \in Seq(Arg)
  BY MessageInput
<1>2. d \in Seq(Bytes) /\ Ended(d).i = Len(d) /\ d[1] = "/"
  BY <1>1, MessageMessages
<1> HIDE DEF d
<1>3. n \in 0 .. Len(d) - 1
  BY DEF d
<1>4. ~ParseOneMessage(p).ok
  BY <1>2, <1>3, Incomplete
<1>5. p \in Seq(Bytes) /\ (p[1] = "/" \/ p = <<>>)
  <2>1. n \in Nat /\ n <= Len(d) /\ Len(d) \in Nat
    BY <1>2, <1>3
  <2>2. p \in Seq(Bytes) /\ Len(p) = n
    BY <1>2, <2>1
  <2>3. ASSUME n >= 1 PROVE p[1] = d[1]
    BY <1>2, <2>1, <2>3
  <2>4. n = 0 => p = <<>>
    BY <2>2
  <2> QED BY <1>2, <2>1, <2>2, <2>3, <2>4
<1>6. ~IsBundle(p)
  BY <1>5, NoBundle
<1> HIDE DEF p
<1>7. ~IsPacket(p)
  BY <1>4, <1>6, Zenon DEF IsPacket
<1> QED BY <1>7 DEF p, d

\* What a bundle that was put together says comes out.
LEMMA BundleRead == InputOK => BundleMeaning
<1> SUFFICES ASSUME InputOK, input.kind = "bundle", NEW k \in 1 .. Open
             PROVE  ParsePacket(input.open[k].bytes, Immediate) = input.open[k].says
  BY DEF BundleMeaning
<1> DEFINE b == input.open[k]
           x == b.bytes
<1>1. LevelOK(b)
  BY BundleInput
<1> HIDE DEF b
<1>2. b \in Level /\ \A j \in 1 .. Len(b.says) : b.says[j].time >= b.time
  BY <1>1 DEF LevelOK
<1>3. x \in Seq(Bytes) /\ Len(x) \in Nat /\ b.says \in Seq(Said) /\ b.time \in Nat /\ b.time >= 1
  BY <1>2, LevelIs
<1>4. Immediate = 1
  BY DEF Immediate
<1>5. Pushes(x, b.says)
  BY <1>1, BundlePushes
<1>6. Parse[Len(x)][x][Immediate] = Around(Immediate, b.says)
  BY <1>3, <1>4, <1>5 DEF Pushes
<1>7. Around(1, b.says) = b.says
  <2>1. \A j \in 1 .. Len(b.says) : b.says[j].time >= 1
    <3> SUFFICES ASSUME NEW j \in 1 .. Len(b.says) PROVE b.says[j].time >= 1
      OBVIOUS
    <3>1. b.says[j] \in Said
      BY <1>3
    <3>2. b.says[j].time \in Nat
      BY <3>1, SaidIs
    <3> QED BY <1>2, <1>3, <3>2
  <2> QED BY <1>3, <2>1, AroundLate
<1>8. ParsePacket(x, Immediate) = b.says
  BY <1>4, <1>6, <1>7 DEF ParsePacket
<1> QED BY <1>8 DEF b

\* Which addresses a leaf's listener hears.
LEMMA LeafHears == InputOK => BusHears
<1> SUFFICES ASSUME InputOK, input.kind = "bus", NEW a \in Arriving
             PROVE  LET prefix == BusPrefix(input.prefix)
                        leaf == <<"/">> \o OscSegment(input.leaf)
                    IN BusLeafMatches(input.leaf, prefix, a) <=>
                          \/ a = prefix \o leaf
                          \/ \E id \in SubSeqs(a) : /\ id # <<>> /\ ~Contains(id, "/")
                                                    /\ a = ((prefix \o <<"/">>) \o id) \o leaf
  BY DEF BusHears
<1> DEFINE prefix == BusPrefix(input.prefix)
           leaf == <<"/">> \o OscSegment(input.leaf)
           head == prefix \o <<"/">>
<1>1. input.prefix \in Seq(Chars) /\ input.leaf \in Seq(Chars) /\ a \in Seq(Chars)
  BY NamesInput, NamesAssumption
<1>2. BusLeafMatches(input.leaf, prefix, a) <=>
          a = prefix \o leaf \/ \E id \in NoSlash : a = (head \o id) \o leaf
  BY <1>1, BusHeard
<1>3. prefix \in Seq(Chars) /\ leaf \in Seq(Chars) /\ head \in Seq(Chars)
  <2>1. prefix \in Seq(Chars) /\ <<"/">> \in Seq(Chars)
    BY <1>1, BusPrefixText, SlashText
  <2>2. OscSegment(input.leaf) \in Seq(Chars)
    BY <1>1, SegmentIs, SegmentText
  <2> QED BY <2>1, <2>2, Pairs
<1> HIDE DEF prefix, leaf, head
<1>4. ASSUME NEW id \in NoSlash, a = (head \o id) \o leaf
      PROVE  id \in SubSeqs(a) /\ id # <<>> /\ ~Contains(id, "/")
  <2>1. id \in Seq(Chars) /\ id # <<>> /\ \A k \in 1 .. Len(id) : id[k] # "/"
    BY DEF NoSlash
  <2> DEFINE h == head \o id
             i == Len(head)
             j == i + Len(id)
  <2>2. h \in Seq(Chars) /\ Len(h) = j /\ Len(a) = j + Len(leaf)
    BY <1>3, <1>4, <2>1
  <2>3. i \in 0 .. Len(a) /\ j \in 0 .. Len(a)
    BY <1>3, <2>1, <2>2
  <2>4. SubSeq(a, i + 1, j) = id
    <3> DEFINE u == SubSeq(a, i + 1, j)
    <3>1. u \in Seq(Chars) /\ Len(u) = Len(id) /\ \A k \in 1 .. Len(id) : u[k] = a[i + k]
      BY <1>1, <1>3, <2>1, <2>2
    <3>2. \A k \in 1 .. Len(id) : a[i + k] = id[k]
      BY <1>3, <1>4, <2>1
    <3> HIDE DEF u
    <3>3. u = id
      BY <2>1, <3>1, <3>2, SeqEqual
    <3> QED BY <3>3 DEF u
  <2>5. id \in SubSeqs(a)
    BY <2>3, <2>4 DEF SubSeqs
  <2> QED BY <2>1, <2>5 DEF Contains
<1>5. ASSUME NEW id \in SubSeqs(a), id # <<>>, ~Contains(id, "/")
      PROVE  id \in NoSlash
  <2>1. PICK i \in 0 .. Len(a), j \in 0 .. Len(a) : id = SubSeq(a, i + 1, j)
    BY DEF SubSeqs
  <2>2. id \in Seq(Chars)
    BY <1>1, <2>1
  <2> QED BY <1>5, <2>2 DEF NoSlash, Contains
<1>6. BusLeafMatches(input.leaf, prefix, a) <=>
          \/ a = prefix \o leaf
          \/ \E id \in SubSeqs(a) : id # <<>> /\ ~Contains(id, "/") /\ a = (head \o id) \o leaf
  BY <1>2, <1>4, <1>5, Zenon
<1> QED BY <1>6 DEF prefix, leaf, head

\* Names that hosts gave are understood.
LEMMA NamesAnswer == InputOK => BusAnswers
<1> SUFFICES ASSUME InputOK, input.kind = "bus" PROVE Understood(input.prefix, input.id, input.leaf)
  BY DEF BusAnswers
<1> QED BY NamesInput, BusUnderstood

\* A message comes out of parsePacket as it went into encodeMessage.
THEOREM MessagesRoundTrip == InputsSpec => []RoundTrip
BY InputsTypes, OneMessage, PTL

\* A message that lost its end is no packet.
THEOREM MessagesWhole == InputsSpec => []NoShortRead
BY InputsTypes, LessMessage, PTL

\* A bundle's messages come out in order and none before the times around them.
THEOREM BundlesMean == InputsSpec => []BundleMeaning
BY InputsTypes, BundleRead, PTL

\* A leaf's listener hears the directed and the broadcast addresses, no others.
THEOREM LeavesHear == InputsSpec => []BusHears
BY InputsTypes, LeafHears, PTL

\* What one pack sends another understands, whatever the application is called in
\* the addressPrefix of both, and whatever each calls itself and its leaves.
THEOREM BusAlwaysAnswers == InputsSpec => []BusAnswers
BY InputsTypes, NamesAnswer, PTL
===============================================================================
