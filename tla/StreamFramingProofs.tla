-------------------------- MODULE StreamFramingProofs -------------------------
(***************************************************************************)
(* Both framings deliver what was sent, for every width of the size prefix, *)
(* all packets and every cutting of the stream.  SLIP: decoding x and then y *)
(* is decoding both at once, so the invariant says what the decoder will    *)
(* make of everything that is on its way.  Size prefix: the digits of a     *)
(* length that fits are read as that length, so the invariant says where in *)
(* the stream the next frames end.                                          *)
(***************************************************************************)
EXTENDS StreamFraming, SeqFilterProofs

-------------------------------------------------------------------------------
(* takeSlip: a loop over the bytes, each a step of the decoder.            *)

Decoders == [open : BOOLEAN, esc : BOOLEAN, bytes : Seq(AllBytes),
             pkts : Seq(Seq(AllBytes)), alive : BOOLEAN]

\* One byte leaves a decoder.
LEMMA SlipByteType ==
    ASSUME NEW s \in Decoders, NEW b \in AllBytes
    PROVE  SlipByte(s, b) \in Decoders
<1>1. END \in AllBytes /\ ESC \in AllBytes
  BY BytesAssumption DEF AllBytes
<1>2. s.bytes \in Seq(AllBytes) /\ s.pkts \in Seq(Seq(AllBytes))
  BY DEF Decoders
<1>3. /\ Append(s.bytes, END) \in Seq(AllBytes) /\ Append(s.bytes, ESC) \in Seq(AllBytes)
      /\ Append(s.bytes, b) \in Seq(AllBytes) /\ <<>> \in Seq(AllBytes)
      /\ Append(s.pkts, s.bytes) \in Seq(Seq(AllBytes))
  BY <1>1, <1>2
<1> QED BY <1>3 DEF Decoders, SlipByte

\* The rounds of takeSlip over the bytes x.
Runs(L, s, x) ==
    /\ L \in [0 .. Len(x) -> Decoders]
    /\ L[0] = s
    /\ \A n \in 1 .. Len(x) : L[n] = SlipByte(L[n - 1], x[n])

\* There are such rounds.
LEMMA RunsExist ==
    ASSUME NEW s \in Decoders, NEW x \in Seq(AllBytes)
    PROVE  \E L : Runs(L, s, x)
<1> DEFINE N == Len(x)
           F == [n \in 1 .. N |-> [d \in Decoders |-> SlipByte(d, x[n])]]
<1>1. N \in Nat /\ \A n \in 1 .. N : x[n] \in AllBytes
  OBVIOUS
<1>2. F \in [1 .. N -> [Decoders -> Decoders]]
  BY <1>1, SlipByteType
<1>3. \A n \in 1 .. N, d \in Decoders : F[n][d] = SlipByte(d, x[n])
  OBVIOUS
<1> HIDE DEF F
<1>4. PICK L \in [0 .. N -> Decoders] : IsLoop(L, s, F, N)
  BY <1>1, <1>2, LoopIs
<1>5. \A n \in 1 .. N : L[n] = SlipByte(L[n - 1], x[n])
  <2> TAKE n \in 1 .. N
  <2>1. n - 1 \in 0 .. N
    BY <1>1
  <2> QED BY <1>3, <1>4, <2>1 DEF IsLoop
<1> QED BY <1>4, <1>5 DEF Runs, IsLoop

\* They are what takeSlip goes through.
LEMMA RunsEnd ==
    ASSUME NEW s \in Decoders, NEW x \in Seq(AllBytes), NEW L, Runs(L, s, x)
    PROVE  TakeSlip(s, x) = L[Len(x)] /\ TakeSlip(s, x) \in Decoders
<1> DEFINE N == Len(x)
           Is(f) == f = [n \in 0 .. N |-> IF n = 0 THEN s ELSE SlipByte(f[n - 1], x[n])]
<1>1. N \in Nat
  OBVIOUS
<1>2. L \in [0 .. N -> Decoders] /\ L[0] = s
      /\ \A n \in 1 .. N : L[n] = SlipByte(L[n - 1], x[n])
  BY DEF Runs
<1>3. Is(L)
  <2>1. \A n \in 0 .. N : L[n] = IF n = 0 THEN s ELSE SlipByte(L[n - 1], x[n])
    BY <1>1, <1>2
  <2> QED BY <1>2, <2>1
<1>4. PICK f : Is(f) /\ TakeSlip(s, x) = f[N]
  BY <1>3 DEF TakeSlip
<1>5. \A n \in 0 .. N : f[n] = IF n = 0 THEN s ELSE SlipByte(f[n - 1], x[n])
  BY <1>4
<1> DEFINE T == {n \in 0 .. N : f[n] = L[n]}
<1>6. 0 \in T
  BY <1>1, <1>2, <1>5
<1>7. \A n \in 1 .. N : n - 1 \in T => n \in T
  BY <1>1, <1>2, <1>5
<1> HIDE DEF T
<1>8. \A n \in 0 .. N : n \in T
  BY <1>1, <1>6, <1>7, UpTo
<1>9. f[N] = L[N] /\ L[N] \in Decoders
  BY <1>1, <1>2, <1>8 DEF T
<1> QED BY <1>4, <1>9

\* Bytes may come in two pieces.
LEMMA TakeSlipOver ==
    ASSUME NEW s \in Decoders, NEW x \in Seq(AllBytes), NEW y \in Seq(AllBytes)
    PROVE  /\ TakeSlip(s, x) \in Decoders
           /\ TakeSlip(s, x \o y) = TakeSlip(TakeSlip(s, x), y)
<1> DEFINE l == Len(x)
           m == Len(y)
           z == x \o y
<1>1. PICK L : Runs(L, s, x)
  BY RunsExist
<1>2. TakeSlip(s, x) = L[l] /\ L[l] \in Decoders
  BY <1>1, RunsEnd
<1>3. PICK M : Runs(M, L[l], y)
  BY <1>2, RunsExist
<1>4. TakeSlip(L[l], y) = M[m]
  BY <1>2, <1>3, RunsEnd
<1>5. /\ l \in Nat /\ m \in Nat /\ Len(z) = l + m /\ z \in Seq(AllBytes)
      /\ \A n \in 1 .. l : z[n] = x[n]
      /\ \A n \in l + 1 .. l + m : z[n] = y[n - l]
  OBVIOUS
<1>6. /\ L \in [0 .. l -> Decoders] /\ L[0] = s
      /\ \A n \in 1 .. l : L[n] = SlipByte(L[n - 1], x[n])
  BY <1>1 DEF Runs
<1>7. /\ M \in [0 .. m -> Decoders] /\ M[0] = L[l]
      /\ \A n \in 1 .. m : M[n] = SlipByte(M[n - 1], y[n])
  BY <1>3 DEF Runs
<1> HIDE DEF l, m, z
<1> DEFINE K == [n \in 0 .. l + m |-> IF n <= l THEN L[n] ELSE M[n - l]]
<1>8. /\ \A n \in 0 .. l : K[n] = L[n]
      /\ \A n \in l .. l + m : K[n] = M[n - l]
  <2>1. \A n \in 0 .. l + m : K[n] = IF n <= l THEN L[n] ELSE M[n - l]
    OBVIOUS
  <2> HIDE DEF K
  <2>2. \A n \in 0 .. l : n \in 0 .. l + m /\ n <= l
    BY <1>5
  <2>3. ASSUME NEW n \in l .. l + m PROVE K[n] = M[n - l]
    <3>1. n \in 0 .. l + m
      BY <1>5
    <3>2. CASE n = l
      <4>1. n - l = 0 /\ n <= l
        BY <1>5, <3>2
      <4> QED BY <1>7, <2>1, <3>1, <3>2, <4>1
    <3>3. CASE n # l
      <4>1. ~(n <= l)
        BY <1>5, <3>3
      <4> QED BY <2>1, <3>1, <4>1
    <3> QED BY <3>2, <3>3
  <2> QED BY <2>1, <2>2, <2>3
<1>9. K \in [0 .. l + m -> Decoders]
  <2>1. ASSUME NEW n \in 0 .. l + m PROVE (IF n <= l THEN L[n] ELSE M[n - l]) \in Decoders
    <3>1. n <= l => n \in 0 .. l
      BY <1>5
    <3>2. ~(n <= l) => n - l \in 0 .. m
      BY <1>5
    <3> QED BY <1>6, <1>7, <3>1, <3>2
  <2> QED BY <2>1
<1> HIDE DEF K
<1>10. \A n \in 1 .. l + m : K[n] = SlipByte(K[n - 1], z[n])
  <2> TAKE n \in 1 .. l + m
  <2>1. CASE n <= l
    <3>1. n \in 1 .. l /\ n \in 0 .. l /\ n - 1 \in 0 .. l
      BY <1>5, <2>1
    <3> QED BY <3>1, <1>5, <1>6, <1>8
  <2>2. CASE n > l
    <3>1. /\ n \in l + 1 .. l + m /\ n \in l .. l + m /\ n - 1 \in l .. l + m
          /\ n - l \in 1 .. m /\ (n - 1) - l = (n - l) - 1
      BY <1>5, <2>2
    <3> QED BY <3>1, <1>5, <1>7, <1>8
  <2> QED BY <1>5, <2>1, <2>2
<1>11. Runs(K, s, z)
  BY <1>5, <1>6, <1>8, <1>9, <1>10 DEF Runs
<1>12. TakeSlip(s, z) = K[l + m]
  BY <1>5, <1>11, RunsEnd
<1>13. K[l + m] = M[m]
  BY <1>5, <1>8
<1> QED BY <1>2, <1>4, <1>12, <1>13 DEF z

\* Bytes that change nothing.
LEMMA TakeSlipSame ==
    ASSUME NEW s \in Decoders, NEW x \in Seq(AllBytes),
           \A n \in 1 .. Len(x) : SlipByte(s, x[n]) = s
    PROVE  TakeSlip(s, x) = s
<1> DEFINE L == [n \in 0 .. Len(x) |-> s]
<1>1. Runs(L, s, x)
  BY DEF Runs
<1>2. L[Len(x)] = s
  OBVIOUS
<1> HIDE DEF L
<1> QED BY <1>1, <1>2, RunsEnd

\* No byte, and one.
LEMMA TakeSlipFew ==
    ASSUME NEW s \in Decoders
    PROVE  /\ TakeSlip(s, <<>>) = s
           /\ \A b \in AllBytes : TakeSlip(s, <<b>>) = SlipByte(s, b)
<1>1. TakeSlip(s, <<>>) = s
  <2>1. <<>> \in Seq(AllBytes) /\ \A n \in 1 .. Len(<<>>) : SlipByte(s, <<>>[n]) = s
    OBVIOUS
  <2> QED BY <2>1, TakeSlipSame
<1>2. ASSUME NEW b \in AllBytes PROVE TakeSlip(s, <<b>>) = SlipByte(s, b)
  <2> DEFINE x == <<b>>
             L == [n \in 0 .. 1 |-> IF n = 0 THEN s ELSE SlipByte(s, b)]
  <2>1. x \in Seq(AllBytes) /\ Len(x) = 1 /\ x[1] = b
    OBVIOUS
  <2>2. L[0] = s /\ L[1] = SlipByte(s, b) /\ L \in [0 .. 1 -> Decoders]
    BY SlipByteType
  <2> HIDE DEF L, x
  <2>3. \A n \in 1 .. 1 : L[n] = SlipByte(L[n - 1], x[n])
    BY <2>1, <2>2
  <2>4. Runs(L, s, x)
    BY <2>1, <2>2, <2>3 DEF Runs
  <2>5. TakeSlip(s, x) = L[1]
    BY <2>1, <2>4, RunsEnd
  <2> QED BY <2>2, <2>5 DEF x
<1> QED BY <1>1, <1>2

\* What t has produced goes on from what s had produced.
Extends(s, t) ==
    /\ Len(s) <= Len(t)
    /\ \A k \in 1 .. Len(s) : t[k] = s[k]

\* Packets are added behind the others, and a dropped connection stays dropped.
LEMMA TakeSlipGrows ==
    ASSUME NEW s \in Decoders, NEW x \in Seq(AllBytes)
    PROVE  /\ TakeSlip(s, x) \in Decoders
           /\ Extends(s.pkts, TakeSlip(s, x).pkts)
           /\ TakeSlip(s, x).alive => s.alive
<1> DEFINE N == Len(x)
<1>1. PICK L : Runs(L, s, x)
  BY RunsExist
<1>2. /\ L \in [0 .. N -> Decoders] /\ L[0] = s /\ N \in Nat
      /\ \A n \in 1 .. N : L[n] = SlipByte(L[n - 1], x[n])
  BY <1>1 DEF Runs
<1> DEFINE T == {n \in 0 .. N : Extends(s.pkts, L[n].pkts) /\ (L[n].alive => s.alive)}
<1>3. 0 \in T
  <2>1. s.pkts \in Seq(Seq(AllBytes))
    BY DEF Decoders
  <2> QED BY <1>2, <2>1 DEF Extends
<1>4. ASSUME NEW n \in 1 .. N, n - 1 \in T PROVE n \in T
  <2> DEFINE d == L[n - 1]
             b == x[n]
  <2>1. d \in Decoders /\ Extends(s.pkts, d.pkts) /\ (d.alive => s.alive)
    BY <1>2, <1>4
  <2>2. L[n] = SlipByte(d, b)
    BY <1>2
  <2> HIDE DEF d, b
  <2>3. /\ d.pkts \in Seq(Seq(AllBytes)) /\ d.bytes \in Seq(AllBytes)
        /\ s.pkts \in Seq(Seq(AllBytes))
    BY <2>1 DEF Decoders
  <2>4. SlipByte(d, b).pkts \in {d.pkts, Append(d.pkts, d.bytes)}
    BY <2>1 DEF SlipByte, Decoders
  <2>5. SlipByte(d, b).alive => d.alive
    BY <2>1 DEF SlipByte, Decoders
  <2>6. Extends(s.pkts, Append(d.pkts, d.bytes))
    <3>1. /\ Len(Append(d.pkts, d.bytes)) = Len(d.pkts) + 1
          /\ \A k \in 1 .. Len(d.pkts) : Append(d.pkts, d.bytes)[k] = d.pkts[k]
      BY <2>3
    <3>2. Len(d.pkts) \in Nat /\ Len(s.pkts) \in Nat
      BY <2>3
    <3>3. \A k \in 1 .. Len(s.pkts) : k \in 1 .. Len(d.pkts) /\ d.pkts[k] = s.pkts[k]
      BY <2>1, <3>2 DEF Extends
    <3> QED BY <2>1, <3>1, <3>2, <3>3 DEF Extends
  <2>7. Extends(s.pkts, L[n].pkts)
    BY <2>1, <2>2, <2>4, <2>6
  <2>8. L[n].alive => s.alive
    BY <2>1, <2>2, <2>5
  <2> QED BY <2>7, <2>8
<1> HIDE DEF T
<1>5. \A n \in 1 .. N : n - 1 \in T => n \in T
  BY <1>4
<1>6. \A n \in 0 .. N : n \in T
  BY <1>2, <1>3, <1>5, UpTo
<1>7. Extends(s.pkts, L[N].pkts) /\ (L[N].alive => s.alive) /\ L[N] \in Decoders
  BY <1>2, <1>6 DEF T
<1> QED BY <1>1, <1>7, RunsEnd

-------------------------------------------------------------------------------
(* frameSlip and takeSlip.                                                 *)

\* One byte's code, decoded.
LEMMA EscapeDecodes ==
    ASSUME NEW s \in Decoders, s.alive, s.open, ~s.esc, NEW b \in Bytes
    PROVE  /\ Escape(b) \in Seq(AllBytes)
           /\ TakeSlip(s, Escape(b)) = [s EXCEPT !.bytes = Append(@, b)]
<1>1. /\ b \in AllBytes /\ END \in AllBytes /\ ESC \in AllBytes /\ ESC_END \in AllBytes
      /\ ESC_ESC \in AllBytes
  BY BytesAssumption DEF AllBytes
<1>2. ASSUME b \in {END, ESC}, NEW c \in {ESC_END, ESC_ESC}, Escape(b) = <<ESC, c>>,
             c = ESC_END <=> b = END
      PROVE  /\ Escape(b) \in Seq(AllBytes)
             /\ TakeSlip(s, Escape(b)) = [s EXCEPT !.bytes = Append(@, b)]
  <2> DEFINE t == [s EXCEPT !.esc = TRUE]
  <2>1. c \in AllBytes /\ c # END /\ ESC # END /\ c # ESC
    BY <1>1, <1>2, CodesAssumption
  <2>2. Escape(b) = <<ESC>> \o <<c>> /\ <<ESC>> \in Seq(AllBytes) /\ <<c>> \in Seq(AllBytes)
        /\ Escape(b) \in Seq(AllBytes)
    BY <1>1, <1>2, <2>1
  <2>3. TakeSlip(s, Escape(b)) = TakeSlip(TakeSlip(s, <<ESC>>), <<c>>)
    BY <2>2, TakeSlipOver
  <2>4. TakeSlip(s, <<ESC>>) = SlipByte(s, ESC)
    BY <1>1, TakeSlipFew
  <2>5. SlipByte(s, ESC) = t
    BY <2>1 DEF SlipByte
  <2>6. t \in Decoders /\ t.alive /\ t.open /\ t.esc
    BY DEF Decoders
  <2>7. TakeSlip(t, <<c>>) = SlipByte(t, c)
    BY <2>1, <2>6, TakeSlipFew
  <2>8. SlipByte(t, c) = [t EXCEPT !.esc = FALSE, !.bytes = Append(@, b)]
    <3>1. CASE b = END
      <4>1. c = ESC_END
        BY <1>2, <3>1
      <4>2. SlipByte(t, c) = [t EXCEPT !.esc = FALSE, !.bytes = Append(@, END)]
        BY <2>1, <2>6, <4>1, CodesAssumption DEF SlipByte
      <4> QED BY <3>1, <4>2
    <3>2. CASE b # END
      <4>1. b = ESC /\ c = ESC_ESC /\ c # ESC_END
        BY <1>2, <3>2, CodesAssumption
      <4> QED BY <2>1, <2>6, <4>1 DEF SlipByte
    <3> QED BY <3>1, <3>2
  <2>9. [t EXCEPT !.esc = FALSE, !.bytes = Append(@, b)] = [s EXCEPT !.bytes = Append(@, b)]
    BY DEF Decoders
  <2> QED BY <2>2, <2>3, <2>4, <2>5, <2>7, <2>8, <2>9
<1>3. CASE b = END
  <2>1. Escape(b) = <<ESC, ESC_END>>
    BY <1>3, CodesAssumption DEF Escape
  <2> QED BY <1>2, <1>3, <2>1
<1>4. CASE b = ESC
  <2>1. Escape(b) = <<ESC, ESC_ESC>> /\ b # END /\ ESC_ESC # ESC_END
    BY <1>4, CodesAssumption DEF Escape
  <2> QED BY <1>2, <1>4, <2>1
<1>5. CASE b \notin {END, ESC}
  <2>1. Escape(b) = <<b>>
    BY <1>5 DEF Escape
  <2>2. TakeSlip(s, <<b>>) = SlipByte(s, b)
    BY <1>1, TakeSlipFew
  <2>3. SlipByte(s, b) = [s EXCEPT !.bytes = Append(@, b)]
    BY <1>5 DEF SlipByte
  <2> QED BY <1>1, <2>1, <2>2, <2>3
<1> QED BY <1>3, <1>4, <1>5

\* What frameSlip has written after n bytes of p.
LEMMA EscapedIs ==
    ASSUME NEW p \in Seq(Bytes)
    PROVE  \E C \in [0 .. Len(p) -> Seq(AllBytes)] :
              /\ C[0] = <<>>
              /\ \A n \in 1 .. Len(p) : C[n] = C[n - 1] \o Escape(p[n])
              /\ Escaped(p) = C[Len(p)]
<1> DEFINE N == Len(p)
           S == Seq(AllBytes)
           F == [n \in 1 .. N |-> [c \in S |-> c \o Escape(p[n])]]
           Is(f) == f = [n \in 0 .. N |-> IF n = 0 THEN <<>> ELSE f[n - 1] \o Escape(p[n])]
<1>1. N \in Nat /\ <<>> \in S /\ \A n \in 1 .. N : p[n] \in Bytes
  OBVIOUS
<1>2. \A n \in 1 .. N : Escape(p[n]) \in S
  <2>1. \A b \in Bytes : Escape(b) \in S
    <3>1. \A b \in Bytes : Escape(b) \in {<<ESC, ESC_END>>, <<ESC, ESC_ESC>>, <<b>>}
      BY CodesAssumption DEF Escape
    <3>2. Bytes \subseteq AllBytes /\ ESC \in AllBytes /\ ESC_END \in AllBytes
          /\ ESC_ESC \in AllBytes
      BY BytesAssumption DEF AllBytes
    <3>3. /\ <<ESC, ESC_END>> \in S /\ <<ESC, ESC_ESC>> \in S
          /\ \A b \in Bytes : <<b>> \in S
      BY <3>2
    <3> HIDE DEF S
    <3> QED BY <3>1, <3>3
  <2> QED BY <1>1, <2>1
<1>3. F \in [1 .. N -> [S -> S]]
  <2>1. \A n \in 1 .. N : \A c \in S : c \o Escape(p[n]) \in S
    BY <1>2
  <2> QED BY <2>1
<1>4. \A n \in 1 .. N, c \in S : F[n][c] = c \o Escape(p[n])
  OBVIOUS
<1> HIDE DEF F
<1>5. PICK C \in [0 .. N -> S] : IsLoop(C, <<>>, F, N)
  BY <1>1, <1>3, LoopIs
<1>6. C[0] = <<>> /\ \A n \in 1 .. N : C[n] = C[n - 1] \o Escape(p[n])
  <2>1. \A n \in 1 .. N : n - 1 \in 0 .. N
    BY <1>1
  <2> QED BY <1>4, <1>5, <2>1 DEF IsLoop
<1>7. Is(C)
  <2>1. ASSUME NEW n \in 0 .. N
        PROVE  C[n] = IF n = 0 THEN <<>> ELSE C[n - 1] \o Escape(p[n])
    <3>1. n # 0 => n \in 1 .. N
      BY <1>1
    <3> QED BY <1>6, <3>1
  <2> QED BY <1>5, <2>1
<1>8. PICK f : Is(f) /\ Escaped(p) = f[N]
  BY <1>7 DEF Escaped
<1>9. \A n \in 0 .. N : f[n] = IF n = 0 THEN <<>> ELSE f[n - 1] \o Escape(p[n])
  BY <1>8
<1> DEFINE T == {n \in 0 .. N : f[n] = C[n]}
<1>10. 0 \in T
  BY <1>1, <1>6, <1>9
<1>11. ASSUME NEW n \in 1 .. N, n - 1 \in T PROVE n \in T
  <2>1. n \in 0 .. N /\ n # 0
    BY <1>1
  <2>2. f[n] = f[n - 1] \o Escape(p[n]) /\ C[n] = C[n - 1] \o Escape(p[n])
    BY <1>6, <1>9, <2>1
  <2>3. f[n - 1] = C[n - 1]
    BY <1>11
  <2> QED BY <2>1, <2>2, <2>3
<1> HIDE DEF T
<1>14. \A n \in 1 .. N : n - 1 \in T => n \in T
  BY <1>11
<1>12. \A n \in 0 .. N : n \in T
  BY <1>1, <1>10, <1>14, UpTo
<1>13. Escaped(p) = C[N]
  BY <1>1, <1>8, <1>12 DEF T
<1> QED BY <1>6, <1>13

\* Between two frames.
Rests(s) == s \in Decoders /\ s.alive /\ ~s.esc /\ s.bytes = <<>>

\* A frame, decoded, is the packet, and the decoder is between two frames again.
LEMMA FrameSlipDecodes ==
    ASSUME NEW p \in Seq(Bytes), p # <<>>, NEW s, Rests(s)
    PROVE  /\ FrameSlip(p) \in Seq(AllBytes)
           /\ Rests(TakeSlip(s, FrameSlip(p)))
           /\ TakeSlip(s, FrameSlip(p)).pkts = Append(s.pkts, p)
<1> DEFINE N == Len(p)
           o == [s EXCEPT !.open = TRUE]
           e == <<END>>
           Mid(n) == [o EXCEPT !.bytes = SubSeq(p, 1, n)]
<1>1. s \in Decoders /\ s.alive /\ ~s.esc /\ s.bytes = <<>> /\ e \in Seq(AllBytes)
      /\ END \in AllBytes
  BY BytesAssumption DEF Rests, AllBytes
<1>2. N \in Nat /\ N > 0 /\ SubSeq(p, 1, N) = p /\ SubSeq(p, 1, 0) = <<>>
  OBVIOUS
<1>3. o \in Decoders /\ o.alive /\ ~o.esc /\ o.open /\ o.bytes = <<>> /\ o.pkts = s.pkts
  BY <1>1 DEF Decoders
<1>4. TakeSlip(s, e) = o
  <2>1. TakeSlip(s, e) = SlipByte(s, END)
    BY <1>1, TakeSlipFew
  <2>2. SlipByte(s, END) = [s EXCEPT !.open = TRUE, !.esc = FALSE, !.bytes = <<>>,
                                      !.pkts = s.pkts]
    BY <1>1 DEF SlipByte
  <2> QED BY <1>1, <2>1, <2>2 DEF Decoders
<1> HIDE DEF o
<1>5. PICK C \in [0 .. N -> Seq(AllBytes)] :
         /\ C[0] = <<>>
         /\ \A n \in 1 .. N : C[n] = C[n - 1] \o Escape(p[n])
         /\ Escaped(p) = C[N]
  BY EscapedIs
<1>6. \A n \in 0 .. N : /\ SubSeq(p, 1, n) \in Seq(AllBytes) /\ Mid(n) \in Decoders
                        /\ Mid(n).alive /\ Mid(n).open /\ ~Mid(n).esc
                        /\ Mid(n).bytes = SubSeq(p, 1, n) /\ Mid(n).pkts = s.pkts
  <2> TAKE n \in 0 .. N
  <2>1. SubSeq(p, 1, n) \in Seq(AllBytes)
    BY <1>2 DEF AllBytes
  <2> QED BY <1>3, <2>1 DEF Decoders
<1> DEFINE T == {n \in 0 .. N : TakeSlip(o, C[n]) = Mid(n)}
<1>7. 0 \in T
  <2>1. TakeSlip(o, <<>>) = o
    BY <1>3, TakeSlipFew
  <2>2. Mid(0) = o
    BY <1>2, <1>3 DEF Decoders
  <2> QED BY <1>2, <1>5, <2>1, <2>2
<1>8. ASSUME NEW n \in 1 .. N, n - 1 \in T PROVE n \in T
  <2>1. n - 1 \in 0 .. N /\ n \in 0 .. N /\ p[n] \in Bytes
    BY <1>2
  <2>2. TakeSlip(o, C[n - 1]) = Mid(n - 1) /\ C[n - 1] \in Seq(AllBytes)
    BY <1>5, <1>8, <2>1
  <2>3. /\ Escape(p[n]) \in Seq(AllBytes)
        /\ TakeSlip(Mid(n - 1), Escape(p[n])) = [Mid(n - 1) EXCEPT !.bytes = Append(@, p[n])]
    BY <1>6, <2>1, EscapeDecodes
  <2>4. TakeSlip(o, C[n]) = TakeSlip(Mid(n - 1), Escape(p[n]))
    <3>1. TakeSlip(o, C[n - 1] \o Escape(p[n])) = TakeSlip(TakeSlip(o, C[n - 1]), Escape(p[n]))
      BY <1>3, <2>2, <2>3, TakeSlipOver
    <3> QED BY <1>5, <2>2, <3>1
  <2>5. Append(SubSeq(p, 1, n - 1), p[n]) = SubSeq(p, 1, n)
    BY <1>2
  <2>6. [Mid(n - 1) EXCEPT !.bytes = Append(@, p[n])] = Mid(n)
    BY <1>3, <2>5 DEF Decoders
  <2> QED BY <2>1, <2>3, <2>4, <2>6
<1> HIDE DEF T
<1>9. \A n \in 1 .. N : n - 1 \in T => n \in T
  BY <1>8
<1>10. \A n \in 0 .. N : n \in T
  BY <1>2, <1>7, <1>9, UpTo
<1> DEFINE d == Mid(N)
<1>11. TakeSlip(o, Escaped(p)) = d /\ Escaped(p) \in Seq(AllBytes)
  <2>1. N \in 0 .. N /\ N \in T
    BY <1>2, <1>10
  <2>2. TakeSlip(o, C[N]) = Mid(N)
    BY <2>1 DEF T
  <2>3. C[N] \in Seq(AllBytes)
    BY <1>5, <2>1
  <2> QED BY <1>5, <2>2, <2>3
<1>12. d \in Decoders /\ d.alive /\ d.open /\ ~d.esc /\ d.bytes = p /\ d.pkts = s.pkts
  <2>1. N \in 0 .. N
    BY <1>2
  <2> HIDE DEF Mid
  <2>2. /\ Mid(N) \in Decoders /\ Mid(N).alive /\ Mid(N).open /\ ~Mid(N).esc
        /\ Mid(N).bytes = SubSeq(p, 1, N) /\ Mid(N).pkts = s.pkts
    BY <1>6, <2>1
  <2> QED BY <1>2, <2>2
<1> HIDE DEF d
<1>13. TakeSlip(d, e) = [d EXCEPT !.open = TRUE, !.esc = FALSE, !.bytes = <<>>,
                                   !.pkts = Append(d.pkts, d.bytes)]
  <2>1. TakeSlip(d, e) = SlipByte(d, END)
    BY <1>1, <1>12, TakeSlipFew
  <2> QED BY <1>12, <2>1 DEF SlipByte
<1>14. FrameSlip(p) = (e \o Escaped(p)) \o e
  BY <1>1, <1>11 DEF FrameSlip
<1>15. TakeSlip(s, e \o Escaped(p)) = d
  <2>1. TakeSlip(s, e \o Escaped(p)) = TakeSlip(TakeSlip(s, e), Escaped(p))
    BY <1>1, <1>11, TakeSlipOver
  <2> QED BY <1>4, <1>11, <2>1
<1>16. e \o Escaped(p) \in Seq(AllBytes) /\ FrameSlip(p) \in Seq(AllBytes)
  BY <1>1, <1>11, <1>14
<1>17. TakeSlip(s, FrameSlip(p)) = TakeSlip(d, e)
  <2>1. TakeSlip(s, (e \o Escaped(p)) \o e) = TakeSlip(TakeSlip(s, e \o Escaped(p)), e)
    BY <1>1, <1>16, TakeSlipOver
  <2> QED BY <1>14, <1>15, <2>1
<1>18. TakeSlip(s, FrameSlip(p)) \in Decoders
  BY <1>1, <1>16, TakeSlipGrows
<1> QED BY <1>12, <1>13, <1>16, <1>17, <1>18 DEF Rests, Decoders

-------------------------------------------------------------------------------
(* The digits of the size prefix.                                         *)

\* Quotient and remainder.
LEMMA DivMod ==
    ASSUME NEW n \in Nat, NEW P \in Nat \ {0}
    PROVE  /\ n \div P \in Nat /\ n % P \in 0 .. P - 1
           /\ n = (P * (n \div P)) + (n % P)
OBVIOUS

\* There is one quotient.
LEMMA DivOne ==
    ASSUME NEW M \in Nat \ {0}, NEW a \in Nat, NEW b \in Nat, NEW r \in 0 .. M - 1,
           NEW t \in 0 .. M - 1, M * a + r = M * b + t
    PROVE  a = b
<1>1. ASSUME NEW x \in Nat, NEW y \in Nat, x < y PROVE M * y >= M * x + M
  <2>1. PICK d \in Nat : y = x + 1 + d
    <3>1. y - x - 1 \in Nat /\ y = x + 1 + (y - x - 1)
      BY <1>1
    <3> QED BY <3>1
  <2>2. M * y = M * x + M + M * d
    BY <2>1
  <2>3. M * d \in Nat
    OBVIOUS
  <2>4. M * x \in Nat
    OBVIOUS
  <2> QED BY <2>2, <2>3, <2>4
<1>2. ~(a < b)
  <2> SUFFICES ASSUME a < b PROVE FALSE
    OBVIOUS
  <2>1. M * b >= M * a + M
    BY <1>1
  <2>2. M * a \in Nat /\ M * b \in Nat
    OBVIOUS
  <2> QED BY <2>1, <2>2
<1>3. ~(b < a)
  <2> SUFFICES ASSUME b < a PROVE FALSE
    OBVIOUS
  <2>1. M * a >= M * b + M
    BY <1>1
  <2>2. M * a \in Nat /\ M * b \in Nat
    OBVIOUS
  <2> QED BY <2>1, <2>2
<1> QED BY <1>2, <1>3

\* One digit to the left.
LEMMA DivStep ==
    ASSUME NEW n \in Nat, NEW P \in Nat \ {0}, NEW B \in Nat \ {0}
    PROVE  ((n \div (B * P)) * B) + ((n \div P) % B) = n \div P
<1> DEFINE q == n \div P
           r == n % P
           a == q \div B
           d == q % B
           M == B * P
           c == n \div M
           t == n % M
<1>1. q \in Nat /\ r \in 0 .. P - 1 /\ n = (P * q) + r
  BY DivMod
<1>2. a \in Nat /\ d \in 0 .. B - 1 /\ q = (B * a) + d
  BY <1>1, DivMod
<1>3. M \in Nat \ {0}
  OBVIOUS
<1>4. c \in Nat /\ t \in 0 .. M - 1 /\ n = (M * c) + t
  BY <1>3, DivMod
<1> HIDE DEF q, r, a, d, c, t
<1>5. n = (M * a) + ((P * d) + r)
  <2>1. P * q = (P * (B * a)) + (P * d)
    BY <1>2
  <2>2. P * (B * a) = (B * P) * a
    BY <1>2
  <2> QED BY <1>1, <1>2, <2>1, <2>2
<1>6. (P * d) + r \in 0 .. M - 1
  <2>1. PICK g \in Nat : B = d + 1 + g
    <3>1. B - d - 1 \in Nat /\ B = d + 1 + (B - d - 1)
      BY <1>2
    <3> QED BY <3>1
  <2>2. B * P = (P * d) + P + (P * g)
    BY <1>2, <2>1
  <2>3. P * g \in Nat /\ P * d \in Nat
    BY <1>2, <2>1
  <2> QED BY <1>1, <2>2, <2>3
<1> HIDE DEF M
<1>7. a = c
  BY <1>2, <1>3, <1>4, <1>5, <1>6, DivOne
<1>8. (c * B) + d = q
  BY <1>2, <1>4, <1>7
<1> QED BY <1>8 DEF c, d, q, M

\* What is less than the base of the next digit has none there.
LEMMA DivSmall ==
    ASSUME NEW n \in Nat, NEW P \in Nat, n < P
    PROVE  n \div P = 0 /\ n \div 1 = n
OBVIOUS

\* The powers of the base.
LEMMA PowerIs ==
    /\ \A n \in 0 .. Width : Power[n] \in Nat \ {0}
    /\ Power[0] = 1
    /\ \A n \in 1 .. Width : Power[n] = Base * Power[n - 1]
<1> DEFINE S == Nat \ {0}
           F == [n \in 1 .. Width |-> [v \in S |-> Base * v]]
           Is(f) == f = [n \in 0 .. Width |-> IF n = 0 THEN 1 ELSE Base * f[n - 1]]
<1>1. Width \in Nat /\ Base \in S /\ 1 \in S
  BY BaseAssumption
<1>2. F \in [1 .. Width -> [S -> S]]
  <2>1. \A v \in S : Base * v \in S
    BY <1>1
  <2> QED BY <2>1
<1>3. \A n \in 1 .. Width, v \in S : F[n][v] = Base * v
  OBVIOUS
<1> HIDE DEF F
<1>4. PICK L \in [0 .. Width -> S] : IsLoop(L, 1, F, Width)
  BY <1>1, <1>2, LoopIs
<1>5. L[0] = 1 /\ \A n \in 1 .. Width : L[n] = Base * L[n - 1]
  <2>1. \A n \in 1 .. Width : n - 1 \in 0 .. Width
    BY <1>1
  <2> QED BY <1>3, <1>4, <2>1 DEF IsLoop
<1>6. Is(L)
  <2>1. ASSUME NEW n \in 0 .. Width PROVE L[n] = IF n = 0 THEN 1 ELSE Base * L[n - 1]
    <3>1. n # 0 => n \in 1 .. Width
      BY <1>1
    <3> QED BY <1>5, <3>1
  <2> QED BY <1>4, <2>1
<1>7. Is(Power)
  BY <1>6 DEF Power
<1>8. \A n \in 0 .. Width : Power[n] = IF n = 0 THEN 1 ELSE Base * Power[n - 1]
  BY <1>7
<1>9. Power[0] = 1
  BY <1>1, <1>8
<1>10. \A n \in 1 .. Width : Power[n] = Base * Power[n - 1]
  <2>1. \A n \in 1 .. Width : n \in 0 .. Width /\ n # 0
    BY <1>1
  <2> QED BY <1>8, <2>1
<1> DEFINE T == {n \in 0 .. Width : Power[n] \in S}
<1>11. 0 \in T
  BY <1>1, <1>9
<1>12. ASSUME NEW n \in 1 .. Width, n - 1 \in T PROVE n \in T
  <2>1. Base * Power[n - 1] \in S
    BY <1>1, <1>12
  <2> QED BY <1>1, <1>10, <2>1
<1> HIDE DEF T
<1>13. \A n \in 1 .. Width : n - 1 \in T => n \in T
  BY <1>12
<1>14. \A n \in 0 .. Width : n \in T
  BY <1>1, <1>11, <1>13, UpTo
<1> QED BY <1>9, <1>10, <1>14 DEF T

\* What readBe32 has read after k bytes.
LEMMA SizeOfIs ==
    ASSUME NEW s \in Seq(AllBytes), Len(s) >= Width
    PROVE  \E V \in [0 .. Width -> Nat] :
              /\ V[0] = 0
              /\ \A k \in 1 .. Width : V[k] = (V[k - 1] * Base) + s[k]
              /\ SizeOf(s) = V[Width]
<1> DEFINE F == [k \in 1 .. Width |-> [v \in Nat |-> (v * Base) + s[k]]]
           Is(f) == f = [k \in 0 .. Width |-> IF k = 0 THEN 0 ELSE (f[k - 1] * Base) + s[k]]
<1>1. Width \in Nat /\ Base \in Nat
  BY BaseAssumption
<1>2. \A k \in 1 .. Width : s[k] \in Nat
  <2>1. AllBytes \subseteq Nat
    BY BytesAssumption, BaseAssumption DEF AllBytes
  <2>2. \A k \in 1 .. Width : k \in 1 .. Len(s) /\ s[k] \in AllBytes
    BY <1>1
  <2> QED BY <2>1, <2>2
<1>3. F \in [1 .. Width -> [Nat -> Nat]]
  <2>1. ASSUME NEW k \in 1 .. Width, NEW v \in Nat PROVE (v * Base) + s[k] \in Nat
    <3>1. v * Base \in Nat
      BY <1>1
    <3> QED BY <1>2, <3>1
  <2> QED BY <2>1
<1>4. \A k \in 1 .. Width, v \in Nat : F[k][v] = (v * Base) + s[k]
  OBVIOUS
<1> HIDE DEF F
<1>5. PICK V \in [0 .. Width -> Nat] : IsLoop(V, 0, F, Width)
  BY <1>1, <1>3, LoopIs
<1>6. V[0] = 0 /\ \A k \in 1 .. Width : V[k] = (V[k - 1] * Base) + s[k]
  <2>1. \A k \in 1 .. Width : k - 1 \in 0 .. Width
    BY <1>1
  <2> QED BY <1>4, <1>5, <2>1 DEF IsLoop
<1>7. Is(V)
  <2>1. ASSUME NEW k \in 0 .. Width PROVE V[k] = IF k = 0 THEN 0 ELSE (V[k - 1] * Base) + s[k]
    <3>1. k # 0 => k \in 1 .. Width
      BY <1>1
    <3> QED BY <1>6, <3>1
  <2> QED BY <1>5, <2>1
<1>8. PICK f : Is(f) /\ SizeOf(s) = f[Width]
  BY <1>7 DEF SizeOf
<1>9. \A k \in 0 .. Width : f[k] = IF k = 0 THEN 0 ELSE (f[k - 1] * Base) + s[k]
  BY <1>8
<1> DEFINE T == {k \in 0 .. Width : f[k] = V[k]}
<1>10. 0 \in T
  BY <1>1, <1>6, <1>9
<1>11. ASSUME NEW k \in 1 .. Width, k - 1 \in T PROVE k \in T
  <2>1. k \in 0 .. Width /\ k # 0
    BY <1>1
  <2>2. f[k] = (f[k - 1] * Base) + s[k] /\ V[k] = (V[k - 1] * Base) + s[k]
    BY <1>6, <1>9, <2>1
  <2>3. f[k - 1] = V[k - 1]
    BY <1>11
  <2> QED BY <2>1, <2>2, <2>3
<1> HIDE DEF T
<1>12. \A k \in 1 .. Width : k - 1 \in T => k \in T
  BY <1>11
<1>13. \A k \in 0 .. Width : k \in T
  BY <1>1, <1>10, <1>12, UpTo
<1>14. SizeOf(s) = V[Width]
  BY <1>1, <1>8, <1>13 DEF T
<1> QED BY <1>6, <1>14

\* A length that fits is read as it was written.
LEMMA SizeOfDigits ==
    ASSUME NEW n \in Nat, n < Power[Width], NEW s \in Seq(AllBytes), Len(s) >= Width,
           \A k \in 1 .. Width : s[k] = Digits(n)[k]
    PROVE  SizeOf(s) = n
<1>1. Width \in Nat /\ Base \in Nat \ {0}
  BY BaseAssumption
<1>2. PICK V \in [0 .. Width -> Nat] : /\ V[0] = 0
                                       /\ \A k \in 1 .. Width : V[k] = (V[k - 1] * Base) + s[k]
                                       /\ SizeOf(s) = V[Width]
  BY SizeOfIs
<1>3. \A k \in 1 .. Width : s[k] = (n \div Power[Width - k]) % Base
  BY DEF Digits
<1> DEFINE T == {k \in 0 .. Width : V[k] = n \div Power[Width - k]}
<1>4. 0 \in T
  <2>1. Width \in 0 .. Width /\ Width - 0 = Width
    BY <1>1
  <2>2. n \div Power[Width] = 0
    BY <2>1, PowerIs, DivSmall
  <2> QED BY <1>1, <1>2, <2>1, <2>2
<1>5. ASSUME NEW k \in 1 .. Width, k - 1 \in T PROVE k \in T
  <2> DEFINE P == Power[Width - k]
  <2>1. /\ Width - k \in 0 .. Width /\ Width - (k - 1) \in 1 .. Width
        /\ (Width - (k - 1)) - 1 = Width - k /\ k \in 0 .. Width
    BY <1>1
  <2>2. P \in Nat \ {0} /\ Power[Width - (k - 1)] = Base * P
    BY <2>1, PowerIs
  <2>3. V[k - 1] = n \div (Base * P)
    BY <1>5, <2>2
  <2>4. V[k] = (V[k - 1] * Base) + ((n \div P) % Base)
    BY <1>2, <1>3
  <2> HIDE DEF P
  <2>5. V[k] = n \div P
    BY <1>1, <2>2, <2>3, <2>4, DivStep
  <2> QED BY <2>1, <2>5 DEF P
<1> HIDE DEF T
<1>6. \A k \in 1 .. Width : k - 1 \in T => k \in T
  BY <1>5
<1>7. \A k \in 0 .. Width : k \in T
  BY <1>1, <1>4, <1>6, UpTo
<1>8. V[Width] = n \div Power[Width - Width] /\ Width - Width = 0
  BY <1>1, <1>7 DEF T
<1>9. n \div 1 = n
  BY DivSmall
<1> QED BY <1>2, <1>8, <1>9, PowerIs

\* The rest of a sequence.
LEMMA RestOf ==
    ASSUME NEW S, NEW s \in Seq(S), NEW w \in Nat, w <= Len(s)
    PROVE  LET t == SubSeq(s, w + 1, Len(s))
           IN /\ t \in Seq(S) /\ Len(t) = Len(s) - w
              /\ \A k \in 1 .. Len(s) - w : w + k \in 1 .. Len(s) /\ t[k] = s[w + k]
<1> DEFINE t == SubSeq(s, w + 1, Len(s))
<1>1. Len(s) \in Nat /\ w + 1 \in 1 .. Len(s) + 1
  OBVIOUS
<1>2. t \in Seq(S) /\ Len(t) = Len(s) - w
  BY <1>1
<1>3. ASSUME NEW k \in 1 .. Len(s) - w PROVE w + k \in 1 .. Len(s) /\ t[k] = s[w + k]
  <2>1. (w + 1) + k - 1 = w + k /\ w + k \in 1 .. Len(s) /\ k \in 1 .. (Len(s) - (w + 1)) + 1
    BY <1>1
  <2> QED BY <1>1, <2>1
<1> QED BY <1>2, <1>3

\* What a packet that fits becomes.
LEMMA FrameSizeIs ==
    ASSUME NEW p \in Seq(Bytes)
    PROVE  /\ FrameSize(p) \in Seq(AllBytes) /\ Len(FrameSize(p)) = Width + Len(p)
           /\ \A k \in 1 .. Width : FrameSize(p)[k] = Digits(Len(p))[k]
           /\ \A k \in 1 .. Len(p) : FrameSize(p)[Width + k] = p[k]
<1> DEFINE d == Digits(Len(p))
<1>1. Width \in Nat /\ Base \in Nat \ {0} /\ Len(p) \in Nat
  BY BaseAssumption
<1>2. \A k \in 1 .. Width : (Len(p) \div Power[Width - k]) % Base \in 0 .. Base - 1
  <2> TAKE k \in 1 .. Width
  <2>1. Width - k \in 0 .. Width
    BY <1>1
  <2>2. Power[Width - k] \in Nat \ {0}
    BY <2>1, PowerIs
  <2>3. Len(p) \div Power[Width - k] \in Nat
    BY <1>1, <2>2, DivMod
  <2> QED BY <1>1, <2>3, DivMod
<1>3. d \in Seq(AllBytes) /\ Len(d) = Width
  <2>1. d \in [1 .. Width -> AllBytes]
    BY <1>2 DEF Digits, AllBytes
  <2> QED BY <1>1, <2>1
<1>4. p \in Seq(AllBytes)
  BY DEF AllBytes
<1> HIDE DEF d
<1>5. FrameSize(p) = d \o p
  BY DEF FrameSize, d
<1>6. d \o p \in Seq(AllBytes) /\ Len(d \o p) = Width + Len(p)
  BY <1>3, <1>4
<1>7. \A k \in 1 .. Width : (d \o p)[k] = d[k]
  BY <1>1, <1>3, <1>4
<1>8. \A k \in 1 .. Len(p) : (d \o p)[Width + k] = p[k]
  BY <1>1, <1>3, <1>4
<1> QED BY <1>5, <1>6, <1>7, <1>8 DEF d

-------------------------------------------------------------------------------
(* takeSize: a loop that cuts one packet off each time.                    *)

\* The stream s is the frames of ps after the j-th, b saying where each one ends.
Ends(b, s, ps, j) ==
    /\ b \in [j .. Len(ps) -> 0 .. Len(s)]
    /\ b[j] = 0 /\ b[Len(ps)] = Len(s)
    /\ \A i \in j + 1 .. Len(ps) :
          /\ b[i] = b[i - 1] + (Width + Len(ps[i]))
          /\ \A k \in 1 .. Width + Len(ps[i]) : s[b[i - 1] + k] = FrameSize(ps[i])[k]
Frames(s, ps, j) == j \in 0 .. Len(ps) /\ \E b : Ends(b, s, ps, j)

\* Packets that sendTo lets pass.
Short == {p \in Seq(Bytes) \ {<<>>} : Len(p) < Power[Width]}

\* One more frame behind the others.
LEMMA FramesMore ==
    ASSUME NEW ps \in Seq(Short), NEW s \in Seq(AllBytes), NEW j, Frames(s, ps, j),
           NEW p \in Short
    PROVE  Frames(s \o FrameSize(p), Append(ps, p), j)
<1> DEFINE f == FrameSize(p)
           t == s \o f
           qs == Append(ps, p)
           n == Len(ps)
           w == Width + Len(p)
<1>1. PICK b : Ends(b, s, ps, j)
  BY DEF Frames
<1>2. /\ n \in Nat /\ Len(qs) = n + 1 /\ qs[n + 1] = p /\ \A i \in 1 .. n : qs[i] = ps[i]
      /\ p \in Seq(Bytes) /\ Len(p) \in Nat /\ j \in 0 .. n
  BY DEF Short, Frames
<1>3. Width \in Nat /\ w \in Nat
  BY <1>2, BaseAssumption
<1>4. f \in Seq(AllBytes) /\ Len(f) = w
  BY <1>2, FrameSizeIs
<1> HIDE DEF f
<1>5. /\ Len(s) \in Nat /\ Len(t) = Len(s) + w
      /\ \A k \in 1 .. Len(s) : t[k] = s[k]
      /\ \A k \in 1 .. w : t[Len(s) + k] = f[k]
  BY <1>3, <1>4
<1>6. /\ b \in [j .. n -> 0 .. Len(s)] /\ b[j] = 0 /\ b[n] = Len(s)
      /\ \A i \in j + 1 .. n :
            /\ b[i] = b[i - 1] + (Width + Len(ps[i]))
            /\ \A k \in 1 .. Width + Len(ps[i]) : s[b[i - 1] + k] = FrameSize(ps[i])[k]
  BY <1>1 DEF Ends
<1> HIDE DEF t, qs, n
<1> DEFINE c == [i \in j .. n + 1 |-> IF i = n + 1 THEN Len(t) ELSE b[i]]
<1>7. c[n + 1] = Len(t) /\ \A i \in j .. n : c[i] = b[i]
  BY <1>2
<1>8. c \in [j .. n + 1 -> 0 .. Len(t)]
  <2>1. ASSUME NEW i \in j .. n + 1 PROVE (IF i = n + 1 THEN Len(t) ELSE b[i]) \in 0 .. Len(t)
    <3>1. Len(t) \in Nat /\ Len(s) <= Len(t)
      BY <1>3, <1>5
    <3>2. i # n + 1 => i \in j .. n
      BY <1>2
    <3>3. i # n + 1 => b[i] \in 0 .. Len(s)
      BY <1>6, <3>2
    <3> QED BY <1>5, <3>1, <3>3
  <2> QED BY <2>1
<1> HIDE DEF c
<1>9. ASSUME NEW i \in j + 1 .. n + 1
      PROVE  /\ c[i] = c[i - 1] + (Width + Len(qs[i]))
             /\ \A k \in 1 .. Width + Len(qs[i]) : t[c[i - 1] + k] = FrameSize(qs[i])[k]
  <2>1. CASE i = n + 1
    <3>1. c[i - 1] = Len(s) /\ c[i] = Len(s) + w /\ qs[i] = p
      <4>1. n \in j .. n /\ i - 1 = n
        BY <1>2, <2>1
      <4> QED BY <1>2, <1>5, <1>6, <1>7, <2>1, <4>1
    <3> QED BY <1>5, <3>1 DEF f
  <2>2. CASE i # n + 1
    <3>1. i \in j + 1 .. n /\ i - 1 \in j .. n /\ i \in j .. n /\ i \in 1 .. n
      BY <1>2, <2>2
    <3>2. c[i] = b[i] /\ c[i - 1] = b[i - 1] /\ qs[i] = ps[i]
      BY <1>2, <1>7, <3>1
    <3>3. /\ b[i] = b[i - 1] + (Width + Len(ps[i]))
          /\ \A k \in 1 .. Width + Len(ps[i]) : s[b[i - 1] + k] = FrameSize(ps[i])[k]
      BY <1>6, <3>1
    <3>4. b[i - 1] \in 0 .. Len(s) /\ b[i] \in 0 .. Len(s)
      BY <1>6, <3>1
    <3>5. Len(ps[i]) \in Nat
      BY <3>1 DEF Short, n
    <3>6. \A k \in 1 .. Width + Len(ps[i]) : b[i - 1] + k \in 1 .. Len(s)
      <4> DEFINE x == b[i - 1]
                 y == b[i]
                 m == Width + Len(ps[i])
      <4>1. x \in 0 .. Len(s) /\ y \in 0 .. Len(s) /\ y = x + m /\ m \in Nat
        BY <1>3, <3>3, <3>4, <3>5
      <4> HIDE DEF x, y, m
      <4>2. \A k \in 1 .. m : x + k \in 1 .. Len(s)
        BY <1>5, <4>1
      <4> QED BY <4>2 DEF x, m
    <3> QED BY <1>5, <3>2, <3>3, <3>6
  <2> QED BY <2>1, <2>2
<1>10. c[j] = 0
  BY <1>2, <1>6, <1>7
<1>11. Ends(c, t, qs, j)
  BY <1>2, <1>7, <1>8, <1>9, <1>10 DEF Ends
<1>12. j \in 0 .. Len(qs)
  BY <1>2
<1> QED BY <1>11, <1>12 DEF Frames, t, qs, f

\* A stream that is not empty begins with the next frame, and goes on with the rest.
LEMMA FramesNext ==
    ASSUME NEW ps \in Seq(Short), NEW s \in Seq(AllBytes), NEW j, Frames(s, ps, j)
    PROVE  IF Len(s) = 0 THEN j = Len(ps)
           ELSE /\ j < Len(ps)
                /\ LET f == FrameSize(ps[j + 1])
                   IN /\ Len(f) <= Len(s)
                      /\ \A k \in 1 .. Len(f) : s[k] = f[k]
                      /\ Frames(SubSeq(s, Len(f) + 1, Len(s)), ps, j + 1)
<1> DEFINE n == Len(ps)
<1>1. PICK b : Ends(b, s, ps, j)
  BY DEF Frames
<1>2. n \in Nat /\ j \in 0 .. n /\ Len(s) \in Nat /\ Width \in Nat \ {0}
  BY BaseAssumption DEF Frames
<1>3. /\ b \in [j .. n -> 0 .. Len(s)] /\ b[j] = 0 /\ b[n] = Len(s)
      /\ \A i \in j + 1 .. n :
            /\ b[i] = b[i - 1] + (Width + Len(ps[i]))
            /\ \A k \in 1 .. Width + Len(ps[i]) : s[b[i - 1] + k] = FrameSize(ps[i])[k]
  BY <1>1 DEF Ends
<1>4. ASSUME j < n
      PROVE  LET f == FrameSize(ps[j + 1])
             IN /\ Len(f) <= Len(s) /\ Len(f) > 0
                /\ \A k \in 1 .. Len(f) : s[k] = f[k]
                /\ Frames(SubSeq(s, Len(f) + 1, Len(s)), ps, j + 1)
  <2> DEFINE p == ps[j + 1]
             f == FrameSize(p)
             w == Len(f)
             t == SubSeq(s, w + 1, Len(s))
             c == [i \in j + 1 .. n |-> b[i] - w]
  <2>1. j + 1 \in 1 .. n /\ j + 1 \in j + 1 .. n /\ (j + 1) - 1 = j /\ p \in Short
    BY <1>2, <1>4
  <2>2. w = Width + Len(p) /\ Len(p) \in Nat /\ w \in Nat \ {0}
    <3>1. p \in Seq(Bytes)
      BY <2>1 DEF Short
    <3> QED BY <1>2, <3>1, FrameSizeIs
  <2>3. b[j + 1] = w /\ \A k \in 1 .. w : s[k] = f[k]
    <3>1. /\ b[j + 1] = b[j] + (Width + Len(p))
          /\ \A k \in 1 .. Width + Len(p) : s[b[j] + k] = f[k]
      BY <1>3, <2>1
    <3>2. \A k \in 1 .. w : 0 + k = k
      OBVIOUS
    <3> QED BY <1>3, <2>2, <3>1, <3>2
  <2>4. w <= Len(s)
    BY <1>2, <1>3, <2>1, <2>3
  <2>5. /\ t \in Seq(AllBytes) /\ Len(t) = Len(s) - w
        /\ \A k \in 1 .. Len(s) - w : t[k] = s[w + k]
    BY <2>2, <2>4, RestOf
  <2>6. \A i \in j + 1 .. n : b[i] \in w .. Len(s)
    <3> DEFINE T == {m \in 0 .. n : m >= j + 1 => b[m] >= w}
    <3>1. 0 \in T
      BY <1>2
    <3>2. ASSUME NEW m \in 1 .. n, m - 1 \in T PROVE m \in T
      <4>1. CASE m < j + 1
        BY <1>2, <4>1
      <4>2. CASE m = j + 1
        BY <1>2, <2>2, <2>3, <4>2
      <4>3. CASE m > j + 1
        <5>1. m \in j + 1 .. n /\ m - 1 \in j .. n /\ m \in j .. n /\ m - 1 >= j + 1
          BY <1>2, <4>3
        <5>2. b[m] = b[m - 1] + (Width + Len(ps[m])) /\ b[m - 1] >= w
          BY <1>3, <3>2, <5>1
        <5>3. Len(ps[m]) \in Nat /\ b[m - 1] \in Nat
          BY <1>3, <5>1 DEF Short
        <5>4. b[m] >= w
          BY <1>2, <2>2, <5>2, <5>3
        <5> QED BY <1>2, <5>4
      <4> QED BY <1>2, <4>1, <4>2, <4>3
    <3> HIDE DEF T
    <3>3. \A m \in 1 .. n : m - 1 \in T => m \in T
      BY <3>2
    <3>4. \A m \in 0 .. n : m \in T
      BY <1>2, <3>1, <3>3, UpTo
    <3>5. ASSUME NEW i \in j + 1 .. n PROVE b[i] \in w .. Len(s)
      <4>1. i \in 0 .. n /\ i \in j .. n /\ i >= j + 1
        BY <1>2
      <4>2. b[i] >= w /\ b[i] \in 0 .. Len(s)
        BY <1>3, <3>4, <4>1 DEF T
      <4> QED BY <2>2, <4>2
    <3> QED BY <3>5
  <2> HIDE DEF p, f, w, t
  <2>7. c \in [j + 1 .. n -> 0 .. Len(t)] /\ \A i \in j + 1 .. n : c[i] = b[i] - w
    <3>1. \A i \in j + 1 .. n : b[i] - w \in 0 .. Len(t)
      BY <1>2, <2>2, <2>5, <2>6
    <3> QED BY <3>1
  <2> HIDE DEF c
  <2>8. c[j + 1] = 0 /\ c[n] = Len(t)
    <3>1. n \in j + 1 .. n
      BY <1>2, <2>1
    <3> QED BY <1>2, <1>3, <2>1, <2>2, <2>3, <2>5, <2>7, <3>1
  <2>9. ASSUME NEW i \in (j + 1) + 1 .. n
        PROVE  /\ c[i] = c[i - 1] + (Width + Len(ps[i]))
               /\ \A k \in 1 .. Width + Len(ps[i]) : t[c[i - 1] + k] = FrameSize(ps[i])[k]
    <3> DEFINE x == b[i - 1]
               y == b[i]
               m == Width + Len(ps[i])
    <3>1. i \in j + 1 .. n /\ i - 1 \in j + 1 .. n /\ i \in 1 .. n
      BY <1>2
    <3>2. m \in Nat
      BY <1>2, <3>1 DEF Short
    <3>3. y = x + m /\ \A k \in 1 .. m : s[x + k] = FrameSize(ps[i])[k]
      BY <1>3, <3>1
    <3>4. c[i] = y - w /\ c[i - 1] = x - w /\ x \in w .. Len(s) /\ y \in w .. Len(s)
      BY <2>6, <2>7, <3>1
    <3> HIDE DEF x, y, m
    <3>5. \A k \in 1 .. m : (x - w) + k \in 1 .. Len(s) - w /\ w + ((x - w) + k) = x + k
      BY <1>2, <2>2, <3>2, <3>3, <3>4
    <3>6. \A k \in 1 .. m : t[(x - w) + k] = FrameSize(ps[i])[k]
      BY <2>5, <3>3, <3>5
    <3>7. y - w = (x - w) + m
      BY <1>2, <2>2, <3>2, <3>3, <3>4
    <3> QED BY <3>4, <3>6, <3>7 DEF m
  <2>10. Ends(c, t, ps, j + 1)
    BY <2>7, <2>8, <2>9 DEF Ends
  <2>11. Frames(t, ps, j + 1)
    BY <1>2, <2>1, <2>10 DEF Frames
  <2> QED BY <2>2, <2>3, <2>4, <2>11 DEF p, f, w, t
<1>5. CASE j = n
  BY <1>3, <1>5
<1>6. CASE j < n
  BY <1>2, <1>4, <1>6
<1> QED BY <1>2, <1>5, <1>6

Cuts == [acc : Seq(AllBytes), pkts : Seq(Seq(AllBytes))]

\* A size that can be read is a number.
LEMMA SizeOfType ==
    ASSUME NEW s \in Seq(AllBytes), Len(s) >= Width
    PROVE  SizeOf(s) \in Nat
<1>1. PICK V \in [0 .. Width -> Nat] : SizeOf(s) = V[Width]
  BY SizeOfIs
<1> QED BY <1>1, BaseAssumption

\* A round that finds a packet makes acc shorter; one that finds none is the last.
LEMMA CutOneType ==
    ASSUME NEW t \in Cuts
    PROVE  /\ CutOne(t) \in Cuts
           /\ ~Complete(t.acc) => CutOne(t) = t
           /\ Complete(t.acc) => Len(CutOne(t).acc) < Len(t.acc)
           /\ Len(t.acc) = 0 => ~Complete(t.acc)
<1>1. t.acc \in Seq(AllBytes) /\ t.pkts \in Seq(Seq(AllBytes)) /\ Width \in Nat \ {0}
      /\ Len(t.acc) \in Nat
  BY BaseAssumption DEF Cuts
<1>2. CASE ~Complete(t.acc)
  BY <1>2 DEF CutOne
<1>3. CASE Complete(t.acc)
  <2> DEFINE m == SizeOf(t.acc)
             end == Width + m
             rest == SubSeq(t.acc, end + 1, Len(t.acc))
             pkt == SubSeq(t.acc, Width + 1, end)
  <2>1. Len(t.acc) >= Width /\ Len(t.acc) - Width >= m
    BY <1>3 DEF Complete
  <2>2. m \in Nat
    BY <1>1, <2>1, SizeOfType
  <2> HIDE DEF m
  <2>3. end \in Nat /\ end > 0 /\ end <= Len(t.acc)
    BY <1>1, <2>1, <2>2
  <2>4. rest \in Seq(AllBytes) /\ Len(rest) = Len(t.acc) - end
    BY <1>1, <2>3, RestOf
  <2>5. pkt \in Seq(AllBytes)
    BY <1>1, <2>2, <2>3
  <2>6. Append(t.pkts, pkt) \in Seq(Seq(AllBytes))
    BY <1>1, <2>5
  <2>7. CutOne(t) = [acc |-> rest,
                     pkts |-> IF end = Width THEN t.pkts ELSE Append(t.pkts, pkt)]
    BY <1>3 DEF CutOne, m
  <2> HIDE DEF rest, pkt, end
  <2>8. CutOne(t) \in Cuts
    BY <1>1, <2>4, <2>6, <2>7 DEF Cuts
  <2>9. Len(CutOne(t).acc) < Len(t.acc)
    BY <1>1, <2>3, <2>4, <2>7
  <2>10. Len(t.acc) # 0
    BY <1>1, <2>1
  <2> QED BY <1>3, <2>8, <2>9, <2>10
<1> QED BY <1>2, <1>3

\* Of the packets ps some have been cut, and the others follow in t.acc and y.
Good(t, y, ps) ==
    /\ Frames(t.acc \o y, ps, Len(t.pkts))
    /\ \A k \in 1 .. Len(t.pkts) : t.pkts[k] = ps[k]

\* A round cuts the next packet, or none.
LEMMA CutOneGood ==
    ASSUME NEW t \in Cuts, NEW y \in Seq(AllBytes), NEW ps \in Seq(Short), Good(t, y, ps)
    PROVE  Good(CutOne(t), y, ps)
<1> DEFINE a == t.acc
           s == a \o y
           j == Len(t.pkts)
<1>1. a \in Seq(AllBytes) /\ t.pkts \in Seq(Seq(AllBytes)) /\ Width \in Nat \ {0}
      /\ Len(a) \in Nat /\ Len(y) \in Nat /\ j \in Nat
  BY BaseAssumption DEF Cuts
<1>2. CASE ~Complete(a)
  BY <1>2, CutOneType
<1>3. CASE Complete(a)
  <2> DEFINE p == ps[j + 1]
             f == FrameSize(p)
             w == Len(f)
             rest == SubSeq(s, w + 1, Len(s))
             b == SubSeq(a, w + 1, Len(a))
  <2>1. /\ s \in Seq(AllBytes) /\ Len(s) = Len(a) + Len(y)
        /\ \A k \in 1 .. Len(a) : s[k] = a[k]
        /\ \A k \in 1 .. Len(y) : s[Len(a) + k] = y[k]
    BY <1>1
  <2>2. Len(a) >= Width /\ Len(a) - Width >= SizeOf(a)
    BY <1>3 DEF Complete
  <2>3. Len(s) # 0
    BY <1>1, <2>1, <2>2
  <2>4. /\ j < Len(ps) /\ w <= Len(s) /\ \A k \in 1 .. w : s[k] = f[k]
        /\ Frames(rest, ps, j + 1)
    <3>1. Frames(s, ps, j)
      BY DEF Good
    <3> HIDE DEF s, j
    <3>2. IF Len(s) = 0 THEN j = Len(ps)
          ELSE /\ j < Len(ps)
               /\ LET g == FrameSize(ps[j + 1])
                  IN /\ Len(g) <= Len(s)
                     /\ \A k \in 1 .. Len(g) : s[k] = g[k]
                     /\ Frames(SubSeq(s, Len(g) + 1, Len(s)), ps, j + 1)
      BY <2>1, <3>1, FramesNext
    <3> QED BY <2>3, <3>2
  <2>5. j + 1 \in 1 .. Len(ps) /\ p \in Short
    BY <1>1, <2>4
  <2>6. p \in Seq(Bytes) /\ Len(p) < Power[Width] /\ Len(p) \in Nat /\ Len(p) # 0
    BY <2>5 DEF Short
  <2>7. /\ w = Width + Len(p)
        /\ \A k \in 1 .. Width : f[k] = Digits(Len(p))[k]
        /\ \A k \in 1 .. Len(p) : f[Width + k] = p[k]
    BY <2>6, FrameSizeIs
  <2> HIDE DEF s, p, f, w
  <2>8. \A k \in 1 .. Width : a[k] = Digits(Len(p))[k]
    <3>1. \A k \in 1 .. Width : k \in 1 .. Len(a) /\ k \in 1 .. w
      BY <1>1, <2>2, <2>6, <2>7
    <3> QED BY <2>1, <2>4, <2>7, <3>1
  <2>9. SizeOf(a) = Len(p)
    BY <1>1, <2>2, <2>6, <2>8, SizeOfDigits
  <2>10. w <= Len(a) /\ w \in Nat /\ w > 0 /\ w # Width
    BY <1>1, <2>2, <2>6, <2>7, <2>9
  <2>11. SubSeq(a, Width + 1, w) = p
    <3>1. Len(SubSeq(a, Width + 1, w)) = Len(p)
      BY <1>1, <2>6, <2>7, <2>10
    <3>2. ASSUME NEW k \in 1 .. Len(p) PROVE SubSeq(a, Width + 1, w)[k] = p[k]
      <4>1. /\ (Width + 1) + k - 1 = Width + k /\ Width + k \in 1 .. w
            /\ Width + k \in 1 .. Len(a) /\ k \in 1 .. (w - (Width + 1)) + 1
        BY <1>1, <2>6, <2>7, <2>10
      <4>2. SubSeq(a, Width + 1, w)[k] = a[Width + k]
        BY <1>1, <2>10, <4>1
      <4> QED BY <2>1, <2>4, <2>7, <4>1, <4>2
    <3>3. SubSeq(a, Width + 1, w) \in Seq(AllBytes) /\ p \in Seq(AllBytes)
      <4>1. p \in Seq(AllBytes)
        BY <2>6 DEF AllBytes
      <4> QED BY <1>1, <2>10, <4>1
    <3> DEFINE q == SubSeq(a, Width + 1, w)
    <3> HIDE DEF q
    <3>4. /\ q \in Seq(AllBytes) /\ p \in Seq(AllBytes) /\ Len(q) = Len(p)
          /\ \A k \in 1 .. Len(q) : q[k] = p[k]
      BY <3>1, <3>2, <3>3 DEF q
    <3>5. q = p
      BY <3>4, SeqEqual
    <3> QED BY <3>5 DEF q
  <2>12. CutOne(t) = [acc |-> b, pkts |-> Append(t.pkts, p)]
    BY <1>3, <2>7, <2>9, <2>10, <2>11 DEF CutOne
  <2>13. b \o y = rest
    <3>1. b \in Seq(AllBytes) /\ Len(b) = Len(a) - w
          /\ \A k \in 1 .. Len(a) - w : w + k \in 1 .. Len(a) /\ b[k] = a[w + k]
      BY <1>1, <2>10, RestOf
    <3>2. rest \in Seq(AllBytes) /\ Len(rest) = Len(s) - w
          /\ \A k \in 1 .. Len(s) - w : rest[k] = s[w + k]
      BY <2>1, <2>4, <2>10, RestOf
    <3> HIDE DEF a, b, rest
    <3>5. /\ b \o y \in Seq(AllBytes) /\ Len(b \o y) = Len(b) + Len(y)
          /\ \A k \in 1 .. Len(b) : (b \o y)[k] = b[k]
          /\ \A k \in 1 .. Len(y) : (b \o y)[Len(b) + k] = y[k]
      <4>1. b \in Seq(AllBytes)
        BY <3>1
      <4> QED BY <4>1, Joined
    <3>6. Len(b) + Len(y) = Len(rest) /\ Len(b) \in Nat /\ Len(rest) \in Nat
      BY <1>1, <2>1, <2>10, <3>1, <3>2
    <3>3. /\ b \o y \in Seq(AllBytes) /\ Len(b \o y) = Len(rest)
          /\ \A k \in 1 .. Len(b) : (b \o y)[k] = b[k]
          /\ \A k \in 1 .. Len(y) : (b \o y)[Len(b) + k] = y[k]
      BY <3>5, <3>6
    <3>4. ASSUME NEW k \in 1 .. Len(rest) PROVE (b \o y)[k] = rest[k]
      <4>1. CASE k <= Len(b)
        <5>1. k \in 1 .. Len(b) /\ w + k \in 1 .. Len(a) /\ k \in 1 .. Len(s) - w
          BY <1>1, <2>1, <2>10, <3>1, <3>2, <4>1
        <5> QED BY <2>1, <3>1, <3>2, <3>3, <5>1
      <4>2. CASE k > Len(b)
        <5> DEFINE i == k - Len(b)
        <5>1. /\ i \in 1 .. Len(y) /\ k = Len(b) + i /\ w + k = Len(a) + i
              /\ k \in 1 .. Len(s) - w
          BY <1>1, <2>1, <2>10, <3>1, <3>2, <4>2
        <5> HIDE DEF i
        <5>2. (b \o y)[k] = y[i] /\ rest[k] = s[Len(a) + i]
          BY <3>2, <3>3, <5>1
        <5> QED BY <2>1, <5>1, <5>2
      <4> QED BY <3>6, <4>1, <4>2
    <3> DEFINE q == b \o y
    <3> HIDE DEF q
    <3>7. /\ q \in Seq(AllBytes) /\ rest \in Seq(AllBytes) /\ Len(q) = Len(rest)
          /\ \A k \in 1 .. Len(q) : q[k] = rest[k]
      BY <3>2, <3>3, <3>4 DEF q
    <3>8. q = rest
      BY <3>7, SeqEqual
    <3> QED BY <3>8 DEF q
  <2>14. /\ Len(Append(t.pkts, p)) = j + 1
         /\ \A k \in 1 .. j + 1 : Append(t.pkts, p)[k] = ps[k]
    <3>1. Len(Append(t.pkts, p)) = j + 1 /\ Append(t.pkts, p)[j + 1] = p
          /\ \A k \in 1 .. j : Append(t.pkts, p)[k] = t.pkts[k]
      BY <1>1
    <3>2. \A k \in 1 .. j : t.pkts[k] = ps[k]
      BY DEF Good
    <3>3. \A k \in 1 .. j + 1 : k = j + 1 \/ k \in 1 .. j
      BY <1>1
    <3> QED BY <3>1, <3>2, <3>3 DEF p
  <2> HIDE DEF b, rest, j
  <2>15. CutOne(t).acc \o y = rest /\ CutOne(t).pkts = Append(t.pkts, p)
    BY <2>12, <2>13
  <2> QED BY <2>4, <2>14, <2>15 DEF Good
<1> QED BY <1>2, <1>3

\* takeSize goes on until nothing complete is left in acc.
LEMMA TakeSizeIs ==
    ASSUME NEW t \in Cuts, NEW y \in Seq(AllBytes), NEW ps \in Seq(Short), Good(t, y, ps)
    PROVE  /\ TakeSize(t) \in Cuts
           /\ Good(TakeSize(t), y, ps)
           /\ ~Complete(TakeSize(t).acc)
<1> DEFINE N == Len(t.acc)
           F == [n \in 1 .. N |-> [c \in Cuts |-> CutOne(c)]]
           Is(f) == f = [n \in 0 .. N |-> IF n = 0 THEN t ELSE CutOne(f[n - 1])]
<1>1. N \in Nat
  BY DEF Cuts
<1>2. F \in [1 .. N -> [Cuts -> Cuts]]
  BY CutOneType
<1>3. \A n \in 1 .. N, c \in Cuts : F[n][c] = CutOne(c)
  OBVIOUS
<1> HIDE DEF F
<1>4. PICK L \in [0 .. N -> Cuts] : IsLoop(L, t, F, N)
  BY <1>1, <1>2, LoopIs
<1>5. L[0] = t /\ \A n \in 1 .. N : L[n] = CutOne(L[n - 1])
  <2>1. \A n \in 1 .. N : n - 1 \in 0 .. N
    BY <1>1
  <2> QED BY <1>3, <1>4, <2>1 DEF IsLoop
<1>6. Is(L)
  <2>1. ASSUME NEW n \in 0 .. N PROVE L[n] = IF n = 0 THEN t ELSE CutOne(L[n - 1])
    <3>1. n # 0 => n \in 1 .. N
      BY <1>1
    <3> QED BY <1>5, <3>1
  <2> QED BY <1>4, <2>1
<1>7. PICK f : Is(f) /\ TakeSize(t) = f[N]
  BY <1>6 DEF TakeSize
<1>8. \A n \in 0 .. N : f[n] = IF n = 0 THEN t ELSE CutOne(f[n - 1])
  BY <1>7
<1> DEFINE T == {n \in 0 .. N : /\ f[n] \in Cuts /\ Good(f[n], y, ps)
                                /\ ~Complete(f[n].acc) \/ Len(f[n].acc) <= N - n}
<1>9. 0 \in T
  BY <1>1, <1>8
<1>10. ASSUME NEW n \in 1 .. N, n - 1 \in T PROVE n \in T
  <2> DEFINE c == f[n - 1]
  <2>1. n \in 0 .. N /\ n # 0 /\ n \in Nat /\ n <= N
    BY <1>1
  <2>2. f[n] = CutOne(c)
    BY <1>8, <2>1
  <2>3. /\ c \in Cuts /\ Good(c, y, ps)
        /\ ~Complete(c.acc) \/ Len(c.acc) <= N - (n - 1)
    BY <1>10
  <2> HIDE DEF c
  <2>4. CutOne(c) \in Cuts /\ Good(CutOne(c), y, ps)
    BY <2>3, CutOneType, CutOneGood
  <2>5. ~Complete(CutOne(c).acc) \/ Len(CutOne(c).acc) <= N - n
    <3>1. CASE ~Complete(c.acc)
      BY <2>3, <3>1, CutOneType
    <3>2. CASE Complete(c.acc)
      <4>1. Len(CutOne(c).acc) < Len(c.acc) /\ Len(c.acc) <= N - (n - 1)
        BY <2>3, <3>2, CutOneType
      <4>2. Len(CutOne(c).acc) \in Nat /\ Len(c.acc) \in Nat
        BY <2>3, <2>4 DEF Cuts
      <4> QED BY <1>1, <2>1, <4>1, <4>2
    <3> QED BY <3>1, <3>2
  <2> QED BY <2>1, <2>2, <2>4, <2>5
<1> HIDE DEF T
<1>11. \A n \in 1 .. N : n - 1 \in T => n \in T
  BY <1>10
<1>12. \A n \in 0 .. N : n \in T
  BY <1>1, <1>9, <1>11, UpTo
<1> DEFINE e == f[N]
<1>13. e \in Cuts /\ Good(e, y, ps) /\ (~Complete(e.acc) \/ Len(e.acc) <= N - N)
  BY <1>1, <1>12 DEF T
<1> HIDE DEF e
<1>14. ~Complete(e.acc)
  <2>1. Len(e.acc) \in Nat
    BY <1>13 DEF Cuts
  <2>2. Len(e.acc) <= N - N => Len(e.acc) = 0
    BY <1>1, <2>1
  <2> QED BY <1>13, <2>2, CutOneType
<1> QED BY <1>7, <1>13, <1>14 DEF e

-------------------------------------------------------------------------------
(* The inductive invariant.  Under the size prefix, what is on its way is the *)
(* frames of the packets not yet returned, and acc holds no complete one;  *)
(* under SLIP, the decoder will make the rest out of what is on its way.   *)

Sized ==
    framing = "size" =>
        /\ accepted \in Seq(Short)
        /\ alive
        /\ ~Complete(acc)
        /\ Good([acc |-> acc, pkts |-> got], wire \o out, accepted)
Slipped ==
    framing = "slip" =>
        /\ acc = <<>>
        /\ Rests(TakeSlip(Decoder, wire \o out))
        /\ TakeSlip(Decoder, wire \o out).pkts = accepted
\* The types that a step keeps by itself; that no packet is empty follows from
\* what the packets are.
Typed ==
    /\ framing \in Framings
    /\ out \in Seq(AllBytes) /\ wire \in Seq(AllBytes) /\ acc \in Seq(AllBytes)
    /\ slip \in [open : BOOLEAN, esc : BOOLEAN, bytes : Seq(AllBytes)]
    /\ got \in Seq(Seq(AllBytes)) /\ alive \in BOOLEAN
    /\ accepted \in Seq(Packets)
IInv == Typed /\ Sized /\ Slipped

\* Nothing has been sent; what a receiver finds is noise.
LEMMA InitHolds == Init => IInv
<1> SUFFICES ASSUME Init PROVE IInv
  OBVIOUS
<1>1. /\ framing \in Framings /\ out = <<>> /\ acc = <<>> /\ got = <<>> /\ alive = TRUE
      /\ accepted = <<>> /\ slip = [open |-> FALSE, esc |-> FALSE, bytes |-> <<>>]
      /\ wire \in IF framing = "slip" THEN Noise ELSE {<<>>}
  BY DEF Init
<1>2. wire \in Seq(AllBytes)
  <2>1. Seq(Bytes \ {END}) \subseteq Seq(AllBytes)
    BY DEF AllBytes
  <2>2. wire \in Noise \/ wire = <<>>
    BY <1>1
  <2>3. Noise \subseteq Seq(AllBytes) /\ <<>> \in Seq(AllBytes)
    BY <2>1, NoiseAssumption
  <2> HIDE DEF AllBytes
  <2> QED BY <2>2, <2>3
<1>3. Typed
  BY <1>1, <1>2 DEF Typed
<1>4. Sized
  <2> SUFFICES ASSUME framing = "size" PROVE Sized
    BY DEF Sized
  <2>1. wire = <<>> /\ wire \o out = <<>> /\ acc \o (wire \o out) = <<>>
    BY <1>1
  <2>2. <<>> \in Seq(Short) /\ Len(<<>>) = 0
    OBVIOUS
  <2>3. ~Complete(<<>>)
    <3>1. [acc |-> <<>>, pkts |-> <<>>] \in Cuts
      BY DEF Cuts
    <3> QED BY <2>2, <3>1, CutOneType
  <2>4. Ends([i \in 0 .. 0 |-> 0], <<>>, <<>>, 0)
    BY <2>2 DEF Ends
  <2>5. Frames(<<>>, <<>>, 0)
    BY <2>2, <2>4 DEF Frames
  <2>6. Good([acc |-> acc, pkts |-> got], wire \o out, accepted)
    BY <1>1, <2>1, <2>2, <2>5 DEF Good
  <2> QED BY <1>1, <2>2, <2>3, <2>6 DEF Sized
<1>5. Slipped
  <2> SUFFICES ASSUME framing = "slip" PROVE Slipped
    BY DEF Slipped
  <2>1. wire \o out = wire
    BY <1>1, <1>2
  <2>2. Decoder = [open |-> FALSE, esc |-> FALSE, bytes |-> <<>>, pkts |-> <<>>, alive |-> TRUE]
    BY <1>1 DEF Decoder
  <2>3. Decoder \in Decoders /\ Rests(Decoder)
    BY <2>2 DEF Decoders, Rests
  <2>4. \A n \in 1 .. Len(wire) : wire[n] # END
    <3>1. wire \in Seq(Bytes \ {END})
      BY <1>1, NoiseAssumption
    <3> QED BY <3>1
  <2>5. \A n \in 1 .. Len(wire) : SlipByte(Decoder, wire[n]) = Decoder
    BY <2>2, <2>4 DEF SlipByte
  <2>6. TakeSlip(Decoder, wire) = Decoder
    BY <1>2, <2>3, <2>5, TakeSlipSame
  <2> QED BY <1>1, <2>1, <2>2, <2>3, <2>6 DEF Slipped
<1> QED BY <1>3, <1>4, <1>5 DEF IInv

\* What is taken off the front of one sequence and put behind another is not lost.
LEMMA MoveFront ==
    ASSUME NEW S, NEW s \in Seq(S), NEW n \in 0 .. Len(s)
    PROVE  /\ SubSeq(s, 1, n) \in Seq(S) /\ SubSeq(s, n + 1, Len(s)) \in Seq(S)
           /\ SubSeq(s, 1, n) \o SubSeq(s, n + 1, Len(s)) = s
<1>1. /\ 1 \in 1 .. Len(s) + 1 /\ n \in 1 - 1 .. Len(s) /\ Len(s) \in n .. Len(s)
      /\ Len(s) \in Nat /\ SubSeq(s, 1, Len(s)) = s
  OBVIOUS
<1>2. SubSeq(s, 1, n) \o SubSeq(s, n + 1, Len(s)) = SubSeq(s, 1, Len(s))
  BY <1>1, ConcatAdjacentSubSeq
<1>3. SubSeq(s, 1, n) \in Seq(S) /\ SubSeq(s, n + 1, Len(s)) \in Seq(S)
  BY <1>1
<1> QED BY <1>1, <1>2, <1>3

\* The history is of packets, and the decoder is one.
LEMMA TypesOf ==
    ASSUME Typed
    PROVE  /\ Decoder \in Decoders
           /\ [acc |-> acc, pkts |-> got] \in Cuts
           /\ wire \o out \in Seq(AllBytes)
           /\ Len(out) \in Nat /\ Len(wire) \in Nat
<1>1. /\ out \in Seq(AllBytes) /\ wire \in Seq(AllBytes) /\ acc \in Seq(AllBytes)
      /\ slip \in [open : BOOLEAN, esc : BOOLEAN, bytes : Seq(AllBytes)]
      /\ got \in Seq(Seq(AllBytes)) /\ alive \in BOOLEAN
  BY DEF Typed
<1>2. Decoder \in Decoders
  BY <1>1 DEF Decoder, Decoders
<1>3. [acc |-> acc, pkts |-> got] \in Cuts
  BY <1>1 DEF Cuts
<1>4. wire \o out \in Seq(AllBytes)
  BY <1>1
<1> QED BY <1>1, <1>2, <1>3, <1>4

\* sendTo puts one more frame behind the others.
LEMMA SendHolds ==
    ASSUME IInv, NEW p \in Packets, Send(p)
    PROVE  IInv'
<1> DEFINE f == IF framing = "slip" THEN FrameSlip(p) ELSE FrameSize(p)
           rest == wire \o out
<1>1. /\ Typed /\ Sized /\ Slipped /\ framing \in {"size", "slip"}
      /\ Decoder \in Decoders /\ rest \in Seq(AllBytes)
  BY FramingsAssumption, TypesOf DEF IInv, Typed
<1>2. /\ out' = out \o f /\ accepted' = Append(accepted, p) /\ alive /\ ~TooLong(p)
      /\ UNCHANGED <<framing, wire, acc, slip, got, alive>>
  BY DEF Send
<1>3. p \in Seq(Bytes) /\ p # <<>> /\ p \in Packets
  BY PacketsAssumption
<1>4. f \in Seq(AllBytes)
  <2>1. FrameSize(p) \in Seq(AllBytes)
    BY <1>3, FrameSizeIs
  <2>2. framing = "slip" => FrameSlip(p) \in Seq(AllBytes)
    BY <1>1, <1>3, FrameSlipDecodes DEF Slipped
  <2> QED BY <2>1, <2>2
<1>5. (wire \o out)' = rest \o f
  <2>1. out \in Seq(AllBytes) /\ wire \in Seq(AllBytes)
    BY <1>1 DEF Typed
  <2> HIDE DEF f
  <2>2. (wire \o out) \o f = wire \o (out \o f)
    BY <1>4, <2>1, ConcatAssociative
  <2> QED BY <1>2, <2>2
<1>6. Decoder' = Decoder
  BY <1>2 DEF Decoder
<1>7. Typed'
  <2>1. out \in Seq(AllBytes) /\ accepted \in Seq(Packets)
    BY <1>1 DEF Typed
  <2> HIDE DEF f
  <2>2. out' \in Seq(AllBytes) /\ accepted' \in Seq(Packets)
    BY <1>2, <1>3, <1>4, <2>1
  <2> QED BY <1>1, <1>2, <2>2 DEF Typed
<1> HIDE DEF f
<1>8. Sized'
  <2> SUFFICES ASSUME framing = "size" PROVE Sized'
    BY <1>2 DEF Sized
  <2> DEFINE t == [acc |-> acc, pkts |-> got]
  <2>1. /\ accepted \in Seq(Short) /\ ~Complete(acc) /\ Good(t, rest, accepted)
    BY <1>1 DEF Sized
  <2>2. p \in Short /\ f = FrameSize(p)
    <3>1. Len(p) \in Nat /\ Power[Width] \in Nat
      BY <1>3, PowerIs, BaseAssumption
    <3>2. ~(Len(p) >= Power[Width])
      BY <1>2 DEF TooLong
    <3> QED BY <1>3, <3>1, <3>2 DEF Short, f
  <2>3. acc \in Seq(AllBytes) /\ got \in Seq(Seq(AllBytes)) /\ Len(got) \in Nat
    BY <1>1 DEF Typed
  <2>4. Frames(acc \o rest, accepted, Len(got)) /\ acc \o rest \in Seq(AllBytes)
        /\ \A k \in 1 .. Len(got) : got[k] = accepted[k]
    BY <1>1, <2>1, <2>3 DEF Good
  <2>5. Frames((acc \o rest) \o f, Append(accepted, p), Len(got))
    BY <2>1, <2>2, <2>4, FramesMore
  <2>6. (acc \o rest) \o f = acc \o (rest \o f)
    <3> HIDE DEF rest
    <3>1. rest \in Seq(AllBytes)
      BY <1>1
    <3> QED BY <1>4, <2>3, <3>1, ConcatAssociative
  <2>7. \A k \in 1 .. Len(got) : got[k] = Append(accepted, p)[k]
    <3>1. Len(got) <= Len(accepted)
      BY <2>4 DEF Frames
    <3>2. \A k \in 1 .. Len(got) : k \in 1 .. Len(accepted)
      BY <2>1, <2>3, <3>1
    <3> QED BY <2>1, <2>4, <3>2
  <2>8. Good(t, rest \o f, Append(accepted, p))
    BY <2>5, <2>6, <2>7 DEF Good
  <2>9. Append(accepted, p) \in Seq(Short)
    BY <2>1, <2>2
  <2>10. Good([acc |-> acc, pkts |-> got], wire \o out, accepted)'
    BY <1>2, <1>5, <2>8
  <2> QED BY <1>2, <2>1, <2>9, <2>10 DEF Sized
<1>9. Slipped'
  <2> SUFFICES ASSUME framing = "slip" PROVE Slipped'
    BY <1>2 DEF Slipped
  <2> DEFINE t == TakeSlip(Decoder, rest)
  <2>1. acc = <<>> /\ Rests(t) /\ t.pkts = accepted
    BY <1>1 DEF Slipped
  <2>2. f = FrameSlip(p)
    BY DEF f
  <2>3. TakeSlip(Decoder, rest \o f) = TakeSlip(t, f)
    BY <1>1, <1>4, TakeSlipOver
  <2> HIDE DEF t, rest
  <2>4. Rests(TakeSlip(t, f)) /\ TakeSlip(t, f).pkts = Append(accepted, p)
    BY <1>3, <2>1, <2>2, FrameSlipDecodes
  <2> QED BY <1>2, <1>5, <1>6, <2>1, <2>3, <2>4 DEF Slipped, Rests
<1> QED BY <1>7, <1>8, <1>9 DEF IInv

\* flush moves bytes on their way.
LEMMA FlushHolds ==
    ASSUME IInv, NEW n \in 1 .. Len(out), Flush(n)
    PROVE  IInv'
<1>1. /\ Typed /\ Sized /\ Slipped
      /\ out \in Seq(AllBytes) /\ wire \in Seq(AllBytes) /\ Len(out) \in Nat
  BY TypesOf DEF IInv, Typed
<1>2. /\ wire' = wire \o SubSeq(out, 1, n) /\ out' = SubSeq(out, n + 1, Len(out))
      /\ UNCHANGED <<framing, acc, slip, got, alive, accepted>>
  BY DEF Flush
<1>3. n \in 0 .. Len(out)
  BY <1>1
<1> DEFINE x == SubSeq(out, 1, n)
           y == SubSeq(out, n + 1, Len(out))
<1>4. x \in Seq(AllBytes) /\ y \in Seq(AllBytes) /\ x \o y = out
  BY <1>1, <1>3, MoveFront
<1> HIDE DEF x, y
<1>5. wire' = wire \o x /\ out' = y
  BY <1>2 DEF x, y
<1>6. (wire \o out)' = wire \o out
  <2>1. (wire \o x) \o y = wire \o (x \o y)
    <3>1. wire \in Seq(AllBytes) /\ x \in Seq(AllBytes) /\ y \in Seq(AllBytes)
      BY <1>1, <1>4
    <3> QED BY <3>1, ConcatAssociative
  <2> QED BY <1>4, <1>5, <2>1
<1>7. Typed'
  <2>1. wire' \in Seq(AllBytes) /\ out' \in Seq(AllBytes)
    BY <1>1, <1>4, <1>5
  <2> QED BY <1>1, <1>2, <2>1 DEF Typed
<1>8. Decoder' = Decoder
  BY <1>2 DEF Decoder
<1>9. Sized' /\ Slipped'
  BY <1>1, <1>2, <1>6, <1>8 DEF Sized, Slipped
<1> QED BY <1>7, <1>9 DEF IInv

\* poll cuts the packets that are complete.
LEMMA RecvHolds ==
    ASSUME IInv, NEW n \in 1 .. Len(wire), Recv(n)
    PROVE  IInv'
<1> DEFINE x == SubSeq(wire, 1, n)
           z == SubSeq(wire, n + 1, Len(wire))
           y == z \o out
<1>1. /\ Typed /\ Sized /\ Slipped /\ framing \in {"size", "slip"}
      /\ Decoder \in Decoders
      /\ out \in Seq(AllBytes) /\ wire \in Seq(AllBytes) /\ Len(wire) \in Nat
      /\ acc \in Seq(AllBytes) /\ got \in Seq(Seq(AllBytes))
  BY FramingsAssumption, TypesOf DEF IInv, Typed
<1>2. n \in 0 .. Len(wire)
  BY <1>1
<1>3. x \in Seq(AllBytes) /\ z \in Seq(AllBytes) /\ x \o z = wire
  BY <1>1, <1>2, MoveFront
<1>4. wire' = z /\ UNCHANGED <<framing, out, accepted>>
  BY DEF Recv
<1>5. framing = "slip" =>
        /\ acc' = <<>>
        /\ slip' = [open |-> TakeSlip(Decoder, acc \o x).open,
                    esc |-> TakeSlip(Decoder, acc \o x).esc,
                    bytes |-> TakeSlip(Decoder, acc \o x).bytes]
        /\ got' = TakeSlip(Decoder, acc \o x).pkts
        /\ alive' = TakeSlip(Decoder, acc \o x).alive
  BY DEF Recv
<1>6. framing = "size" =>
        /\ acc' = TakeSize([acc |-> acc \o x, pkts |-> got]).acc
        /\ got' = TakeSize([acc |-> acc \o x, pkts |-> got]).pkts
        /\ UNCHANGED <<slip, alive>>
  BY DEF Recv
<1> HIDE DEF x, z
<1>7. y \in Seq(AllBytes) /\ (wire \o out)' = y /\ wire \o out = x \o y
  <2>1. (x \o z) \o out = x \o (z \o out)
    <3>1. x \in Seq(AllBytes) /\ z \in Seq(AllBytes) /\ out \in Seq(AllBytes)
      BY <1>1, <1>3
    <3> QED BY <3>1, ConcatAssociative
  <2> QED BY <1>1, <1>3, <1>4, <2>1
<1> HIDE DEF y
<1>8. CASE framing = "size"
  <2> DEFINE t == [acc |-> acc \o x, pkts |-> got]
             u == TakeSize(t)
  <2>1. accepted \in Seq(Short) /\ alive
        /\ Good([acc |-> acc, pkts |-> got], x \o y, accepted)
    BY <1>1, <1>7, <1>8 DEF Sized
  <2>2. t \in Cuts
    BY <1>1, <1>3 DEF Cuts
  <2>3. Good(t, y, accepted)
    <3>1. (acc \o x) \o y = acc \o (x \o y)
      <4>1. acc \in Seq(AllBytes) /\ x \in Seq(AllBytes) /\ y \in Seq(AllBytes)
        BY <1>1, <1>3, <1>7
      <4> QED BY <4>1, ConcatAssociative
    <3> QED BY <2>1, <3>1 DEF Good
  <2> HIDE DEF t
  <2>4. u \in Cuts /\ Good(u, y, accepted) /\ ~Complete(u.acc)
    BY <1>7, <2>1, <2>2, <2>3, TakeSizeIs
  <2>5. acc' = u.acc /\ got' = u.pkts /\ UNCHANGED <<slip, alive>>
    BY <1>6, <1>8 DEF t
  <2> HIDE DEF u
  <2>6. u = [acc |-> acc', pkts |-> got'] /\ acc' \in Seq(AllBytes)
        /\ got' \in Seq(Seq(AllBytes))
    BY <2>4, <2>5 DEF Cuts
  <2>7. Typed'
    BY <1>1, <1>3, <1>4, <2>5, <2>6 DEF Typed
  <2>8. Good([acc |-> acc', pkts |-> got'], (wire \o out)', accepted') /\ ~Complete(acc')
    BY <1>4, <1>7, <2>4, <2>5, <2>6
  <2>9. Sized'
    BY <1>4, <2>1, <2>5, <2>8 DEF Sized
  <2>10. Slipped'
    BY <1>4, <1>8 DEF Slipped
  <2> QED BY <2>7, <2>9, <2>10 DEF IInv
<1>9. CASE framing = "slip"
  <2> DEFINE u == TakeSlip(Decoder, x)
  <2>1. acc = <<>> /\ Rests(TakeSlip(Decoder, x \o y)) /\ TakeSlip(Decoder, x \o y).pkts = accepted
    BY <1>1, <1>7, <1>9 DEF Slipped
  <2>2. acc \o x = x
    BY <1>3, <2>1
  <2>3. u \in Decoders /\ TakeSlip(Decoder, x \o y) = TakeSlip(u, y)
    BY <1>1, <1>3, <1>7, TakeSlipOver
  <2>4. /\ acc' = <<>> /\ slip' = [open |-> u.open, esc |-> u.esc, bytes |-> u.bytes]
        /\ got' = u.pkts /\ alive' = u.alive
    BY <1>5, <1>9, <2>2
  <2> HIDE DEF u
  <2>5. Decoder' = u
    BY <2>3, <2>4 DEF Decoder, Decoders
  <2>6. Typed'
    BY <1>1, <1>3, <1>4, <2>3, <2>4 DEF Typed, Decoders
  <2>7. Slipped'
    BY <1>4, <1>7, <2>1, <2>3, <2>4, <2>5 DEF Slipped, Rests
  <2>8. Sized'
    BY <1>4, <1>9 DEF Sized
  <2> QED BY <2>6, <2>7, <2>8 DEF IInv
<1> QED BY <1>1, <1>8, <1>9

\* Every step keeps the invariant.
LEMMA NextHolds == IInv /\ [Next]_vars => IInv'
<1> SUFFICES ASSUME IInv, [Next]_vars PROVE IInv'
  OBVIOUS
<1>1. CASE \E p \in Packets : Send(p)
  BY <1>1, SendHolds
<1>2. CASE \E n \in 1 .. Len(out) : Flush(n)
  BY <1>2, FlushHolds
<1>3. CASE \E n \in 1 .. Len(wire) : Recv(n)
  BY <1>3, RecvHolds
<1>4. CASE UNCHANGED vars
  <2>1. Decoder' = Decoder /\ Typed'
    BY <1>4 DEF Decoder, vars, IInv, Typed
  <2> QED BY <1>4, <2>1 DEF vars, IInv, Sized, Slipped
<1> QED BY <1>1, <1>2, <1>3, <1>4 DEF Next

\* A sequence whose every element is another's is a prefix of it.
LEMMA PrefixIs ==
    ASSUME NEW S, NEW s \in Seq(S), NEW R, NEW t \in Seq(R), Extends(s, t)
    PROVE  IsPrefix(s, t)
<1> DEFINE u == SubSeq(t, 1, Len(s))
<1>1. Len(s) <= Len(t) /\ Len(s) \in Nat /\ Len(t) \in Nat
      /\ \A k \in 1 .. Len(s) : k \in 1 .. Len(t) /\ t[k] = s[k]
  BY DEF Extends
<1>2. /\ u \in Seq(R) /\ Len(u) = Len(s)
      /\ \A k \in 1 .. Len(s) : u[k] = t[k]
  BY <1>1
<1> HIDE DEF u
<1>3. u = s
  <2>1. s \in Seq(S \cup R) /\ u \in Seq(S \cup R) /\ \A k \in 1 .. Len(u) : u[k] = s[k]
    BY <1>1, <1>2
  <2> QED BY <1>2, <2>1, SeqEqual
<1>4. SubSeq(s, 1, Len(s)) = s
  OBVIOUS
<1> QED BY <1>1, <1>3, <1>4 DEF IsPrefix, u

\* What the invariant says of the packets that were returned.
LEMMA InvMeans ==
    ASSUME IInv
    PROVE  Faithful /\ Prompt
<1>1. /\ Typed /\ Sized /\ Slipped /\ framing \in {"size", "slip"}
      /\ Decoder \in Decoders /\ wire \o out \in Seq(AllBytes)
      /\ got \in Seq(Seq(AllBytes)) /\ accepted \in Seq(Packets) /\ acc \in Seq(AllBytes)
  BY FramingsAssumption, TypesOf DEF IInv, Typed
<1>2. CASE framing = "size"
  <2>1. /\ accepted \in Seq(Short) /\ alive /\ ~Complete(acc)
        /\ Frames(acc \o (wire \o out), accepted, Len(got))
        /\ \A k \in 1 .. Len(got) : got[k] = accepted[k]
    BY <1>1, <1>2 DEF Sized, Good
  <2>2. Len(got) <= Len(accepted)
    BY <2>1 DEF Frames
  <2>3. Extends(got, accepted)
    BY <2>1, <2>2 DEF Extends
  <2>4. ASSUME out = <<>>, wire = <<>> PROVE got = accepted /\ acc = <<>>
    <3>1. Frames(acc, accepted, Len(got))
      <4>1. acc \o (wire \o out) = acc
        BY <1>1, <2>4
      <4> QED BY <2>1, <4>1
    <3>2. Len(acc) = 0
      <4>1. ASSUME Len(acc) # 0 PROVE FALSE
        <5> DEFINE j == Len(got)
                   p == accepted[j + 1]
                   f == FrameSize(p)
        <5>1. /\ j < Len(accepted) /\ Len(f) <= Len(acc)
              /\ \A k \in 1 .. Len(f) : acc[k] = f[k]
          BY <1>1, <2>1, <3>1, <4>1, FramesNext
        <5>2. j + 1 \in 1 .. Len(accepted)
          BY <1>1, <5>1
        <5>3. p \in Seq(Bytes) /\ Len(p) < Power[Width] /\ Len(p) \in Nat
          BY <2>1, <5>2 DEF Short
        <5>4. /\ Len(f) = Width + Len(p) /\ Width \in Nat
              /\ \A k \in 1 .. Width : f[k] = Digits(Len(p))[k]
          BY <5>3, FrameSizeIs, BaseAssumption
        <5> HIDE DEF j, p, f
        <5>5. Len(acc) >= Width /\ Len(acc) - Width >= Len(p) /\ Len(acc) \in Nat
          BY <1>1, <5>1, <5>3, <5>4
        <5>6. \A k \in 1 .. Width : acc[k] = Digits(Len(p))[k]
          BY <5>1, <5>3, <5>4
        <5>7. SizeOf(acc) = Len(p)
          BY <1>1, <5>3, <5>5, <5>6, SizeOfDigits
        <5> QED BY <2>1, <5>5, <5>7 DEF Complete
      <4> QED BY <4>1
    <3>3. acc = <<>>
      BY <1>1, <3>2
    <3>4. Len(got) = Len(accepted)
      BY <1>1, <2>1, <3>1, <3>2, FramesNext
    <3>5. got = accepted
      <4> DEFINE R == Seq(AllBytes) \cup Packets
      <4>1. got \in Seq(R) /\ accepted \in Seq(R)
        BY <1>1
      <4> HIDE DEF R
      <4> QED BY <2>1, <3>4, <4>1, SeqEqual
    <3> QED BY <3>3, <3>5
  <2>5. Faithful
    BY <1>1, <2>3, PrefixIs DEF Faithful
  <2> QED BY <2>1, <2>4, <2>5 DEF Prompt
<1>3. CASE framing = "slip"
  <2> DEFINE t == TakeSlip(Decoder, wire \o out)
  <2>1. acc = <<>> /\ Rests(t) /\ t.pkts = accepted
    BY <1>1, <1>3 DEF Slipped
  <2>2. Decoder.pkts = got /\ Decoder.alive = alive
    BY DEF Decoder
  <2>3. Extends(got, accepted) /\ alive
    <3>1. Extends(Decoder.pkts, t.pkts) /\ (t.alive => Decoder.alive)
      BY <1>1, TakeSlipGrows
    <3> QED BY <2>1, <2>2, <3>1 DEF Rests
  <2>4. ASSUME out = <<>>, wire = <<>> PROVE got = accepted
    <3>1. t = Decoder
      BY <1>1, <2>4, TakeSlipFew
    <3> QED BY <2>1, <2>2, <3>1
  <2>5. Faithful
    BY <1>1, <2>3, PrefixIs DEF Faithful
  <2> QED BY <2>1, <2>3, <2>4, <2>5 DEF Prompt
<1> QED BY <1>1, <1>2, <1>3

-------------------------------------------------------------------------------
(* The theorems.                                                           *)

\* The invariant holds.
LEMMA Invariant == Spec => []IInv
BY InitHolds, NextHolds, PTL DEF Spec

\* Types: whatever is sent, and however the stream is cut, poll never returns an
\* empty packet, neither for a size of zero nor for the END between two frames.
THEOREM FramingTypes == Spec => []TypeOK
<1>1. IInv => TypeOK
  <2> SUFFICES ASSUME IInv PROVE TypeOK
    OBVIOUS
  <2>1. Typed /\ IsPrefix(got, accepted)
    BY InvMeans DEF IInv, Faithful
  <2>2. got \in Seq(Seq(AllBytes)) /\ accepted \in Seq(Packets)
    BY <2>1 DEF Typed
  <2>3. got = SubSeq(accepted, 1, Len(got)) /\ Len(got) <= Len(accepted)
    <3>1. SubSeq(got, 1, Len(got)) = got
      BY <2>2
    <3> QED BY <2>1, <3>1 DEF IsPrefix
  <2>4. \A k \in 1 .. Len(got) : got[k] \in Seq(AllBytes) \ {<<>>}
    <3> TAKE k \in 1 .. Len(got)
    <3>1. k \in 1 .. Len(accepted) /\ got[k] = accepted[k]
      BY <2>2, <2>3
    <3>2. accepted[k] \in Packets
      BY <2>2, <3>1
    <3> QED BY <2>2, <3>1, <3>2, PacketsAssumption
  <2>5. got \in Seq(Seq(AllBytes) \ {<<>>})
    <3>1. ASSUME NEW S, \A k \in 1 .. Len(got) : got[k] \in S PROVE got \in Seq(S)
      BY <2>2, <3>1
    <3> QED BY <2>4, <3>1
  <2> QED BY <2>1, <2>5 DEF Typed, TypeOK
<1> QED BY <1>1, Invariant, PTL

\* However the kernel cuts the stream, poll returns the packets that sendTo took,
\* unchanged, in order and each once, under both framings.
THEOREM FramingFaithful == Spec => []Faithful
<1>1. IInv => Faithful
  BY InvMeans
<1> QED BY <1>1, Invariant, PTL

\* Nothing waits in acc for bytes that never come, and takeSlip drops nobody who
\* speaks SLIP.
THEOREM FramingPrompt == Spec => []Prompt
<1>1. IInv => Prompt
  BY InvMeans
<1> QED BY <1>1, Invariant, PTL
===============================================================================
