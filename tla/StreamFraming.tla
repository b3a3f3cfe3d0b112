----------------------------- MODULE StreamFraming ----------------------------
(***************************************************************************)
(* One direction of one TCP connection: TcpPort::sendTo frames a packet    *)
(* into Conn::out, flush hands any number of its bytes to the kernel, poll *)
(* takes any number of arrived bytes into Conn::acc and cuts out every     *)
(* complete packet.  A packet must survive every way of cutting the stream.*)
(*                                                                         *)
(* The size prefix has Width digits to the base Base, 4 and 256 in the     *)
(* code; the model keeps both so that a run can reach the limit.           *)
(***************************************************************************)
EXTENDS Integers, Sequences, SequencesExt

CONSTANTS
    Base, Width,    \* bytes of the size prefix
    Bytes,          \* the byte values packets are made of
    END, ESC, ESC_END, ESC_ESC,     \* the four SLIP codes
    Framings,       \* the framings a run looks at, of "size" and "slip"
    Packets,        \* the packets sent
    Noise,          \* what a SLIP receiver may find before the first frame
    MaxPackets      \* bound: packets sent

ASSUME BaseAssumption == Base \in Nat \ {0, 1} /\ Width \in Nat \ {0}
ASSUME BytesAssumption ==
    Bytes \subseteq Nat /\ {END, ESC, ESC_END, ESC_ESC} \subseteq Bytes
ASSUME CodesAssumption ==
    END \notin {ESC, ESC_END, ESC_ESC} /\ ESC \notin {ESC_END, ESC_ESC} /\ ESC_END # ESC_ESC
ASSUME FramingsAssumption == Framings \subseteq {"size", "slip"}
ASSUME PacketsAssumption == Packets \subseteq Seq(Bytes) \ {<<>>}
ASSUME NoiseAssumption == Noise \subseteq Seq(Bytes \ {END})

VARIABLES
    framing,        \* CTcpFraming of both sides, fixed while they are connected
    out,            \* the sender's Conn::out
    wire,           \* bytes the kernels hold between the two
    acc,            \* the receiver's Conn::acc
    slip,           \* its Conn::slipOpen, slipEsc and slip
    got,            \* packets poll returned
    alive,          \* FALSE once the receiver dropped the connection
    accepted        \* history: packets sendTo took

vars == <<framing, out, wire, acc, slip, got, alive, accepted>>

AllBytes == Bytes \cup (0 .. Base - 1)

\* Types; poll returns no empty packet, whatever it is made of.
TypeOK ==
    /\ framing \in Framings
    /\ out \in Seq(AllBytes)
    /\ wire \in Seq(AllBytes)
    /\ acc \in Seq(AllBytes)
    /\ slip \in [open : BOOLEAN, esc : BOOLEAN, bytes : Seq(AllBytes)]
    /\ got \in Seq(Seq(AllBytes) \ {<<>>})
    /\ alive \in BOOLEAN
    /\ accepted \in Seq(Packets)

Init ==
    /\ framing \in Framings
    /\ out = <<>>
    /\ wire \in IF framing = "slip" THEN Noise ELSE {<<>>}
    /\ acc = <<>>
    /\ slip = [open |-> FALSE, esc |-> FALSE, bytes |-> <<>>]
    /\ got = <<>>
    /\ alive = TRUE
    /\ accepted = <<>>

-------------------------------------------------------------------------------
(* The sender.                                                             *)

Power[n \in 0 .. Width] == IF n = 0 THEN 1 ELSE Base * Power[n - 1]

Digits(n) == [k \in 1 .. Width |-> (n \div Power[Width - k]) % Base]
FrameSize(p) == Digits(Len(p)) \o p

Escape(b) == CASE b = END -> <<ESC, ESC_END>>
               [] b = ESC -> <<ESC, ESC_ESC>>
               [] OTHER -> <<b>>

Escaped(p) ==
    LET codes[n \in 0 .. Len(p)] == IF n = 0 THEN <<>> ELSE codes[n - 1] \o Escape(p[n])
    IN codes[Len(p)]

\* Mutant of FrameSlip: a frame is ended by the next one only.
FrameSlipOpen(p) == <<END>> \o Escaped(p)

FrameSlip(p) == <<END>> \o Escaped(p) \o <<END>>

\* Mutant of TooLong: the limit is taken to be a length that fits.
TooLongByOne(p) == framing = "size" /\ Len(p) > Power[Width]

\* sendTo: a packet too long for the prefix is refused, under SLIP none is.
TooLong(p) == framing = "size" /\ Len(p) >= Power[Width]
Send(p) ==
    /\ alive
    /\ Len(accepted) < MaxPackets
    /\ ~TooLong(p)
    /\ out' = out \o (IF framing = "slip" THEN FrameSlip(p) ELSE FrameSize(p))
    /\ accepted' = Append(accepted, p)
    /\ UNCHANGED <<framing, wire, acc, slip, got, alive>>

\* flush: the kernel takes as much as it likes.
Flush(n) ==
    /\ n <= Len(out)
    /\ wire' = wire \o SubSeq(out, 1, n)
    /\ out' = SubSeq(out, n + 1, Len(out))
    /\ UNCHANGED <<framing, acc, slip, got, alive, accepted>>

-------------------------------------------------------------------------------
(* The receiver.                                                           *)

\* takeSize: cut packets off the front of acc while they are complete; a zero
\* size is no packet.
SizeOf(s) ==
    LET value[k \in 0 .. Width] == IF k = 0 THEN 0 ELSE value[k - 1] * Base + s[k]
    IN value[Width]

Complete(s) == Len(s) >= Width /\ Len(s) - Width >= SizeOf(s)
CutOne(t) ==
    LET end == Width + SizeOf(t.acc)
    IN IF ~Complete(t.acc) THEN t
       ELSE [acc |-> SubSeq(t.acc, end + 1, Len(t.acc)),
             pkts |-> IF end = Width THEN t.pkts
                      ELSE Append(t.pkts, SubSeq(t.acc, Width + 1, end))]
TakeSize(t) ==
    LET cut[n \in 0 .. Len(t.acc)] == IF n = 0 THEN t ELSE CutOne(cut[n - 1])
    IN cut[Len(t.acc)]

\* takeSlip: the decoder with what it has produced so far, and one byte.
Decoder == [open |-> slip.open, esc |-> slip.esc, bytes |-> slip.bytes,
            pkts |-> got, alive |-> alive]

\* Mutant of SlipByte: the END that begins a frame ends one, if it follows an END.
SlipByteEmpty(s, b) ==
    IF ~s.alive THEN s
    ELSE IF b = END THEN
        [s EXCEPT !.open = TRUE, !.esc = FALSE, !.bytes = <<>>,
                  !.pkts = IF s.open THEN Append(@, s.bytes) ELSE @]
    ELSE IF ~s.open THEN s
    ELSE IF s.esc THEN
        CASE b = ESC_END -> [s EXCEPT !.esc = FALSE, !.bytes = Append(@, END)]
          [] b = ESC_ESC -> [s EXCEPT !.esc = FALSE, !.bytes = Append(@, ESC)]
          [] OTHER -> [s EXCEPT !.esc = FALSE, !.alive = FALSE]
    ELSE IF b = ESC THEN [s EXCEPT !.esc = TRUE]
    ELSE [s EXCEPT !.bytes = Append(@, b)]

SlipByte(s, b) ==
    IF ~s.alive THEN s
    ELSE IF b = END THEN
        [s EXCEPT !.open = TRUE, !.esc = FALSE, !.bytes = <<>>,
                  !.pkts = IF s.open /\ s.bytes # <<>> THEN Append(@, s.bytes) ELSE @]
    ELSE IF ~s.open THEN s
    ELSE IF s.esc THEN
        CASE b = ESC_END -> [s EXCEPT !.esc = FALSE, !.bytes = Append(@, END)]
          [] b = ESC_ESC -> [s EXCEPT !.esc = FALSE, !.bytes = Append(@, ESC)]
          [] OTHER -> [s EXCEPT !.esc = FALSE, !.alive = FALSE]
    ELSE IF b = ESC THEN [s EXCEPT !.esc = TRUE]
    ELSE [s EXCEPT !.bytes = Append(@, b)]
TakeSlip(s, bytes) ==
    LET after[n \in 0 .. Len(bytes)] ==
            IF n = 0 THEN s ELSE SlipByte(after[n - 1], bytes[n])
    IN after[Len(bytes)]

\* poll, one recv: n bytes, then every packet that is complete.
Recv(n) ==
    /\ alive
    /\ n \in 1 .. Len(wire)
    /\ wire' = SubSeq(wire, n + 1, Len(wire))
    /\ LET s == acc \o SubSeq(wire, 1, n)
       IN IF framing = "slip"
          THEN \E t \in {TakeSlip(Decoder, s)} :
                  /\ acc' = <<>>
                  /\ slip' = [open |-> t.open, esc |-> t.esc, bytes |-> t.bytes]
                  /\ got' = t.pkts
                  /\ alive' = t.alive
          ELSE \E t \in {TakeSize([acc |-> s, pkts |-> got])} :
                  /\ acc' = t.acc
                  /\ got' = t.pkts
                  /\ UNCHANGED <<slip, alive>>
    /\ UNCHANGED <<framing, out, accepted>>

Next ==
    \/ \E p \in Packets : Send(p)
    \/ \E n \in 1 .. Len(out) : Flush(n)
    \/ \E n \in 1 .. Len(wire) : Recv(n)

Spec == Init /\ [][Next]_vars

-------------------------------------------------------------------------------
(* Properties.                                                             *)

\* However the stream is cut, poll returns the packets sendTo took: unchanged,
\* in order, each once; SLIP escapes its own codes and skips what it joined in
\* the middle of.
Faithful == IsPrefix(got, accepted)

\* A packet whose last byte has arrived is returned at once and a well-behaved
\* sender is never dropped: nothing waits in acc for bytes that never come.
Prompt == alive /\ (out = <<>> /\ wire = <<>> => got = accepted /\ acc = <<>>)
===============================================================================
