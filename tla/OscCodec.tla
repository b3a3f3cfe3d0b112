-------------------------------- MODULE OscCodec -------------------------------
(***************************************************************************)
(* osc::encodeMessage, encodeBundle and parsePacket over bytes.            *)
(*                                                                         *)
(* A byte is a letter, and Digit says which of the Base values it has, 256 *)
(* in the code; a number is four or eight bytes.  Positions count from 0   *)
(* as in the code.  What the bytes of an int, a float, a colour or a MIDI  *)
(* message mean is left out: they are copied.                              *)
(* The items of an array are the arguments between its two brackets, as    *)
(* they are between the tags "[" and "]", so that the recursion of         *)
(* appendArg and parseArgs over nested arrays is a count of open brackets. *)
(***************************************************************************)
EXTENDS Integers, Sequences, SequencesExt

CONSTANTS
    Base,           \* the values of a byte
    Digit           \* the byte of each value

Bytes == {Digit[n] : n \in 0 .. Base - 1}
NUL == Digit[0]
Immediate == 1      \* OscTimetag::immediate(): no seconds, fraction 1
Word == Base * Base * Base * Base

Fours == {"i", "f", "c", "r", "m"}
Eights == {"h", "d", "t"}
Texts == {"s", "S"}
Nothing == {"T", "F", "N", "I"}
Brackets == {"[", "]"}
BundleTag == <<"#", "b", "u", "n", "d", "l", "e", NUL>>

ASSUME BytesAssumption ==
    /\ Base \in Nat \ {0, 1}
    /\ \A j, k \in 0 .. Base - 1 : Digit[j] = Digit[k] => j = k
    /\ Fours \cup Eights \cup Texts \cup Nothing \cup Brackets \cup {"b", "/", ","}
          \subseteq Bytes \ {NUL}
    /\ {"#", "b", "u", "n", "d", "l", "e"} \subseteq Bytes \ {NUL}

Nuls(n) == [k \in 1 .. n |-> NUL]
WriteBe32(n) ==
    LET a == n \div Base
        b == a \div Base
        c == b \div Base
    IN <<Digit[c % Base], Digit[b % Base], Digit[a % Base], Digit[n % Base]>>
WriteBe64(n) == WriteBe32(n \div Word) \o WriteBe32(n)
Value(b) == CHOOSE n \in 0 .. Base - 1 : Digit[n] = b
ReadBe32(d, i) ==
    ((Value(d[i + 1]) * Base + Value(d[i + 2])) * Base + Value(d[i + 3])) * Base + Value(d[i + 4])
ReadBe64(d, i) == ReadBe32(d, i) * Word + ReadBe32(d, i + 4)

Padded4(n) == ((n + 3) \div 4) * 4

-------------------------------------------------------------------------------
(* Encoding.  An argument is [tag, val] with its bytes.                    *)

\* Mutant of WritePaddedString: a string that fills its words gets no NUL.
WriteAlignedString(s) == s \o Nuls(Padded4(Len(s)) - Len(s))

WritePaddedString(s) == s \o Nuls(Padded4(Len(s) + 1) - Len(s))

\* appendArg: what the argument adds to the tags and to the body.
Body(a) ==
    CASE a.tag \in Texts -> WritePaddedString(a.val)
      [] a.tag = "b" ->
            WriteBe32(Len(a.val)) \o (a.val \o Nuls(Padded4(Len(a.val)) - Len(a.val)))
      [] a.tag = "c" -> Nuls(3) \o a.val
      [] OTHER -> a.val
AppendArg(p, a) == [tags |-> Append(p.tags, a.tag), body |-> p.body \o Body(a)]

Appended(args) ==
    LET parts[n \in 0 .. Len(args)] ==
            IF n = 0 THEN [tags |-> <<",">>, body |-> <<>>] ELSE AppendArg(parts[n - 1], args[n])
    IN parts[Len(args)]
EncodeMessage(address, args) ==
    WritePaddedString(address) \o (WritePaddedString(Appended(args).tags) \o Appended(args).body)

Element(bytes) == WriteBe32(Len(bytes)) \o bytes
BundleHead(time) == BundleTag \o WriteBe64(time)
EncodeBundle(elements, time) ==
    BundleHead(time) \o FlattenSeq([k \in DOMAIN elements |-> Element(elements[k])])

-------------------------------------------------------------------------------
(* Parsing.  A result is [ok, i, val]: the position after what was read.   *)

Fails == [ok |-> FALSE, i |-> 0, val |-> <<>>]
Read(d, i, n) ==
    IF i + n > Len(d) THEN Fails ELSE [ok |-> TRUE, i |-> i + n, val |-> SubSeq(d, i + 1, i + n)]

\* Mutant of ReadString: the padding need not be there.
ReadStringLoose(d, i) ==
    LET ends == {z \in i + 1 .. Len(d) : d[z] = NUL}
        z == CHOOSE z \in ends : \A y \in ends : z <= y
    IN IF ends = {} THEN Fails
       ELSE [ok |-> TRUE, i |-> Padded4(z), val |-> SubSeq(d, i + 1, z - 1)]

\* readString: up to the NUL, then over the padding, which must be there.
ReadString(d, i) ==
    LET ends == {z \in i + 1 .. Len(d) : d[z] = NUL}
        z == CHOOSE z \in ends : \A y \in ends : z <= y
    IN IF ends = {} \/ Padded4(z) > Len(d) THEN Fails
       ELSE [ok |-> TRUE, i |-> Padded4(z), val |-> SubSeq(d, i + 1, z - 1)]

ReadBlob(d, i) ==
    LET size == ReadBe32(d, i)
        end == i + 4 + Padded4(size)
    IN IF i + 4 > Len(d) \/ end > Len(d) THEN Fails
       ELSE [ok |-> TRUE, i |-> end, val |-> SubSeq(d, i + 5, i + 4 + size)]

ReadChar(d, i) == IF i + 4 > Len(d) THEN Fails ELSE [ok |-> TRUE, i |-> i + 4, val |-> <<d[i + 4]>>]

ParseOneTag(tag, d, i) ==
    CASE tag \in Texts -> ReadString(d, i)
      [] tag = "b" -> ReadBlob(d, i)
      [] tag = "c" -> ReadChar(d, i)
      [] tag \in Fours \ {"c"} -> Read(d, i, 4)
      [] tag \in Eights -> Read(d, i, 8)
      [] tag \in Nothing -> Read(d, i, 0)
      [] OTHER -> Fails

\* parseArgs: one tag after the other, depth arrays are open.
ParseTag(s, tag, d) ==
    CASE ~s.ok -> s
      [] s.ok /\ tag = "[" -> [s EXCEPT !.depth = @ + 1, !.args = Append(@, [tag |-> "[", val |-> <<>>])]
      [] s.ok /\ tag = "]" -> [s EXCEPT !.ok = s.depth > 0, !.depth = @ - 1,
                                          !.args = Append(@, [tag |-> "]", val |-> <<>>])]
      [] OTHER -> LET r == ParseOneTag(tag, d, s.i)
                  IN [ok |-> r.ok, i |-> r.i, depth |-> s.depth,
                      args |-> Append(s.args, [tag |-> tag, val |-> r.val])]
ParseArgs(tags, d, i) ==
    LET after[n \in 0 .. Len(tags) - 1] ==
            IF n = 0 THEN [ok |-> TRUE, i |-> i, depth |-> 0, args |-> <<>>]
            ELSE ParseTag(after[n - 1], tags[n + 1], d)
    IN after[Len(tags) - 1]

ParseOneMessage(d) ==
    LET address == ReadString(d, 0)
        tags == ReadString(d, address.i)
        args == ParseArgs(tags.val, d, tags.i)
    IN IF /\ Len(d) >= 4 /\ d[1] # "#"
          /\ address.ok /\ address.val # <<>> /\ address.val[1] = "/"
          /\ tags.ok /\ tags.val # <<>> /\ tags.val[1] = ","
          /\ args.ok /\ args.depth = 0
       THEN [ok |-> TRUE, address |-> address.val, args |-> args.args]
       ELSE [ok |-> FALSE]

\* Mutant of EffectiveTimetag: the inner time counts.
InnerTimetag(parent, bundle) == IF bundle = Immediate THEN parent ELSE bundle

\* effectiveTimetag: an immediate child waits for its parent, a later one for
\* itself.
EffectiveTimetag(parent, bundle) ==
    IF bundle = Immediate THEN parent
    ELSE IF parent = Immediate \/ bundle > parent THEN bundle
    ELSE parent

\* parsePacket's loop over the elements of a bundle: an element is given to parse, a
\* broken one adds nothing, a size that cannot be ends the bundle.  None is shorter
\* than eight bytes.
NextElement(s, d, when, parse) ==
    LET size == ReadBe32(d, s.i)
        end == s.i + 4 + size
    IN IF s.i + 4 > Len(d) \/ size = 0 \/ size % 4 # 0 \/ end > Len(d) THEN s
       ELSE [i |-> end, out |-> s.out \o parse[SubSeq(d, s.i + 5, end)][when]]
ParseElements(d, when, parse) ==
    LET after[n \in 0 .. Len(d) \div 8] ==
            IF n = 0 THEN [i |-> 16, out |-> <<>>] ELSE NextElement(after[n - 1], d, when, parse)
    IN after[Len(d) \div 8].out

\* parsePacket, the messages it pushes.  Whether it is a packet at all is IsPacket.
IsBundle(d) == IsPrefix(BundleTag, d)
Messages(d, parent, parse) ==
    IF IsBundle(d) THEN
        IF Len(d) < 16 THEN <<>>
        ELSE ParseElements(d, EffectiveTimetag(parent, ReadBe64(d, 8)), parse)
    ELSE LET m == ParseOneMessage(d)
         IN IF m.ok THEN <<[address |-> m.address, args |-> m.args, time |-> parent]>> ELSE <<>>

\* It calls itself for the elements; what is in a bundle is shorter than the bundle.
Parse[n \in Nat] ==
    IF n = 0 THEN [d \in Seq(Bytes) |-> [parent \in Nat |-> <<>>]]
    ELSE [d \in Seq(Bytes) |-> [parent \in Nat |-> Messages(d, parent, Parse[n - 1])]]
ParsePacket(d, parent) == Parse[Len(d)][d][parent]
IsPacket(d) == IF IsBundle(d) THEN Len(d) >= 16 ELSE ParseOneMessage(d).ok
===============================================================================
