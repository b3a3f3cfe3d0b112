------------------------------ MODULE CodecInputs ------------------------------
(***************************************************************************)
(* What the functions without state are given, apart from patterns.  An    *)
(* input grows piece by piece: the arguments of a message; bundles in      *)
(* bundles, put together as a peer's encoder would; the names two packs'   *)
(* hosts give them.  Every small one comes up, and each result is compared *)
(* with what it should be.                                                 *)
(***************************************************************************)
EXTENDS OscCodec, OscBus

CONSTANTS
    MessageAddresses,
    Kinds,          \* what messages are made of: sets of arguments, each with a
                    \* bound on the number of them
    Times,          \* of bundles
    Sizes,          \* sizes of elements that cannot be
    Longest,        \* bound: no packet is longer
    MaxDepth,       \* bound: bundles in bundles
    MaxItems,       \* bound: steps in which a bundle is put together
    NameLetters,    \* what hosts make names of
    MaxName,        \* bound: length of a name
    Arriving        \* addresses that arrive on the bus

\* Texts in packets end at the first NUL.  A length fits its four bytes.
IsArg(a) ==
    \/ a.tag \in Texts /\ a.val \in Seq(Bytes \ {NUL})
    \/ a.tag = "b" /\ a.val \in Seq(Bytes) /\ Len(a.val) < Word
    \/ a.tag = "c" /\ a.val \in Seq(Bytes) /\ Len(a.val) = 1
    \/ a.tag \in Fours \ {"c"} /\ a.val \in Seq(Bytes) /\ Len(a.val) = 4
    \/ a.tag \in Eights /\ a.val \in Seq(Bytes) /\ Len(a.val) = 8
    \/ a.tag \in Nothing \cup Brackets /\ a.val = <<>>

ASSUME MessageAssumption ==
    /\ \A a \in MessageAddresses : a \in Seq(Bytes \ {NUL}) /\ a # <<>> /\ a[1] = "/"
    /\ \A kind \in Kinds : \A a \in kind.args : a \in [tag : Bytes, val : Seq(Bytes)] /\ IsArg(a)
ASSUME BundleAssumption ==
    /\ \A t \in Times : t \in Nat /\ t >= Immediate /\ t \div Word < Word
    /\ Longest \in 16 .. Word - 1
    /\ \A n \in Sizes : n \in 0 .. Word - 1 /\ (n = 0 \/ n % 4 # 0 \/ n > Longest)
ASSUME NamesAssumption == NameLetters \subseteq Chars /\ Arriving \subseteq Seq(Chars)

VARIABLE input

-------------------------------------------------------------------------------
(* Messages.                                                               *)

\* How many arrays are open after each argument.
Depths(args) ==
    LET depth[n \in 0 .. Len(args)] ==
            IF n = 0 THEN 0
            ELSE depth[n - 1] + (CASE args[n].tag = "[" -> 1
                                   [] args[n].tag = "]" -> -1
                                   [] OTHER -> 0)
    IN depth
Balanced(args) ==
    Depths(args)[Len(args)] = 0 /\ \A n \in 0 .. Len(args) : Depths(args)[n] >= 0

NewMessage == \E a \in MessageAddresses : input = [kind |-> "message", address |-> a, args |-> <<>>]
GrowMessage ==
    /\ input.kind = "message"
    /\ \E kind \in Kinds : \E a \in kind.args :
        /\ Range(input.args) \subseteq kind.args
        /\ Len(input.args) < kind.max
        /\ a.tag = "]" => Depths(input.args)[Len(input.args)] > 0
        /\ input' = [input EXCEPT !.args = Append(@, a)]

-------------------------------------------------------------------------------
(* Bundles: the open ones, the outermost first, each with its bytes so far  *)
(* and what they say: messages, with the latest of the times around them.   *)

Later(t, u) == IF t > u THEN t ELSE u
Around(t, says) == [k \in DOMAIN says |-> [says[k] EXCEPT !.time = Later(t, @)]]

\* An element behind an impossible size is not read.
With(b, bytes, says) ==
    [b EXCEPT !.bytes = @ \o bytes,
              !.says = IF b.cut THEN @ ELSE @ \o Around(b.time, says)]
Open == Len(input.open)
Fits(bytes) == /\ input.items < MaxItems
               /\ Len(input.open[Open].bytes) + Len(bytes) <= Longest
Garbage == <<"d", NUL, NUL, NUL>>

NewBundle(t) == [time |-> t, bytes |-> BundleHead(t), says |-> <<>>, cut |-> FALSE]
NewPacket == \E t \in Times : input = [kind |-> "bundle", items |-> 0, open |-> <<NewBundle(t)>>]

AddElement(bytes, says) ==
    /\ Fits(bytes)
    /\ input' = [input EXCEPT !.items = @ + 1, !.open[Open] = With(@, bytes, says)]

AddMessage(a) ==
    AddElement(Element(EncodeMessage(a, <<>>)),
               <<[address |-> a, args |-> <<>>, time |-> Immediate]>>)
AddBroken == AddElement(Element(Garbage), <<>>)
AddCut(size) ==
    /\ Fits(WriteBe32(size) \o Garbage)
    /\ input' = [input EXCEPT !.items = @ + 1,
                    !.open[Open] = [With(@, WriteBe32(size) \o Garbage, <<>>) EXCEPT !.cut = TRUE]]
OpenBundle(t) ==
    /\ input.items < MaxItems /\ Open < MaxDepth
    /\ input' = [input EXCEPT !.items = @ + 1, !.open = Append(@, NewBundle(t))]
\* What is closed goes into the bundle it was opened in.
CloseBundle ==
    /\ Open > 1
    /\ LET inner == input.open[Open]
           outer == input.open[Open - 1]
           bytes == Element(inner.bytes)
       IN /\ Len(outer.bytes) + Len(bytes) <= Longest
          /\ input' = [input EXCEPT !.open = Append(SubSeq(@, 1, Open - 2),
                                                    With(outer, bytes, inner.says))]

GrowBundle ==
    /\ input.kind = "bundle"
    /\ \/ \E a \in MessageAddresses : AddMessage(a)
       \/ AddBroken
       \/ \E n \in Sizes : AddCut(n)
       \/ \E t \in Times : OpenBundle(t)
       \/ CloseBundle

-------------------------------------------------------------------------------
(* Names: addressPrefix, the sender's networkId and a leaf.                *)

NewNames == input = [kind |-> "bus", prefix |-> <<>>, id |-> <<>>, leaf |-> <<>>]
GrowNames ==
    /\ input.kind = "bus"
    /\ \E name \in {"prefix", "id", "leaf"} : \E c \in NameLetters :
        /\ Len(input[name]) < MaxName
        /\ input' = [input EXCEPT ![name] = Append(@, c)]

InputsInit == NewMessage \/ NewPacket \/ NewNames
InputsNext == GrowMessage \/ GrowBundle \/ GrowNames
InputsSpec == InputsInit /\ [][InputsNext]_input

-------------------------------------------------------------------------------
(* Properties.                                                             *)

\* A message comes out of parsePacket as it went into encodeMessage: arrays in
\* arrays, strings and blobs on either side of the padding's boundary.
RoundTrip ==
    input.kind = "message" /\ Balanced(input.args) =>
        ParsePacket(EncodeMessage(input.address, input.args), Immediate)
            = <<[address |-> input.address, args |-> input.args, time |-> Immediate]>>

\* A message that lost its end, by as little as one byte of padding, is no packet:
\* no argument is made up from bytes that are not there.
NoShortRead ==
    input.kind = "message" /\ Balanced(input.args) =>
        LET d == EncodeMessage(input.address, input.args)
        IN \A n \in 0 .. Len(d) - 1 : ~IsPacket(SubSeq(d, 1, n))

\* A bundle's messages come out in order, none early or late by the times of the
\* bundles it is nested in, the good ones beside a broken one too (parsePacket,
\* effectiveTimetag).
BundleMeaning ==
    input.kind = "bundle" =>
        \A k \in 1 .. Open : ParsePacket(input.open[k].bytes, Immediate) = input.open[k].says

\* A leaf's listener fires for /<app>/<any id>/<leaf> and /<app>/<leaf> and for
\* nothing else (addBusListener, busLeafMatches), whatever the names are made of.
BusHears ==
    input.kind = "bus" =>
        LET prefix == BusPrefix(input.prefix)
            leaf == <<"/">> \o OscSegment(input.leaf)
        IN \A a \in Arriving :
            BusLeafMatches(input.leaf, prefix, a) <=>
                \/ a = prefix \o leaf
                \/ \E id \in SubSeqs(a) : /\ id # <<>> /\ ~Contains(id, "/")
                                          /\ a = ((prefix \o <<"/">>) \o id) \o leaf

\* What one pack sends to a leaf another pack hears, if both have the addressPrefix
\* of their application, and it reads the sender's id out of a directed address and
\* none out of a broadcast one, whatever the hosts call things (makeAddress, makeBroadcastAddress, busLeafMatches, busSenderId).
BusAnswers == input.kind = "bus" => Understood(input.prefix, input.id, input.leaf)
===============================================================================
