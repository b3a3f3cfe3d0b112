-------------------------------- MODULE OscBus ---------------------------------
(***************************************************************************)
(* Show-bus addresses, /<app>/<network id>/<leaf> and /<app>/<leaf>: what  *)
(* the pack makes of the names the host gives it, and what it reads out of *)
(* an address that arrives.  Characters are one-letter strings.            *)
(***************************************************************************)
EXTENDS Integers, Sequences, SequencesExt, SeqFilter

CONSTANTS
    Chars,          \* what names and addresses are made of
    OscLetters,     \* the letters oscChar lets through
    AppName         \* what the engine says the application is called

ASSUME OscLettersAssumption ==
    OscLetters \subseteq Chars \ {"/"} /\ "/" \in Chars /\ {"a", "p"} \subseteq OscLetters
ASSUME AppNameAssumption == AppName \in Seq(Chars)

\* Mutant of OscChar: the separator is let through.
OscCharOrSlash(c) == c \in OscLetters \cup {"/"}

OscChar(c) == c \in OscLetters
OscSegment(raw) ==
    LET out == Filter(raw, {c \in Range(raw) : OscChar(c)})
    IN IF out = <<>> THEN <<"a", "p", "p">> ELSE out

\* busPrefix: the first segment of the prefix, or of the application's name.
FirstSegment(raw) ==
    LET from == CHOOSE n \in 1 .. Len(raw) + 1 : /\ \A k \in 1 .. n - 1 : raw[k] = "/"
                                                 /\ n <= Len(raw) => raw[n] # "/"
        to == CHOOSE n \in from .. Len(raw) + 1 : /\ \A k \in from .. n - 1 : raw[k] # "/"
                                                  /\ n <= Len(raw) => raw[n] = "/"
    IN SubSeq(raw, from, to - 1)
BusPrefix(addressPrefix) ==
    <<"/">> \o OscSegment(FirstSegment(IF addressPrefix = <<>> THEN AppName ELSE addressPrefix))

MakeAddress(prefix, id, leaf) ==
    prefix \o <<"/">> \o OscSegment(id) \o <<"/">> \o OscSegment(leaf)
MakeBroadcastAddress(prefix, leaf) == prefix \o <<"/">> \o OscSegment(leaf)

\* What is between prefix and tail, if a is longer than the two together.
Between(a, prefix, tail) == SubSeq(a, Len(prefix) + 1, Len(a) - Len(tail))

\* busSenderId: <<>> if there is none.
BusSenderId(prefix, a) ==
    LET rest == SubSeq(a, Len(prefix) + 2, Len(a))
        slashes == {k \in DOMAIN rest : rest[k] = "/"}
    IN IF /\ IsPrefix(prefix \o <<"/">>, a)
          /\ \E k \in slashes : slashes = {k} /\ k > 1
       THEN SubSeq(rest, 1, (CHOOSE k \in slashes : TRUE) - 1)
       ELSE <<>>

\* Mutant of BusLeafMatches: anything may be between the prefix and the leaf.
BusLeafEnds(leaf, prefix, a) ==
    LET head == prefix \o <<"/">>
        tail == <<"/">> \o OscSegment(leaf)
    IN \/ a = prefix \o tail
       \/ /\ Len(a) > Len(head) + Len(tail)
          /\ IsPrefix(head, a) /\ IsSuffix(tail, a)

BusLeafMatches(leaf, prefix, a) ==
    LET head == prefix \o <<"/">>
        tail == <<"/">> \o OscSegment(leaf)
    IN \/ a = prefix \o tail
       \/ /\ Len(a) > Len(head) + Len(tail)
          /\ IsPrefix(head, a) /\ IsSuffix(tail, a)
          /\ ~Contains(Between(a, head, tail), "/")

-------------------------------------------------------------------------------
(* What they promise each other.                                           *)

\* What one pack sends to a leaf another pack hears, and it reads the sender's id
\* out of a directed address and none out of a broadcast one.
Understood(addressPrefix, id, leaf) ==
    LET prefix == BusPrefix(addressPrefix)
        directed == MakeAddress(prefix, id, leaf)
        broadcast == MakeBroadcastAddress(prefix, leaf)
    IN /\ BusLeafMatches(leaf, prefix, directed)
       /\ BusSenderId(prefix, directed) = OscSegment(id)
       /\ BusLeafMatches(leaf, prefix, broadcast)
       /\ BusSenderId(prefix, broadcast) = <<>>
===============================================================================
