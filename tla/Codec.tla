--------------------------------- MODULE Codec ---------------------------------
(***************************************************************************)
(* The functions of the pack that have no state, examined together: the    *)
(* inputs of CodecInputs, and patterns, which grow letter by letter and    *)
(* are compared with their meaning.                                        *)
(***************************************************************************)
EXTENDS OscPattern, CodecInputs

CONSTANT Grammars   \* what patterns are made of: sets of letters, each with a
                    \* bound on the length of a pattern

NewPattern == input = [kind |-> "pattern", text |-> <<"/">>]
GrowPattern ==
    /\ input.kind = "pattern"
    /\ \E g \in Grammars : \E c \in g.letters :
        /\ Range(input.text) \subseteq g.letters
        /\ Len(input.text) < g.max
        /\ input' = [input EXCEPT !.text = Append(@, c)]

Init == NewPattern \/ InputsInit
Next == GrowPattern \/ InputsNext

Spec == Init /\ [][Next]_input

-------------------------------------------------------------------------------
(* Properties.                                                             *)

\* matchAddress misses no address: backtracking over "*", "**" and the braces
\* tries every way a well-formed pattern can be read.  Left out is a star above
\* "/**": restEmptyOk skips "/" before the first star only, so "/a*" hits "/a" and
\* "/a*/**" does not.
NoMiss ==
    input.kind = "pattern" /\ WellFormed(input.text)
    /\ ~IsSuffix(<<"*", "/", "*", "*">>, input.text) => Misses(input.text) = {}

\* It hits no stray address either.
NoStray ==
    input.kind = "pattern" /\ WellFormed(input.text) => Strays(input.text) = {}
===============================================================================
