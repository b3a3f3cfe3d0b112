----------------------------- MODULE OscPattern -------------------------------
(***************************************************************************)
(* osc::matchAddress, the backtracking matcher of address patterns, beside *)
(* what the comment on it and OSC 1.0 say a pattern means.  Characters are *)
(* one-letter strings; the end of a sequence is the NUL of the C strings.  *)
(*                                                                         *)
(***************************************************************************)
EXTENDS Integers, Sequences, SequencesExt

CONSTANTS
    AddressLetters, \* the letters an address is made of
    MaxAddress      \* bound: length of an address

\* The ASCII order of the characters a class may range over.
Code(c) == CHOOSE n \in 1 .. 11 :
    <<"!", "*", ",", "-", "/", "?", "[", "]", "a", "b", "c">>[n] = c

At(s, n) == IF n <= Len(s) THEN s[n] ELSE "NUL"
Drop(s, n) == SubSeq(s, n + 1, Len(s))

-------------------------------------------------------------------------------
(* The matcher.                                                            *)

\* matchClass, from the position after the brackets's "!" and first "]": does a
\* range or a letter of the class hit c, and where does the class end.
RECURSIVE ClassHits(_, _, _), ClassEnd(_, _)
IsRange(p, n) == At(p, n + 1) = "-" /\ At(p, n + 2) \notin {"NUL", "]"}

InRange(p, n, c) == Code(p[n]) <= Code(c) /\ Code(c) <= Code(p[n + 2])
ClassHits(p, n, c) ==
    /\ At(p, n) \notin {"NUL", "]"}
    /\ IF IsRange(p, n) THEN InRange(p, n, c) \/ ClassHits(p, n + 3, c)
       ELSE p[n] = c \/ ClassHits(p, n + 1, c)
ClassEnd(p, n) ==
    IF At(p, n) = "NUL" THEN n - 1
    ELSE IF At(p, n) = "]" THEN n
    ELSE ClassEnd(p, IF IsRange(p, n) THEN n + 3 ELSE n + 1)

\* matchClass: the class at the head of p hits c; what follows the class.
Negated(p) == At(p, 2) = "!"
ClassStart(p) == IF Negated(p) THEN 3 ELSE 2
ClassBody(p) == IF At(p, ClassStart(p)) = "]" THEN ClassStart(p) + 1 ELSE ClassStart(p)
MatchClass(p, c) ==
    Negated(p) # \/ ClassHits(p, ClassBody(p), c)
                 \/ ClassBody(p) > ClassStart(p) /\ c = "]"
AfterClass(p) == Drop(p, ClassEnd(p, ClassBody(p)))

\* restEmptyOk: what may be left of a pattern when the address is used up.
RECURSIVE StarsOnly(_)
StarsOnly(p) ==
    IF At(p, 1) # "*" THEN p = <<>>
    ELSE IF At(p, 2) # "*" THEN StarsOnly(Drop(p, 1))
    ELSE LET q == Drop(p, 2)
             k == CHOOSE n \in 0 .. Len(q) : /\ \A j \in 1 .. n : q[j] = "/"
                                             /\ At(q, n + 1) # "/"
         IN StarsOnly(Drop(q, k))

\* Mutant of RestEmptyOk: stars no longer match nothing.
RestIsEmpty(p) == p = <<>>

RestEmptyOk(p) ==
    LET k == CHOOSE n \in 0 .. Len(p) : /\ \A j \in 1 .. n : p[j] = "/"
                                        /\ At(p, n + 1) # "/"
    IN StarsOnly(Drop(p, k))

\* matchBrace's alternatives, each followed by what comes after the brace.
BraceEnd(p) == IF Contains(p, "}") THEN SelectInSeq(p, LAMBDA c : c = "}") ELSE 0

Cuts(p) == {n \in 1 .. BraceEnd(p) : n \in {1, BraceEnd(p)} \/ p[n] = ","}

\* Mutant of Alternatives: what follows the brace is lost.
AlternativesAlone(p) ==
    {SubSeq(p, m + 1, n - 1) :
        <<m, n>> \in {<<m, n>> \in Cuts(p) \X Cuts(p) :
                        m < n /\ \A k \in Cuts(p) : k <= m \/ n <= k}}

Alternatives(p) ==
    {SubSeq(p, m + 1, n - 1) \o Drop(p, BraceEnd(p)) :
        <<m, n>> \in {<<m, n>> \in Cuts(p) \X Cuts(p) :
                        m < n /\ \A k \in Cuts(p) : k <= m \/ n <= k}}

\* matchHere: the loop's next character decides; "**" eats one "/" after it.
RECURSIVE MatchHere(_, _)
MatchHere(p, a) ==
    IF p = <<>> \/ a = <<>> THEN a = <<>> /\ RestEmptyOk(p)
    ELSE CASE p[1] = "*" /\ At(p, 2) = "*" ->
                LET q == Drop(p, IF At(p, 3) = "/" THEN 3 ELSE 2)
                IN q = <<>> \/ \E n \in 0 .. Len(a) : MatchHere(q, Drop(a, n))
           [] p[1] = "*" /\ At(p, 2) # "*" ->
                \E n \in 0 .. Len(a) : /\ \A k \in 1 .. n : a[k] # "/"
                                       /\ MatchHere(Drop(p, 1), Drop(a, n))
           [] p[1] = "?" -> a[1] # "/" /\ MatchHere(Drop(p, 1), Drop(a, 1))
           [] p[1] = "[" -> /\ a[1] # "/"
                            /\ MatchClass(p, a[1])
                            /\ MatchHere(AfterClass(p), Drop(a, 1))
           [] p[1] = "{" -> \E q \in Alternatives(p) : MatchHere(q, a)
           [] OTHER -> p[1] = a[1] /\ MatchHere(Drop(p, 1), Drop(a, 1))

MatchAddress(p, a) ==
    /\ p # <<>> /\ a # <<>>
    /\ p[1] = "/" /\ a[1] = "/"
    /\ MatchHere(p, a)

-------------------------------------------------------------------------------
(* What a pattern means: the address splits into one stretch for every     *)
(* part of the pattern.  The documentation does not say what the "/" after *)
(* "**" is; the code makes it part of the "**", and so does this.          *)

PartLen(p) ==
    IF p = <<"/", "*", "*">> THEN 3
    ELSE IF At(p, 1) = "*" /\ At(p, 2) = "*" THEN IF At(p, 3) = "/" THEN 3 ELSE 2
    ELSE IF p[1] = "[" THEN CHOOSE n \in 3 .. Len(p) : /\ p[n] = "]"
                                                       /\ \A k \in 3 .. n - 1 : p[k] # "]"
    ELSE IF p[1] = "{" THEN CHOOSE n \in 2 .. Len(p) : /\ p[n] = "}"
                                                       /\ \A k \in 2 .. n - 1 : p[k] # "}"
    ELSE 1

\* The letters a class lists or ranges over.
Listed(class, c) ==
    LET first == IF class[2] = "!" THEN 3 ELSE 2 IN
    \E n \in first .. Len(class) - 1 :
        \/ class[n] = c
        \/ /\ n \in first + 1 .. Len(class) - 2
           /\ class[n] = "-"
           /\ Code(class[n - 1]) <= Code(c) /\ Code(c) <= Code(class[n + 1])

RECURSIVE Means(_, _)
PartMeans(part, s) ==
    CASE part = <<"/", "*", "*">> -> s = <<>> \/ s[1] = "/"
      [] At(part, 1) = "*" /\ At(part, 2) = "*" -> TRUE
      [] part = <<"*">> -> ~Contains(s, "/")
      [] part = <<"?">> -> Len(s) = 1 /\ s[1] # "/"
      [] part[1] = "[" -> /\ Len(s) = 1 /\ s[1] # "/"
                          /\ Listed(part, s[1]) # (part[2] = "!")
      [] part[1] = "{" -> \E m, n \in DOMAIN part :
                              /\ m < n /\ part[m] \in {"{", ","} /\ part[n] \in {"}", ","}
                              /\ ~Contains(SubSeq(part, m + 1, n - 1), ",")
                              /\ Means(SubSeq(part, m + 1, n - 1), s)
      [] OTHER -> s = part
Means(p, a) ==
    IF p = <<>> THEN a = <<>>
    ELSE \E n \in 0 .. Len(a) :
            /\ PartMeans(SubSeq(p, 1, PartLen(p)), SubSeq(a, 1, n))
            /\ Means(Drop(p, PartLen(p)), Drop(a, n))

\* Patterns that OSC 1.0 gives a meaning: every bracket is closed, no class is
\* empty or lists "]" or has a range the wrong way round, no alternative is empty.
Pair(p, n) == <<At(p, n), At(p, n + 1)>>
WellFormed(p) ==
    /\ \A n \in DOMAIN p :
        /\ p[n] = "[" =>
              /\ \E m \in n + 1 .. Len(p) :
                    p[m] = "]" /\ \A k \in n + 1 .. m - 1 : p[k] \notin {"[", "{", "}"}
              /\ At(p, n + 1) # "]" /\ Pair(p, n + 1) # <<"!", "]">>
        /\ p[n] = "{" =>
              \E m \in n + 1 .. Len(p) :
                    p[m] = "}" /\ \A k \in n + 1 .. m - 1 : p[k] \notin {"[", "]", "{"}
        /\ p[n] = "-" /\ 1 < n /\ n < Len(p) =>
              p[n - 1] # "-" /\ p[n + 1] # "-" /\ Code(p[n - 1]) <= Code(p[n + 1])
        /\ Pair(p, n) \notin {<<"{", ",">>, <<"{", "}">>, <<",", ",">>, <<",", "}">>}
        /\ p[n] = "}" => \E m \in 1 .. n - 1 : p[m] = "{"

-------------------------------------------------------------------------------
(* How the two compare.                                                    *)

Addresses == {a \in UNION {[1 .. n -> AddressLetters] : n \in 1 .. MaxAddress} : a[1] = "/"}
Slashes(n) == [k \in 1 .. n |-> "/"]
Proper(a) == \A n \in DOMAIN a : a[n] = "/" => At(a, n + 1) \notin {"/", "NUL"}

Misses(p) == {a \in Addresses : Proper(a) /\ Means(p, a) /\ ~MatchAddress(p, a)}

\* Slashes at the end of the pattern may go unmatched (restEmptyOk; by this "/a/*"
\* hits the node "/a" as well): a hit is stray if it is not in the pattern's
\* meaning however many "/" are added.
Strays(p) ==
    {a \in Addresses : MatchAddress(p, a)
                       /\ \A n \in 0 .. Len(p) : ~Means(p, a \o Slashes(n))}
===============================================================================
