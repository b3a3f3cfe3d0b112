------------------------------ MODULE SeqFilter -------------------------------
(* The loop that moves what is to stay into a new vector, in order.  The set *)
(* of what stays is a value, so that a theorem can speak of every such set.  *)
EXTENDS Naturals, Sequences

Filter(s, P) ==
    LET kept[n \in 0 .. Len(s)] ==
            IF n = 0 THEN <<>>
            ELSE IF s[n] \in P THEN Append(kept[n - 1], s[n]) ELSE kept[n - 1]
    IN kept[Len(s)]
===============================================================================
