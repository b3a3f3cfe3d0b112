-------------------------------- MODULE MCCodec --------------------------------
(* Codec on small inputs: patterns over stars, classes and alternatives;     *)
(* strings and blobs of a length that fills a word and of one less; bundles  *)
(* in bundles; bus names with separators and letters that are thrown out.    *)
(* There are 25 bytes.                                                       *)
EXTENDS Codec

Letters ==
    <<"0", "#", "b", "u", "n", "d", "l", "e", "/", ",", "i", "f", "c", "r", "m", "h", "t",
      "s", "S", "T", "F", "N", "I", "[", "]">>
MCDigit == [n \in 0 .. 24 |-> Letters[n + 1]]

MCGrammars ==
    {[letters |-> {"/", "a", "*", "?"}, max |-> 7],
     [letters |-> {"/", "a", "b", "[", "]", "!", "-"}, max |-> 6],
     [letters |-> {"/", "a", "?", "{", "}", ","}, max |-> 7]}

Text(n) == [k \in 1 .. n |-> "t"]
MCMessageAddresses == {<<"/">> \o Text(n) : n \in {0, 2, 3}}

Arguments(tag, lengths) == {[tag |-> tag, val |-> Text(n)] : n \in lengths}
Plain == Arguments("i", {4}) \cup Arguments("t", {8}) \cup Arguments("c", {1})
         \cup Arguments("N", {0}) \cup Arguments("s", {0, 3, 4})
         \cup {[tag |-> "b", val |-> Nuls(n)] : n \in {0, 3, 4}}
Arrays == Arguments("[", {0}) \cup Arguments("]", {0})
MCKinds == {[args |-> Plain \cup Arrays, max |-> 3],
            [args |-> Arrays \cup Arguments("S", {3}) \cup Arguments("b", {4}), max |-> 5]}

Segments == {<<>>, <<"a">>, <<"p">>, <<"a", "a">>, <<"a", "p", "p">>}
MCArriving ==
    {FlattenSeq([k \in DOMAIN s |-> <<"/">> \o s[k]]) :
        s \in UNION {[1 .. n -> Segments] : n \in 0 .. 4}}
MCAppName == <<"p">>
===============================================================================
