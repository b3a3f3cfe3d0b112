---------------------------- MODULE MCOscDelivery -----------------------------
(* OscDelivery with what parsePacket makes of packets: a message alone, and  *)
(* bundles in bundles, of 25 kinds of bytes.  The codec's times 2, 3, ...    *)
(* are the clock's 1, 2, ..., because the codec's 1 is immediate.            *)
EXTENDS OscDelivery

Letters ==
    <<"0", "#", "b", "u", "n", "d", "l", "e", "/", ",", "i", "f", "c", "r", "m", "h", "t",
      "s", "S", "T", "F", "N", "I", "[", "]">>
CodecDigit == [n \in 0 .. 24 |-> Letters[n + 1]]
Codec == INSTANCE OscCodec WITH Base <- 25, Digit <- CodecDigit

Message == Codec!EncodeMessage(<<"/", "m">>, <<>>)
Bundle(elements, t) == Codec!EncodeBundle(elements, t + 1)
Datagrams == {Message, Bundle(<<Message>>, 1), Bundle(<<Message, Message>>, 2),
          Bundle(<<Bundle(<<Message>>, 2), Message, Bundle(<<>>, 3)>>, 1),
          Bundle(<<Bundle(<<Message>>, 1)>>, 2)}

AtOf(m) == IF m.time = Codec!Immediate THEN Immediate ELSE m.time - 1
MCPackets ==
    {[k \in DOMAIN ms |-> AtOf(ms[k])] : ms \in {Codec!ParsePacket(d, Codec!Immediate) : d \in Datagrams}}
===============================================================================
