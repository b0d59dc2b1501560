------------------------------ MODULE MCCompact ------------------------------
(* A key that has the digits of the blob, a wide text with a NUL inside, a *)
(* Latin-1 text that ends in one, and one text of each encoding that       *)
(* brings the file past the last offset.                                   *)
EXTENDS CompactRoundTrip

X(n, c)    == [i \in 1 .. n |-> c]
MCLatin1   == {<<"6", "4">>, <<"n", "NUL">>, X(Word - 1, "x")}
MCStrings  == MCLatin1 \cup {<<"W", "NUL", "W">>, X(Word \div 4, "W")}
MCInts     == {[ty |-> "u64", neg |-> FALSE, bits |-> 50]}
MCRtids    == {Uid(1, 16, 10, Some(<<"6", "4">>))}
MCBlobs    == {<<100>>}
=============================================================================
