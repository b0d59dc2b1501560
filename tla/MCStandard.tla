----------------------------- MODULE MCStandard -----------------------------
(* Values for the constants: the two special texts, two Latin-1 texts and  *)
(* two that are not, an RTID of each kind, integers around the varint      *)
(* limits.                                                                 *)
EXTENDS StandardRoundTrip

Text0       == R!NullText
FewStrings  == {<<"*">>, Text0, <<"k">>}
ManyStrings == {<<"k">>, <<"l">>, <<"W">>, <<"W", "W">>}
AllLatin1   == {<<"*">>, Text0, <<"k">>, <<"l">>}
Star        == <<"*">>

FewInts  == {[ty |-> "i32", neg |-> TRUE, bits |-> 1], [ty |-> "u64", neg |-> FALSE, bits |-> 50]}
FewRtids == {Uid(1, 16, 10, None), Uid(0, 1, 16, Some(<<"k">>)), Raw(<<"k">>, Text0)}
FewBlobs == {<<100>>}
NoInts   == {}
NoRtids  == {}

StringCalls == {"str", "direct", "tuple"}
ShapeCalls  == {"str", "seq", "tuple"}

LeafCalls  == {"bool", "float", "int", "none", "bytes", "rtid", "varint", "direct", "unsupported"}
AllCalls   == LeafCalls \cup {"str", "seq", "map"}
=============================================================================
