------------------------------- MODULE MCValue -------------------------------
(* Integers on both sides of every narrowing, floats of every fate, texts  *)
(* that spell an RTID, nearly spell one, spell a blob or would be cut, and *)
(* RTIDs that do and do not survive their own text.                        *)
EXTENDS ValueFormats

Ints    == {[ty |-> t[1], neg |-> n, bits |-> t[2]] :
              t \in {<<"i8", 7>>, <<"i16", 8>>, <<"i32", 31>>, <<"i64", 7>>, <<"i64", 8>>,
                     <<"i64", 16>>, <<"i64", 63>>}, n \in BOOLEAN}
             \cup {[ty |-> t[1], neg |-> FALSE, bits |-> t[2]] :
                     t \in {<<"u8", 8>>, <<"u16", 9>>, <<"u32", 32>>, <<"u64", 8>>, <<"u64", 9>>,
                            <<"u64", 32>>, <<"u64", 64>>}}
BlobOf(hex, n) == <<"$BINARY(">> \o hex \o <<", ", n, ")">>
Cut     == <<"RTID(", "0", ")", "NUL", "W">>
Both    == <<"RTID(", "n", "NUL", "W", "@", "1", ")">>
WideTexts == {Cut, Both, <<"W", "NUL", "W">>, BlobOf(<<"6", "4">>, "1") \o <<"NUL", "W">>}
Texts   == {<<>>, <<"k", "NUL">>, <<"RTID(">>, <<"RTID(", "n", ")">>, NullText,
            Wrap(<<"1", ".", "a", ".", "0000000a", "@", "n">>),
            BlobOf(<<"6", "4">>, "1"), BlobOf(<<"f", "F">>, "1"), BlobOf(<<>>, "0"),
            BlobOf(<<"6", "4">>, "2"), BlobOf(<<"6", "4">>, "18446744073709551616"),
            <<"$BINARY(", "<unknown>", ", ", "2", ")">>}
MCLatin1 == Texts \cup {BlobOf(<<"0", "0", "F", "F">>, "2")}
Rtids   == {Null, Uid(1, 16, 10, Some(<<"n">>)), Uid(0, 1, 0, None), Raw(<<"n">>, <<"1">>),
            Raw(<<"1", ".", "a", ".", "10">>, <<"n">>), Raw(<<"n", "@">>, <<"n">>),
            Raw(<<"1", ".", "1", ".", "fffffffff">>, <<>>), Raw(<<"W", "NUL">>, <<"n">>),
            Raw(<<"@">>, <<"W", "NUL">>)}
MCValues == {[kind |-> "null"]}
              \cup {[kind |-> "int", int |-> n, forced |-> f] : n \in Ints, f \in BOOLEAN}
              \cup {FloatVal(ty, x) : ty \in {"f32", "f64"}, x \in {"+0", "-0", "x", "nan"}}
              \cup {StringVal(s) : s \in Texts \cup WideTexts}
              \cup {BinaryVal(b) : b \in {<<>>, <<100>>, <<0, 255>>}}
              \cup {RtidVal(r) : r \in Rtids}
OddValues == {StringVal(BlobOf(<<"6">>, "0")), StringVal(BlobOf(<<"6", "4", "6">>, "1"))}
                \cup {StringVal(BlobOf(<<"6", "4">>, "1"))}
NullValues == {[kind |-> "null"]}

(* A length is no NUL, which the proofs take of ToString's numerals.       *)
ASSUME LengthsSpelled == \A n \in 0 .. 1000 : ToString(n) # "NUL"
=============================================================================
