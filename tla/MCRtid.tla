------------------------------- MODULE MCRtid -------------------------------
(* Every kind of RTID over names that look like the other kinds, and texts *)
(* of every pattern with one thing wrong.                                  *)
EXTENDS RtidChannel

NameSet == {<<>>, <<"n">>, <<"1">>, <<"n", "@", "1">>, <<"n", "\n">>,
            <<"1", ".", "a", ".", "10">>, <<"1", ".", "1", ".", "A">>,
            <<"1", ".", "1", ".", "fffffffff">>,
            <<":", "1", ".", "10">>, <<":", "1", ".", "10", ".", "a">>,
            <<"RTID(", "0", ")">>}
NumSet == {0, 1, 10, 16}

MCRtids == {Null}
             \cup {Uid(g, i, o, nm) : g \in NumSet, i \in NumSet, o \in NumSet,
                                      nm \in {None} \cup {Some(s) : s \in NameSet}}
             \cup {Raw(s, p) : s \in NameSet, p \in NameSet}

Inners == {<<>>, <<"0">>, <<":">>} \cup NameSet
            \cup {<<x, ".", y, ".", z>> \o w : x \in {"a", "10", "fffffffff"}, y \in {"A", "16"},
                    z \in {"1", "A", "fffffffff"}, w \in {<<>>, <<"@">>, <<"@", "n">>}}
            \cup {<<":", x, ".", "16">> \o w : x \in {"1", "a"},
                    w \in {<<>>, <<"@">>, <<"@", "16">>, <<"@", "a">>, <<"@", "n">>,
                           <<".", "a", "@">>, <<".", "a", "@", "n">>, <<".", "A", "@", "n">>}}
            \cup {s \o <<"@">> \o p : s \in NameSet, p \in NameSet}
MCTexts == Inners \cup {Wrap(s) : s \in Inners}
=============================================================================
