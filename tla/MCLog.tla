------------------------------- MODULE MCLog --------------------------------
(* Two threads, a buffer of four characters and eight-bit numbers.         *)
EXTENDS LogRaw

CONSTANTS t1, t2

L(text) == [tag |-> "", arg |-> text]
D(tag, arg) == [tag |-> tag, arg |-> arg]

\* Both ends of the number range, text of the buffer's size, below and above
\* it, an empty string, an unsupported tag and a lone '%' at the end.
MCMessages ==
    << <<L(<<"a", "b", "c", "d">>)>>,
       <<D("d", -128), D("u", -1)>>,
       <<D("i", 127), D("x", -1), D("X", 171)>>,
       <<D("p", 16), L(<<"!">>)>>,
       <<D("s", <<>>), D("d", 0), D("c", "z")>>,
       <<D("s", <<"a", "b", "c", "d", "e">>), D("%", 0)>>,
       <<L(<<"a">>), D("q", 0), D("i", -9)>>,
       <<D("u", 100), D("end", 0)>> >>

MCUnsupportedTag == <<"[", "?", "]">>
=============================================================================
