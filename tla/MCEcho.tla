------------------------------- MODULE MCEcho -------------------------------
(* Two clients with short data: empty, one byte, exactly the limit, one    *)
(* more; output buffers one byte too small, exact and larger.              *)
EXTENDS EchoService

CONSTANTS c1, c2

Arg(data, out_len) == [data |-> data, out_len |-> out_len]

MCApiArgs ==
    {Arg(<<>>, 2), Arg(<<1>>, 0), Arg(<<1>>, 2), Arg(<<1, 2>>, 2), Arg(<<2, 1, 1>>, 3)}
MCDirectArgs == {Arg(<<2, 2>>, 1), Arg(<<2, 2>>, 2), Arg(<<1, 1, 1>>, 3)}
=============================================================================
