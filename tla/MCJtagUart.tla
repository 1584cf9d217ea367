------------------------------ MODULE MCJtagUart ------------------------------
(***************************************************************************)
(* Values of the constants of JtagUart for TLC: three programs.            *)
(***************************************************************************)
EXTENDS JtagUart

Of(call) == [call |-> call, nonblock |-> FALSE, count |-> <<>>, space |-> 0, arg |-> 0]
Both(r) == {r, [r EXCEPT !.nonblock = TRUE]}

\* A write that does not fit into the buffers.
Write == [Of("write") EXCEPT !.count = <<0, 1, 1>>]
\* One that the end of the ring buffer may cut into two.
Read == [Of("read") EXCEPT !.space = 2]

Printing == Both(Write) \cup {[Of("close") EXCEPT !.nonblock = TRUE]}
\* Some reads ask for no bytes.
Reading == {Read, [Read EXCEPT !.space = 0]}
\* A timeout that is too small counts as none.
ChangingTimeouts == {[Of("ioctl") EXCEPT !.arg = t] : t \in {1, 3}}
                    \cup {[Write EXCEPT !.count = <<1, 1, 1>>], Of("close")}

MCPrograms == {Printing, Reading, ChangingTimeouts}
=============================================================================
