----------------------------- MODULE MCRecvBuf ------------------------------
(***************************************************************************)
(* RecvBuf for TLC.  The streams are the shortest in which the cases       *)
(* happen; a client may close anywhere in them.                            *)
(***************************************************************************)
EXTENDS RecvBuf

End     == TermSeq
Get     == <<"g">> \o End
MCBody  == [p |-> 2, q |-> 12]
Put     == <<"p">> \o End \o <<"r", "n">>
PutLong == <<"q">> \o End \o <<"r", "n", "r", "n">> \o [i \in 1..8 |-> "b"]

\* Pipelined requests with and without bodies, a body longer than the buffer,
\* one that asks to close, and requests answered by errors: of unknown kind,
\* and with a header longer than MAX_HTTP_HDR_SZIE.
Fitting == {Get \o Put \o Get, Get \o Get \o Get, PutLong \o Get, <<"c">> \o End \o Get, End \o Get,
            <<"g", "x">> \o End \o Get}
\* A header longer than the buffer.
Overlong == {<<"g">> \o [i \in 1..6 |-> "x"] \o End}
All == Fitting \cup Overlong
=============================================================================
