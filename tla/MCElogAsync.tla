----------------------------- MODULE MCElogAsync -----------------------------
(* ElogAsync with a buffer of a few bytes and two callers. *)
EXTENDS ElogAsync

CONSTANTS t1, t2

One == {t1}
Two == {t1, t2}

MCByte == {"a", "b", "NL"}

\* A short line, and one that is longer than the poll buffer.
Lines   == {<<"a", "NL">>, <<"b", "b", "b", "NL">>}
AndNone == {<<"a", "NL">>, <<>>}
MCBanner == <<"b", "NL">>
=============================================================================
