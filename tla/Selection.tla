------------------------------ MODULE Selection ------------------------------
(* Part of a sequence: what the observations of several modules ask for.    *)
EXTENDS Integers, Sequences

\* What is in S of a sequence, in order.
Only(s, S) ==
  LET only[k \in 0 .. Len(s)] ==
        IF k = 0 THEN <<>>
        ELSE IF s[k] \in S THEN Append(only[k - 1], s[k]) ELSE only[k - 1]
  IN  only[Len(s)]
=============================================================================
