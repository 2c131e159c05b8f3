------------------------------ MODULE ListStore ------------------------------
(***************************************************************************)
(* What a growable array promises its user: two finite lists that can be   *)
(* read, inserted into, cut, extended and exchanged, with no trace of      *)
(* buffers, capacities or reallocation.                                    *)
(***************************************************************************)
EXTENDS Integers, Sequences, SequencesExt

CONSTANTS Val, MaxLen

VARIABLES s, t

Init == s = <<>> /\ t = <<>>

InsertElem == \E i \in 1 .. MaxLen + 1, v \in Val :
                /\ Len(s) < MaxLen
                /\ s' = InsertAt(s, IF i <= Len(s) THEN i ELSE Len(s) + 1, v)
                /\ UNCHANGED t

RemoveElem == \E i \in 1 .. Len(s) : s' = RemoveAt(s, i) /\ UNCHANGED t

\* Cutting the list keeps a prefix.
Cut == \E n \in 0 .. Len(s) : s' = SubSeq(s, 1, n) /\ UNCHANGED t

Extend == /\ Len(s) + Len(t) <= MaxLen
          /\ s' = s \o t
          /\ UNCHANGED t

Exchange == s' = t /\ t' = s

Next == InsertElem \/ RemoveElem \/ Cut \/ Extend \/ Exchange

Spec == Init /\ [][Next]_<<s, t>>

=============================================================================
