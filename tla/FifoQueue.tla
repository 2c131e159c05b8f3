------------------------------ MODULE FifoQueue ------------------------------
(***************************************************************************)
(* What a queue between threads promises: items come out in the order they *)
(* went in, each one once, some number of them at a time.                  *)
(***************************************************************************)
EXTENDS Naturals, Sequences

CONSTANTS Item

VARIABLES q,      \* what is in the queue
          out     \* what was taken, in order

Init == q = <<>> /\ out = <<>>

\* One or more items go in at the back.
Put == /\ q' \in Seq(Item) /\ Len(q') > Len(q)
       /\ SubSeq(q', 1, Len(q)) = q
       /\ UNCHANGED out

\* Some items, from the front, come out.
Take == \E k \in 1 .. Len(q) : /\ out' = out \o SubSeq(q, 1, k)
                               /\ q' = SubSeq(q, k + 1, Len(q))

Next == Put \/ Take

Spec == Init /\ [][Next]_<<q, out>>

=============================================================================
