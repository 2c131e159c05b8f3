---------------------------- MODULE MCTinySystem ----------------------------
(* TinySystem with small sets of clients and descriptors. *)
EXTENDS TinySystem, TLC

CONSTANTS c1, c2, c3

Two   == {c1, c2}
Three == {c1, c2, c3}
Nobody == {}
First == {c1}

\* How many messages the users type.
Silent   == [c \in Clients |-> 0]
TwoNone  == [c \in Clients |-> IF c = c1 THEN 2 ELSE 0]
OneNone  == [c \in Clients |-> IF c = c1 THEN 1 ELSE 0]

\* What the slot behind t_idxToRm may hold: never an index, or any index.
NoIndex  == {-1}
AnyIndex == {-1, 0, 1, 2}

\* Silent clients differ only by name.
Symm     == Permutations(Clients)
=============================================================================
