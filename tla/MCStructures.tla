---------------------------- MODULE MCStructures ----------------------------
(* The data structures side by side: they share nothing, and a behaviour     *)
(* uses one of them.  Arrays of two values; two lists over a few nodes, which*)
(* are numbered and compared by the parity of their number; two tables over  *)
(* nodes of which two have the same key; a buffer of four bytes; random      *)
(* numbers with limbs of four bits.                                          *)
EXTENDS TLC, DynArrUse, List, Hashtable, MemFunc, Rand48

CONSTANTS v1, v2

MCVal == {v1, v2}
MCNode == 1 .. 4
MCRank(n) == n % 2
MCKey(n) == <<1, 1, 2, 3>>[n]
MCHash(k) == k

VARIABLE using

MCRandA == <<13, 12, 5>>

MCCuts == {<<2, 0, 2>>, <<1, 3>>}

allVars == <<using, vars, listVars, htVars, memVars, randVars>>

AllInit ==
  /\ using \in {"arrays", "lists", "tables", "memory", "random"}
  /\ Init /\ ListInit /\ HtInit /\ MemInit /\ RandInit

AllNext ==
  /\ UNCHANGED using
  /\ \/ using = "arrays" /\ Next /\ UNCHANGED <<listVars, htVars, memVars, randVars>>
     \/ using = "lists" /\ ListNext /\ UNCHANGED <<vars, htVars, memVars, randVars>>
     \/ using = "tables" /\ HtNext /\ UNCHANGED <<vars, listVars, memVars, randVars>>
     \/ using = "memory" /\ MemNext /\ UNCHANGED <<vars, listVars, htVars, randVars>>
     \/ using = "random" /\ RandStep /\ UNCHANGED <<vars, listVars, htVars, memVars>>

AllSpec == AllInit /\ [][AllNext]_allVars

\* The functions on bytes, numbers and lists that only compute give what their
\* definitions say (memfunc.c, misc.c, random.c, list.c:122-139).
FunctionsAgree == MemFunctionsAgree /\ RandIsCongruential /\ ReadsStayInside
=============================================================================
