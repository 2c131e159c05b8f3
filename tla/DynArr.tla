------------------------------- MODULE DynArr -------------------------------
(***************************************************************************)
(* The growable array of components/header/utils/dynarr.h (macros) and     *)
(* components/source/utils/dynarr.c: a buffer of cap slots of which the    *)
(* first len are in use.  buf is indexed from 0, as in the code, so a loop *)
(* over an array reads here as it does there.  A slot that was allocated   *)
(* but never written holds Junk.                                           *)
(*                                                                         *)
(* Every operator is the value of the array when the allocation succeeds;  *)
(* when realloc fails the macros leave the array as it was, and the caller *)
(* models that as an action that changes nothing.                          *)
(***************************************************************************)
EXTENDS Integers, Sequences

CONSTANTS Val,     \* the values an array holds
          Junk     \* what a slot holds before it is written

\* A well-formed array: as many slots as the capacity says, len of them in use.
IsDynArr(a) == /\ a.len \in Nat /\ a.cap \in Nat
               /\ a.len <= a.cap
               /\ a = [buf |-> a.buf, len |-> a.len, cap |-> a.cap]
               /\ DOMAIN a.buf = 0 .. a.cap - 1
               /\ \A i \in 0 .. a.cap - 1 : a.buf[i] \in Val \cup {Junk}

\* The elements in use, in order: what the array means to its user.
Contents(a) == [i \in 1 .. a.len |-> a.buf[i - 1]]

\* dynarrInitZero: no buffer at all.
InitZero == [buf |-> [i \in 0 .. -1 |-> Junk], len |-> 0, cap |-> 0]

\* dynarrReserve grows the buffer to exactly the capacity asked for, and
\* never shrinks it.
Reserve(a, n) ==
  IF a.cap >= n THEN a
  ELSE [buf |-> [i \in 0 .. n - 1 |-> IF i < a.cap THEN a.buf[i] ELSE Junk],
        len |-> a.len, cap |-> n]

\* dynarrResize only moves len: the elements beyond the old len are whatever
\* the buffer holds there.
Resize(a, n) == [Reserve(a, n) EXCEPT !.len = n]

\* Mutant: the shift stops one short of the last element.
InsertShiftsShort(a, idx, v) ==
  LET r   == Reserve(a, a.len + 1)
      pos == IF idx < a.len THEN idx ELSE a.len
  IN  [buf |-> [i \in 0 .. r.cap - 1 |->
                  IF i = pos THEN v
                  ELSE IF pos < i /\ i < a.len THEN a.buf[i - 1]
                  ELSE r.buf[i]],
       len |-> a.len + 1, cap |-> r.cap]

\* dynarrInsert shifts the tail up by one; an index beyond len appends.
Insert(a, idx, v) ==
  LET r   == Reserve(a, a.len + 1)
      pos == IF idx < a.len THEN idx ELSE a.len
  IN  [buf |-> [i \in 0 .. r.cap - 1 |->
                  IF i = pos THEN v
                  ELSE IF pos < i /\ i <= a.len THEN a.buf[i - 1]
                  ELSE r.buf[i]],
       len |-> a.len + 1, cap |-> r.cap]

\* Mutant: the last element takes the place of the removed one.
RemoveBySwap(a, idx) ==
  IF idx >= a.len THEN a
  ELSE [buf |-> [i \in 0 .. a.cap - 1 |-> IF i = idx THEN a.buf[a.len - 1] ELSE a.buf[i]],
        len |-> a.len - 1, cap |-> a.cap]

\* dynarrRemoveIdx shifts the tail down by one; an index beyond len does nothing.
RemoveIdx(a, idx) ==
  IF idx >= a.len THEN a
  ELSE [buf |-> [i \in 0 .. a.cap - 1 |->
                   IF idx <= i /\ i + 1 < a.len THEN a.buf[i + 1] ELSE a.buf[i]],
        len |-> a.len - 1, cap |-> a.cap]

\* dynarrCopyAppend copies a C array, here a sequence, behind the elements.
CopyAppend(a, s) ==
  LET r == Reserve(a, a.len + Len(s))
  IN  [buf |-> [i \in 0 .. r.cap - 1 |->
                  IF a.len <= i /\ i < a.len + Len(s) THEN s[i - a.len + 1] ELSE r.buf[i]],
       len |-> a.len + Len(s), cap |-> r.cap]

\* dynarrClearData forgets the elements and keeps the buffer.
ClearData(a) == [a EXCEPT !.len = 0]

=============================================================================
