------------------------------ MODULE DynArrUse ------------------------------
(***************************************************************************)
(* A user of two dynamic arrays: every operation of dynarr.h in any order, *)
(* each one with the outcome in which realloc fails.  The module is shown  *)
(* to implement ListStore: whatever the buffers do, the elements in use    *)
(* are the list the user believes in.                                      *)
(***************************************************************************)
EXTENDS DynArr, FiniteSets

CONSTANT MaxLen       \* bound on len, so that runs are finite

ASSUME UseAssumption == MaxLen \in Nat

VARIABLES arr, other,       \* the two arrays
          ok          \* ret_ok of the last insertion or append

vars == <<arr, other, ok>>

Init == arr = InitZero /\ other = InitZero /\ ok = TRUE

\* realloc returns NULL: Reserve reports it, the array is left alone.
AllocFails(n) == arr.cap < n /\ ok' = FALSE /\ UNCHANGED <<arr, other>>

DoInsert == \E idx \in 0 .. MaxLen, v \in Val :
              /\ arr.len < MaxLen
              /\ \/ arr' = Insert(arr, idx, v) /\ ok' = TRUE /\ UNCHANGED other
                 \/ AllocFails(arr.len + 1)

DoRemove == \E idx \in 0 .. MaxLen :
              arr' = RemoveIdx(arr, idx) /\ UNCHANGED <<other, ok>>

\* The code resizes only downwards (Tools.c:86).
DoResize == \E n \in 0 .. arr.len : arr' = Resize(arr, n) /\ UNCHANGED <<other, ok>>

DoReserve == \E n \in 0 .. MaxLen :
               \/ arr' = Reserve(arr, n) /\ UNCHANGED <<other, ok>>
               \/ AllocFails(n)

\* dynarrReserve returns the buffer, so appending nothing to an array without
\* one is reported as a failure (dynarr.h:93-96).
DoAppend ==
  /\ arr.len + other.len <= MaxLen
  /\ \/ /\ arr' = CopyAppend(arr, Contents(other)) /\ UNCHANGED other
        /\ ok' = (arr'.cap > 0)
     \/ AllocFails(arr.len + other.len)

DoSwap == arr' = other /\ other' = arr /\ UNCHANGED ok

DoClear == arr' = ClearData(arr) /\ UNCHANGED <<other, ok>>

\* dynarrFreeMemory frees the buffer and starts again from nothing.
DoFree == arr' = InitZero /\ UNCHANGED <<other, ok>>

Next == DoInsert \/ DoRemove \/ DoResize \/ DoReserve \/ DoAppend
          \/ DoSwap \/ DoClear \/ DoFree

Spec == Init /\ [][Next]_vars

-----------------------------------------------------------------------------

\* Both arrays are well formed: the length never exceeds the capacity that
\* was allocated, whatever order the operations come in (dynarr.c:12-30).
TypeOK == IsDynArr(arr) /\ IsDynArr(other) /\ ok \in BOOLEAN

\* No operation exposes a slot nobody wrote: the elements in use are always
\* values that were put in (dynarr.h:62-101 grows the buffer before it writes).
NoJunkInUse == \A x \in {arr, other} : \A i \in 0 .. x.len - 1 : x.buf[i] \in Val

\* The buffer never shrinks under a user that keeps the array: only freeing it
\* or exchanging it for the other one gives memory back (dynarr.c:12-22).
CapacityKept == [][arr'.cap >= arr.cap \/ arr' = InitZero \/ arr' = other]_vars

List == INSTANCE ListStore WITH s <- Contents(arr), t <- Contents(other)

\* Refinement: seen through Contents, the arrays are the two lists of ListStore.
IsListStore == List!Spec

=============================================================================
