--------------------------- MODULE StructuresProofs ---------------------------
(***************************************************************************)
(* Proofs about the data structures, which share nothing: dynamic arrays   *)
(* (DynArrUse), for every set of values, every bound on the length and     *)
(* every order of the operations, linked lists (List), for any nodes and   *)
(* any number of lists, and hash tables (Hashtable), for any nodes, keys,  *)
(* hash and number of tables.                                              *)
(***************************************************************************)
EXTENDS DynArrUse, List, Hashtable, DynArrLemmas, SelectionLemmas, SequenceTheorems,
        FiniteSetTheorems, TLAPS

-----------------------------------------------------------------------------
(* Dynamic arrays. *)

\* Both arrays are well formed and their slots in use are written.
UseInv == TypeOK /\ NoJunkInUse

LEMMA UseInvParts ==
  UseInv <=> IsDynArr(arr) /\ IsDynArr(other) /\ ok \in BOOLEAN /\ Filled(arr) /\ Filled(other)
  BY DEF UseInv, TypeOK, NoJunkInUse, Filled

LEMMA UseInvInit == Init => UseInv
  BY InitZeroOK DEF Init, UseInv, TypeOK, NoJunkInUse, Filled

\* One step per operation; the array keeps its capacity or is the other, or nothing.
LEMMA ArraysStep ==
  ASSUME IsDynArr(arr), IsDynArr(other), Filled(arr), Filled(other), Next
  PROVE  /\ IsDynArr(arr') /\ IsDynArr(other') /\ Filled(arr') /\ Filled(other')
         /\ arr'.cap >= arr.cap \/ arr' = InitZero \/ arr' = other
<1>a. arr.cap \in Nat /\ other.cap \in Nat /\ arr.len \in Nat
  BY DEF IsDynArr
<1>b. ASSUME UNCHANGED <<arr, other>>
      PROVE  /\ IsDynArr(arr') /\ IsDynArr(other') /\ Filled(arr') /\ Filled(other')
             /\ arr'.cap >= arr.cap
  BY <1>a, <1>b
<1>1. CASE DoInsert
  <2>1. PICK idx \in 0 .. MaxLen, v \in Val :
          \/ arr' = Insert(arr, idx, v) /\ UNCHANGED other
          \/ UNCHANGED <<arr, other>>
    BY <1>1 DEF DoInsert, AllocFails
  <2>2. CASE arr' = Insert(arr, idx, v) /\ UNCHANGED other
    BY <2>2, InsertOK
  <2> QED BY <1>b, <2>1, <2>2
<1>2. CASE DoRemove
  <2>1. PICK idx \in 0 .. MaxLen : arr' = RemoveIdx(arr, idx) /\ UNCHANGED other
    BY <1>2 DEF DoRemove
  <2>2. IsDynArr(arr') /\ Filled(arr') /\ arr'.cap = arr.cap
    BY <2>1, RemoveOK
  <2> QED BY <1>a, <2>1, <2>2
<1>3. CASE DoResize
  <2>1. PICK n \in 0 .. arr.len : arr' = Resize(arr, n) /\ UNCHANGED other
    BY <1>3 DEF DoResize
  <2>2. IsDynArr(arr') /\ Filled(arr') /\ arr'.cap = arr.cap
    BY <2>1, ResizeOK
  <2> QED BY <1>a, <2>1, <2>2
<1>4. CASE DoReserve
  <2>1. PICK n \in 0 .. MaxLen : (arr' = Reserve(arr, n) /\ UNCHANGED other) \/ UNCHANGED <<arr, other>>
    BY <1>4 DEF DoReserve, AllocFails
  <2>2. CASE arr' = Reserve(arr, n) /\ UNCHANGED other
    <3>1. /\ IsDynArr(arr') /\ arr'.len = arr.len /\ arr'.cap >= arr.cap
          /\ \A i \in 0 .. arr.cap - 1 : arr'.buf[i] = arr.buf[i]
      BY <2>2, ReserveOK, Z3
    <3>2. Filled(arr')
      BY <3>1 DEF Filled, IsDynArr
    <3> QED BY <2>2, <3>1, <3>2
  <2> QED BY <1>b, <2>1, <2>2
<1>5. CASE DoAppend
  <2>1. (arr' = CopyAppend(arr, Contents(other)) /\ UNCHANGED other) \/ UNCHANGED <<arr, other>>
    BY <1>5 DEF DoAppend, AllocFails
  <2>2. CASE arr' = CopyAppend(arr, Contents(other)) /\ UNCHANGED other
    <3>1. Contents(other) \in Seq(Val)
      BY ContentsType
    <3> QED BY <2>2, <3>1, CopyAppendOK
  <2> QED BY <1>b, <2>1, <2>2
<1>6. CASE DoSwap
  BY <1>6 DEF DoSwap
<1>7. CASE DoClear
  <2>1. arr' = [buf |-> arr.buf, len |-> 0, cap |-> arr.cap] /\ UNCHANGED other
    BY <1>7 DEF DoClear, ClearData, IsDynArr
  <2> QED BY <1>a, <2>1 DEF IsDynArr, Filled
<1>8. CASE DoFree
  BY <1>8, InitZeroOK DEF DoFree
<1> QED BY <1>1, <1>2, <1>3, <1>4, <1>5, <1>6, <1>7, <1>8 DEF Next

LEMMA OkStep == ok \in BOOLEAN /\ Next => ok' \in BOOLEAN
<1> SUFFICES ASSUME ok \in BOOLEAN, Next PROVE ok' \in BOOLEAN
  OBVIOUS
<1>1. ASSUME NEW n, AllocFails(n) PROVE ok' \in BOOLEAN
  BY <1>1, Zenon DEF AllocFails
<1>2. CASE DoInsert
  BY <1>1, <1>2, Zenon DEF DoInsert
<1>3. CASE DoReserve
  BY <1>1, <1>3, Zenon DEF DoReserve
<1>4. CASE DoAppend
  <2>1. (arr'.cap > 0) \in BOOLEAN
    BY SMT
  <2> QED BY <1>1, <1>4, <2>1, Zenon DEF DoAppend
<1>5. CASE DoRemove \/ DoResize \/ DoSwap \/ DoClear \/ DoFree
  BY <1>5, Zenon DEF DoRemove, DoResize, DoSwap, DoClear, DoFree
<1> QED BY <1>2, <1>3, <1>4, <1>5 DEF Next

LEMMA UseStep ==
  ASSUME UseInv, Next
  PROVE  UseInv' /\ (arr'.cap >= arr.cap \/ arr' = InitZero \/ arr' = other)
<1>1. IsDynArr(arr) /\ IsDynArr(other) /\ ok \in BOOLEAN /\ Filled(arr) /\ Filled(other)
  BY UseInvParts
<1>2. /\ IsDynArr(arr') /\ IsDynArr(other') /\ Filled(arr') /\ Filled(other')
      /\ arr'.cap >= arr.cap \/ arr' = InitZero \/ arr' = other
  BY <1>1, ArraysStep
<1>3. ok' \in BOOLEAN
  BY <1>1, OkStep
<1>4. UseInv'
  BY <1>2, <1>3 DEF UseInv, TypeOK, NoJunkInUse, Filled
<1> QED BY <1>2, <1>4

LEMMA UseInvNext == UseInv /\ [Next]_vars => UseInv'
<1> SUFFICES ASSUME UseInv, [Next]_vars PROVE UseInv'
  OBVIOUS
<1>1. CASE Next
  BY <1>1, UseStep
<1>2. CASE UNCHANGED vars
  BY <1>2 DEF vars, UseInv, TypeOK, NoJunkInUse
<1> QED BY <1>1, <1>2

LEMMA UseInvAlways == Spec => []UseInv
  BY UseInvInit, UseInvNext, PTL DEF Spec

\* Whatever the order of the operations, and whichever of the reallocations
\* fail, the arrays stay well formed: len never exceeds the buffer.
THEOREM ArraysWellFormed == Spec => []TypeOK
<1>1. UseInv => TypeOK
  BY DEF UseInv
<1> QED BY <1>1, UseInvAlways, PTL

\* ... and no operation exposes a slot that nobody wrote.
THEOREM NoJunkExposed == Spec => []NoJunkInUse
<1>1. UseInv => NoJunkInUse
  BY DEF UseInv
<1> QED BY <1>1, UseInvAlways, PTL

\* Memory is given back only by freeing the array or exchanging it.
THEOREM BuffersNeverShrink == Spec => CapacityKept
<1>1. UseInv /\ [Next]_vars => [arr'.cap >= arr.cap \/ arr' = InitZero \/ arr' = other]_vars
  BY UseStep
<1> QED BY <1>1, UseInvAlways, PTL DEF Spec, CapacityKept

-----------------------------------------------------------------------------
(***************************************************************************)
(* The arrays implement ListStore.  Seen through Contents, each operation  *)
(* is the one on lists: that is a lemma on sequences (Inserted, Deleted)   *)
(* and one on the shift that the code does in the buffer.                  *)
(***************************************************************************)

LEMMA InsertedSeq ==
  ASSUME NEW q \in Seq(Val), NEW i \in 1 .. Len(q) + 1, NEW v \in Val
  PROVE  /\ List!InsertAt(q, i, v) \in Seq(Val)
         /\ Len(List!InsertAt(q, i, v)) = Len(q) + 1
         /\ \A j \in 1 .. Len(q) + 1 :
              List!InsertAt(q, i, v)[j] = IF j < i THEN q[j] ELSE IF j = i THEN v ELSE q[j - 1]
<1> DEFINE front == SubSeq(q, 1, i - 1)
           back == SubSeq(q, i, Len(q))
<1>1. Len(q) \in Nat /\ \A k \in 1 .. Len(q) : q[k] \in Val
  OBVIOUS
<1>2. /\ front \in Seq(Val) /\ Len(front) = i - 1
      /\ \A j \in 1 .. i - 1 : front[j] = q[j]
  <2>1. 1 \in Int /\ i - 1 \in Int /\ \A k \in 1 .. i - 1 : q[k] \in Val
    BY <1>1
  <2> QED BY <2>1, SubSeqProperties
<1>3. /\ back \in Seq(Val) /\ Len(back) = Len(q) - i + 1
      /\ \A j \in 1 .. Len(q) - i + 1 : back[j] = q[i + j - 1]
  <2>1. i \in Int /\ Len(q) \in Int /\ \A k \in i .. Len(q) : q[k] \in Val
    BY <1>1
  <2> QED BY <1>1, <2>1, SubSeqProperties
<1>4. List!InsertAt(q, i, v) = (front \o <<v>>) \o back
  BY DEF List!InsertAt
<1> HIDE DEF front, back
<1>5. /\ front \o <<v>> \in Seq(Val) /\ Len(front \o <<v>>) = i
      /\ \A j \in 1 .. i : (front \o <<v>>)[j] = IF j < i THEN q[j] ELSE v
  <2>1. <<v>> \in Seq(Val) /\ Len(<<v>>) = 1 /\ <<v>>[1] = v
    OBVIOUS
  <2>2. /\ front \o <<v>> \in Seq(Val) /\ Len(front \o <<v>>) = Len(front) + 1
        /\ \A j \in 1 .. Len(front) + 1 :
             (front \o <<v>>)[j] = IF j <= Len(front) THEN front[j] ELSE <<v>>[j - Len(front)]
    BY <1>2, <2>1, ConcatProperties
  <2> QED BY <1>2, <2>1, <2>2
<1>6. /\ (front \o <<v>>) \o back \in Seq(Val)
      /\ Len((front \o <<v>>) \o back) = Len(q) + 1
      /\ \A j \in 1 .. Len(q) + 1 :
           ((front \o <<v>>) \o back)[j] = IF j <= i THEN (front \o <<v>>)[j] ELSE back[j - i]
  <2> DEFINE fv == front \o <<v>>
  <2> HIDE DEF fv
  <2>1. fv \in Seq(Val) /\ Len(fv) = i
    BY <1>5 DEF fv
  <2>2. /\ fv \o back \in Seq(Val)
        /\ Len(fv \o back) = Len(fv) + Len(back)
        /\ \A j \in 1 .. Len(fv) + Len(back) :
             (fv \o back)[j] = IF j <= Len(fv) THEN fv[j] ELSE back[j - Len(fv)]
    BY <1>3, <2>1, ConcatProperties
  <2>3. Len(fv) + Len(back) = Len(q) + 1
    BY <1>1, <1>3, <2>1
  <2>4. /\ fv \o back \in Seq(Val) /\ Len(fv \o back) = Len(q) + 1
        /\ \A j \in 1 .. Len(q) + 1 :
             (fv \o back)[j] = IF j <= i THEN fv[j] ELSE back[j - i]
    BY <2>1, <2>2, <2>3
  <2> QED BY <2>4 DEF fv
<1>7. ASSUME NEW j \in 1 .. Len(q) + 1, j > i
      PROVE  back[j - i] = q[j - 1]
  <2>1. j - i \in 1 .. Len(q) - i + 1 /\ i + (j - i) - 1 = j - 1
    BY <1>1, <1>7
  <2> QED BY <1>3, <2>1
<1>8. ASSUME NEW j \in 1 .. Len(q) + 1
      PROVE  ((front \o <<v>>) \o back)[j] = IF j < i THEN q[j] ELSE IF j = i THEN v ELSE q[j - 1]
  <2>1. CASE j <= i
    <3>1. j \in 1 .. i
      BY <2>1
    <3> QED BY <1>5, <1>6, <2>1, <3>1
  <2>2. CASE j > i
    BY <1>6, <1>7, <2>2
  <2>3. j <= i \/ j > i
    BY <1>1
  <2> QED BY <2>1, <2>2, <2>3, Zenon
<1> QED BY <1>4, <1>6, <1>8

LEMMA DeletedSeq ==
  ASSUME NEW q \in Seq(Val), NEW i \in 1 .. Len(q)
  PROVE  /\ List!RemoveAt(q, i) \in Seq(Val)
         /\ Len(List!RemoveAt(q, i)) = Len(q) - 1
         /\ \A j \in 1 .. Len(q) - 1 :
              List!RemoveAt(q, i)[j] = IF j < i THEN q[j] ELSE q[j + 1]
<1> DEFINE front == SubSeq(q, 1, i - 1)
           back == SubSeq(q, i + 1, Len(q))
<1>1. Len(q) \in Nat /\ \A k \in 1 .. Len(q) : q[k] \in Val
  OBVIOUS
<1>2. /\ front \in Seq(Val) /\ Len(front) = i - 1
      /\ \A j \in 1 .. i - 1 : front[j] = q[j]
  <2>1. 1 \in Int /\ i - 1 \in Int /\ \A k \in 1 .. i - 1 : q[k] \in Val
    BY <1>1
  <2> QED BY <2>1, SubSeqProperties
<1>3. /\ back \in Seq(Val) /\ Len(back) = Len(q) - i
      /\ \A j \in 1 .. Len(q) - i : back[j] = q[i + j]
  <2>1. i + 1 \in Int /\ Len(q) \in Int /\ \A k \in i + 1 .. Len(q) : q[k] \in Val
    BY <1>1
  <2> QED BY <1>1, <2>1, SubSeqProperties
<1>4. List!RemoveAt(q, i) = front \o back
  BY DEF List!RemoveAt
<1> HIDE DEF front, back
<1>5. /\ front \o back \in Seq(Val)
      /\ Len(front \o back) = Len(q) - 1
      /\ \A j \in 1 .. Len(q) - 1 :
           (front \o back)[j] = IF j <= i - 1 THEN front[j] ELSE back[j - (i - 1)]
  <2>1. /\ front \o back \in Seq(Val)
        /\ Len(front \o back) = Len(front) + Len(back)
        /\ \A j \in 1 .. Len(front) + Len(back) :
             (front \o back)[j] = IF j <= Len(front) THEN front[j] ELSE back[j - Len(front)]
    BY <1>2, <1>3, ConcatProperties
  <2>2. Len(front) + Len(back) = Len(q) - 1
    BY <1>1, <1>2, <1>3
  <2> QED BY <1>2, <2>1, <2>2
<1>6. ASSUME NEW j \in 1 .. Len(q) - 1, j >= i
      PROVE  back[j - (i - 1)] = q[j + 1]
  <2>1. j - (i - 1) \in 1 .. Len(q) - i /\ i + (j - (i - 1)) = j + 1
    BY <1>1, <1>6
  <2> QED BY <1>3, <2>1
<1> QED BY <1>1, <1>2, <1>4, <1>5, <1>6

\* Element j of the contents is slot j - 1 of the buffer.
LEMMA SlotIs ==
  ASSUME NEW x, IsDynArr(x), NEW j \in 1 .. x.len
  PROVE  Contents(x)[j] = x.buf[j - 1]
  BY DEF Contents, IsDynArr

\* Two filled arrays with the same slots in use mean the same list.
LEMMA SameContents ==
  ASSUME NEW x, IsDynArr(x), Filled(x), NEW q \in Seq(Val), Len(q) = x.len,
         \A j \in 1 .. x.len : q[j] = x.buf[j - 1]
  PROVE  Contents(x) = q
<1>1. Contents(x) \in Seq(Val) /\ Len(Contents(x)) = x.len
  BY ContentsType
<1>2. \A j \in 1 .. Len(Contents(x)) : Contents(x)[j] = q[j]
  BY <1>1, SlotIs
<1> QED BY <1>1, <1>2, SeqEqual

LEMMA InsertIsInsertAt ==
  ASSUME NEW x, IsDynArr(x), Filled(x), NEW idx \in Nat, NEW v \in Val
  PROVE  Contents(Insert(x, idx, v)) =
           List!InsertAt(Contents(x), IF idx + 1 <= x.len THEN idx + 1 ELSE x.len + 1, v)
<1> DEFINE q == Contents(x)
           y == Insert(x, idx, v)
           i == IF idx + 1 <= x.len THEN idx + 1 ELSE x.len + 1
           r == Reserve(x, x.len + 1)
<1>1. x.len \in Nat /\ x.cap \in Nat /\ x.len <= x.cap
  BY DEF IsDynArr
<1>2. q \in Seq(Val) /\ Len(q) = x.len
  BY ContentsType
<1>3. i \in 1 .. x.len + 1
  BY <1>1
<1>4. IsDynArr(y) /\ y.len = x.len + 1 /\ Filled(y)
  BY InsertOK
<1>5. r.cap \in Nat /\ r.cap >= x.len + 1 /\ \A k \in 0 .. x.cap - 1 : r.buf[k] = x.buf[k]
  <2>1. x.len + 1 \in Nat
    BY <1>1
  <2> QED BY <2>1, ReserveOK DEF IsDynArr
<1>6. \A k \in 0 .. r.cap - 1 :
        y.buf[k] = IF k = i - 1 THEN v
                   ELSE IF i - 1 < k /\ k <= x.len THEN x.buf[k - 1] ELSE r.buf[k]
  <2>1. i - 1 = IF idx < x.len THEN idx ELSE x.len
    BY <1>1
  <2> HIDE DEF i
  <2> QED BY <2>1 DEF Insert
<1>7. \A j \in 1 .. x.len : q[j] = x.buf[j - 1]
  BY SlotIs
<1> HIDE DEF q, y, i, r
<1>8. /\ List!InsertAt(q, i, v) \in Seq(Val) /\ Len(List!InsertAt(q, i, v)) = x.len + 1
      /\ \A j \in 1 .. x.len + 1 :
           List!InsertAt(q, i, v)[j] = IF j < i THEN q[j] ELSE IF j = i THEN v ELSE q[j - 1]
  BY <1>2, <1>3, InsertedSeq, Z3
<1>9. ASSUME NEW j \in 1 .. x.len + 1 PROVE List!InsertAt(q, i, v)[j] = y.buf[j - 1]
  <2>0. j - 1 \in 0 .. r.cap - 1 /\ j \in Int /\ i \in Int
    BY <1>1, <1>3, <1>5
  <2>1. CASE j < i
    <3>1. j \in 1 .. x.len /\ j - 1 \in 0 .. x.cap - 1 /\ j - 1 # i - 1 /\ ~(i - 1 < j - 1)
      BY <1>1, <1>3, <2>1
    <3> QED BY <1>5, <1>6, <1>7, <1>8, <2>0, <2>1, <3>1
  <2>2. CASE j = i
    BY <1>6, <1>8, <2>0, <2>2
  <2>3. CASE j > i
    <3>1. j - 1 \in 1 .. x.len /\ j - 1 # i - 1 /\ i - 1 < j - 1 /\ j - 1 <= x.len
      BY <1>1, <1>3, <2>3
    <3>2. y.buf[j - 1] = x.buf[(j - 1) - 1]
      BY <1>6, <2>0, <3>1
    <3>3. List!InsertAt(q, i, v)[j] = q[j - 1]
      BY <1>8, <2>0, <2>3
    <3> QED BY <1>7, <3>1, <3>2, <3>3
  <2> QED BY <2>0, <2>1, <2>2, <2>3
<1>10. Contents(y) = List!InsertAt(q, i, v)
  BY <1>4, <1>8, <1>9, SameContents
<1> QED BY <1>10 DEF q, y, i

LEMMA RemoveIsRemoveAt ==
  ASSUME NEW x, IsDynArr(x), Filled(x), NEW idx \in Nat, idx < x.len
  PROVE  Contents(RemoveIdx(x, idx)) = List!RemoveAt(Contents(x), idx + 1)
<1> DEFINE q == Contents(x)
           y == RemoveIdx(x, idx)
<1>1. x.len \in Nat /\ x.cap \in Nat /\ x.len <= x.cap
  BY DEF IsDynArr
<1>2. q \in Seq(Val) /\ Len(q) = x.len
  BY ContentsType
<1>3. IsDynArr(y) /\ Filled(y)
  BY RemoveOK
<1>4. /\ y.len = x.len - 1
      /\ \A k \in 0 .. x.cap - 1 :
           y.buf[k] = IF idx <= k /\ k + 1 < x.len THEN x.buf[k + 1] ELSE x.buf[k]
  BY <1>1 DEF RemoveIdx
<1>5. \A j \in 1 .. x.len : q[j] = x.buf[j - 1]
  BY SlotIs
<1> HIDE DEF q, y
<1>6. /\ List!RemoveAt(q, idx + 1) \in Seq(Val) /\ Len(List!RemoveAt(q, idx + 1)) = x.len - 1
      /\ \A j \in 1 .. x.len - 1 :
           List!RemoveAt(q, idx + 1)[j] = IF j < idx + 1 THEN q[j] ELSE q[j + 1]
  <2>1. idx + 1 \in 1 .. Len(q)
    BY <1>1, <1>2
  <2>2. /\ List!RemoveAt(q, idx + 1) \in Seq(Val)
        /\ Len(List!RemoveAt(q, idx + 1)) = Len(q) - 1
        /\ \A j \in 1 .. Len(q) - 1 :
             List!RemoveAt(q, idx + 1)[j] = IF j < idx + 1 THEN q[j] ELSE q[j + 1]
    BY <1>2, <2>1, DeletedSeq, Zenon
  <2> QED BY ONLY <1>2, <2>2, Zenon
<1>7. ASSUME NEW j \in 1 .. x.len - 1 PROVE List!RemoveAt(q, idx + 1)[j] = y.buf[j - 1]
  <2>1. j - 1 \in 0 .. x.cap - 1 /\ j \in 1 .. x.len /\ j + 1 \in 1 .. x.len
    BY <1>1
  <2>2. CASE j < idx + 1
    <3>1. y.buf[j - 1] = x.buf[j - 1]
      BY <1>4, <2>1, <2>2
    <3> QED BY <1>5, <1>6, <2>1, <2>2, <3>1
  <2>3. CASE ~(j < idx + 1)
    <3>1. y.buf[j - 1] = x.buf[(j - 1) + 1]
      BY <1>1, <1>4, <2>1, <2>3
    <3>2. q[j + 1] = x.buf[(j + 1) - 1] /\ (j + 1) - 1 = (j - 1) + 1
      BY <1>5, <2>1
    <3> QED BY <1>6, <2>3, <3>1, <3>2
  <2> QED BY <2>2, <2>3
<1>8. Contents(y) = List!RemoveAt(q, idx + 1)
  BY <1>3, <1>4, <1>6, <1>7, SameContents
<1> QED BY <1>8 DEF q, y

LEMMA ResizeIsCut ==
  ASSUME NEW x, IsDynArr(x), Filled(x), NEW n \in 0 .. x.len
  PROVE  Contents(Resize(x, n)) = SubSeq(Contents(x), 1, n)
<1>1. /\ Contents(x) \in Seq(Val) /\ Len(Contents(x)) = x.len
      /\ \A j \in 1 .. x.len : Contents(x)[j] = x.buf[j - 1]
  BY ContentsType, SlotIs
<1>2. /\ IsDynArr(Resize(x, n)) /\ Filled(Resize(x, n))
      /\ Resize(x, n).len = n /\ Resize(x, n).buf = x.buf
  BY ResizeOK
<1>3. x.len \in Nat
  BY DEF IsDynArr
<1> DEFINE q == Contents(x)
<1> HIDE DEF q
<1>4. /\ SubSeq(q, 1, n) \in Seq(Val) /\ Len(SubSeq(q, 1, n)) = n
      /\ \A j \in 1 .. n : SubSeq(q, 1, n)[j] = q[j]
  <2>1. 1 \in Int /\ n \in Int /\ \A k \in 1 .. n : q[k] \in Val
    BY <1>1, <1>3 DEF q
  <2> QED BY <2>1, <1>3, SubSeqProperties
<1>5. \A j \in 1 .. n : SubSeq(q, 1, n)[j] = x.buf[j - 1]
  BY <1>1, <1>3, <1>4 DEF q
<1>6. Contents(Resize(x, n)) = SubSeq(q, 1, n)
  BY <1>2, <1>4, <1>5, SameContents
<1> QED BY <1>6 DEF q

LEMMA CopyAppendIsConcat ==
  ASSUME NEW x, IsDynArr(x), Filled(x), NEW q \in Seq(Val)
  PROVE  Contents(CopyAppend(x, q)) = Contents(x) \o q
<1> DEFINE y == CopyAppend(x, q)
           r == Reserve(x, x.len + Len(q))
           c == Contents(x)
<1>1. x.len \in Nat /\ x.cap \in Nat /\ x.len <= x.cap /\ Len(q) \in Nat
  BY DEF IsDynArr
<1>2. /\ c \in Seq(Val) /\ Len(c) = x.len
      /\ \A j \in 1 .. x.len : c[j] = x.buf[j - 1]
  BY ContentsType, SlotIs
<1>3. IsDynArr(y) /\ y.len = x.len + Len(q) /\ Filled(y)
  BY CopyAppendOK
<1>4. /\ r.cap \in Nat /\ r.cap >= x.len + Len(q)
      /\ \A k \in 0 .. x.cap - 1 : r.buf[k] = x.buf[k]
  <2>1. x.len + Len(q) \in Nat
    BY <1>1
  <2> QED BY <2>1, ReserveOK DEF IsDynArr
<1>5. \A k \in 0 .. r.cap - 1 :
        y.buf[k] = IF x.len <= k /\ k < x.len + Len(q) THEN q[k - x.len + 1] ELSE r.buf[k]
  BY DEF CopyAppend
<1> HIDE DEF y, r, c
<1>6. /\ c \o q \in Seq(Val) /\ Len(c \o q) = x.len + Len(q)
      /\ \A j \in 1 .. x.len + Len(q) :
           (c \o q)[j] = IF j <= x.len THEN c[j] ELSE q[j - x.len]
  <2>1. /\ c \o q \in Seq(Val) /\ Len(c \o q) = Len(c) + Len(q)
        /\ \A j \in 1 .. Len(c) + Len(q) :
             (c \o q)[j] = IF j <= Len(c) THEN c[j] ELSE q[j - Len(c)]
    BY <1>2, ConcatProperties
  <2> QED BY <1>2, <2>1
<1>7. ASSUME NEW j \in 1 .. x.len + Len(q) PROVE (c \o q)[j] = y.buf[j - 1]
  <2>1. j - 1 \in 0 .. r.cap - 1 /\ (j - 1) - x.len + 1 = j - x.len
    BY <1>1, <1>4
  <2>2. CASE j <= x.len
    <3>1. j - 1 \in 0 .. x.cap - 1 /\ ~(x.len <= j - 1) /\ j \in 1 .. x.len
      BY <1>1, <2>2
    <3> QED BY <1>2, <1>4, <1>5, <1>6, <2>1, <2>2, <3>1
  <2>3. CASE j > x.len
    <3>1. x.len <= j - 1 /\ j - 1 < x.len + Len(q) /\ ~(j <= x.len)
      BY <1>1, <2>3
    <3>2. y.buf[j - 1] = q[(j - 1) - x.len + 1]
      BY <1>5, <2>1, <3>1
    <3> QED BY <1>6, <2>1, <3>1, <3>2
  <2>4. j <= x.len \/ j > x.len
    BY <1>1
  <2> QED BY <2>2, <2>3, <2>4
<1>8. Contents(y) = c \o q
  BY <1>3, <1>6, <1>7, SameContents
<1> QED BY <1>8 DEF y, c

\* An array without elements is the empty list, whatever its buffer.
LEMMA EmptyContents == ASSUME NEW x, x.len = 0 PROVE Contents(x) = <<>>
  BY DEF Contents

\* Every operation of the code is one of the list's, or cannot be seen.
LEMMA ListStep ==
  ASSUME IsDynArr(arr), IsDynArr(other), Filled(arr), Filled(other), Next
  PROVE  [List!Next]_<<Contents(arr), Contents(other)>>
<1> DEFINE s == Contents(arr)
           t == Contents(other)
<1>1. s \in Seq(Val) /\ Len(s) = arr.len /\ t \in Seq(Val) /\ Len(t) = other.len
  BY ContentsType
<1>2. arr.len \in Nat /\ arr.cap \in Nat /\ other.len \in Nat /\ MaxLen \in Nat
  BY UseAssumption DEF IsDynArr, UseAssumption
<1>3. ASSUME UNCHANGED other PROVE t' = t
  BY <1>3
<1>4. ASSUME UNCHANGED <<arr, other>> PROVE s' = s /\ t' = t
  BY <1>4
<1>5. CASE DoInsert
  <2>1. PICK idx \in 0 .. MaxLen, v \in Val :
          /\ arr.len < MaxLen
          /\ \/ arr' = Insert(arr, idx, v) /\ UNCHANGED other
             \/ UNCHANGED <<arr, other>>
    BY <1>5 DEF DoInsert, AllocFails
  <2>2. CASE arr' = Insert(arr, idx, v) /\ UNCHANGED other
    <3>1. Contents(Insert(arr, idx, v)) =
            List!InsertAt(s, IF idx + 1 <= arr.len THEN idx + 1 ELSE arr.len + 1, v)
      BY <2>1, InsertIsInsertAt
    <3>2. s' = List!InsertAt(s, IF idx + 1 <= Len(s) THEN idx + 1 ELSE Len(s) + 1, v)
      BY <1>1, <2>2, <3>1
    <3>3. idx + 1 \in 1 .. MaxLen + 1 /\ Len(s) < MaxLen
      BY <1>1, <1>2, <2>1
    <3>4. List!InsertElem
      BY <1>3, <2>2, <3>2, <3>3 DEF List!InsertElem
    <3> QED BY <3>4 DEF List!Next
  <2> QED BY <1>4, <2>1, <2>2
<1>6. CASE DoRemove
  <2>1. PICK idx \in 0 .. MaxLen : arr' = RemoveIdx(arr, idx) /\ UNCHANGED other
    BY <1>6 DEF DoRemove
  <2>2. CASE idx < arr.len
    <3>1. Contents(RemoveIdx(arr, idx)) = List!RemoveAt(s, idx + 1)
      BY <2>1, <2>2, RemoveIsRemoveAt
    <3>2. s' = List!RemoveAt(s, idx + 1)
      BY <2>1, <3>1
    <3>3. idx + 1 \in 1 .. Len(s)
      BY <1>1, <1>2, <2>2
    <3>4. List!RemoveElem
      BY <1>3, <2>1, <3>2, <3>3 DEF List!RemoveElem
    <3> QED BY <3>4 DEF List!Next
  <2>3. CASE ~(idx < arr.len)
    <3>1. UNCHANGED <<arr, other>>
      BY <1>2, <2>1, <2>3 DEF RemoveIdx
    <3> QED BY <1>4, <3>1
  <2> QED BY <2>2, <2>3
<1>7. CASE DoResize
  <2>1. PICK n \in 0 .. arr.len : arr' = Resize(arr, n) /\ UNCHANGED other
    BY <1>7 DEF DoResize
  <2>2. Contents(Resize(arr, n)) = SubSeq(s, 1, n)
    BY ResizeIsCut
  <2>3. s' = SubSeq(s, 1, n) /\ n \in 0 .. Len(s)
    BY <1>1, <2>1, <2>2
  <2>4. List!Cut
    BY <1>3, <2>1, <2>3 DEF List!Cut
  <2> QED BY <2>4 DEF List!Next
<1>8. CASE DoReserve
  <2>1. PICK n \in 0 .. MaxLen : (arr' = Reserve(arr, n) /\ UNCHANGED other) \/ UNCHANGED <<arr, other>>
    BY <1>8 DEF DoReserve, AllocFails
  <2>2. CASE arr' = Reserve(arr, n) /\ UNCHANGED other
    <3>1. /\ IsDynArr(arr') /\ arr'.len = arr.len
          /\ \A i \in 0 .. arr.cap - 1 : arr'.buf[i] = arr.buf[i]
      <4>1. n \in Nat
        BY <1>2
      <4> QED BY <2>2, <4>1, ReserveOK
    <3>2. \A j \in 1 .. arr.len : arr'.buf[j - 1] = arr.buf[j - 1]
      <4>1. arr.len \in Nat /\ arr.cap \in Nat /\ arr.len <= arr.cap
        BY DEF IsDynArr
      <4>2. \A j \in 1 .. arr.len : j - 1 \in 0 .. arr.cap - 1
        BY <4>1
      <4> QED BY ONLY <3>1, <4>2, Zenon
    <3>3. Contents(arr') = Contents(arr)
      BY <3>1, <3>2 DEF Contents
    <3> QED BY <1>3, <2>2, <3>3
  <2> QED BY <1>4, <2>1, <2>2
<1>9. CASE DoAppend
  <2>1. /\ arr.len + other.len <= MaxLen
        /\ (arr' = CopyAppend(arr, Contents(other)) /\ UNCHANGED other) \/ UNCHANGED <<arr, other>>
    BY <1>9 DEF DoAppend, AllocFails
  <2>2. CASE arr' = CopyAppend(arr, Contents(other)) /\ UNCHANGED other
    <3>1. Contents(CopyAppend(arr, t)) = s \o t
      BY <1>1, CopyAppendIsConcat
    <3>2. s' = s \o t /\ Len(s) + Len(t) <= MaxLen
      BY <1>1, <2>1, <2>2, <3>1
    <3>3. List!Extend
      BY <1>3, <2>2, <3>2 DEF List!Extend
    <3> QED BY <3>3 DEF List!Next
  <2> QED BY <1>4, <2>1, <2>2
<1>10. CASE DoSwap
  <2>1. List!Exchange
    BY <1>10 DEF DoSwap, List!Exchange
  <2> QED BY <2>1 DEF List!Next
<1>11. CASE DoClear \/ DoFree
  <2>1. arr'.len = 0 /\ UNCHANGED other
    BY <1>11 DEF DoClear, ClearData, DoFree, InitZero, IsDynArr
  <2>2. s' = <<>>
    BY <2>1, EmptyContents
  <2>3. SubSeq(s, 1, 0) = <<>>
    BY SubSeqEmpty
  <2>4. List!Cut
    <3>1. 0 \in 0 .. Len(s)
      BY <1>1, <1>2
    <3> QED BY <1>3, <2>1, <2>2, <2>3, <3>1 DEF List!Cut
  <2> QED BY <2>4 DEF List!Next
<1> QED BY <1>5, <1>6, <1>7, <1>8, <1>9, <1>10, <1>11 DEF Next

\* Whatever the buffers do, whichever of the reallocations fail, the user of
\* two arrays sees two lists: the refinement of ListStore.
THEOREM ArraysAreLists == Spec => IsListStore
<1>1. Init => List!Init
  BY EmptyContents DEF Init, InitZero, List!Init
<1>2. UseInv /\ [Next]_vars => [List!Next]_<<Contents(arr), Contents(other)>>
  <2>1. CASE Next
    BY <2>1, UseInvParts, ListStep
  <2>2. CASE UNCHANGED vars
    BY <2>2 DEF vars
  <2> QED BY <2>1, <2>2
<1> QED BY <1>1, <1>2, UseInvAlways, PTL DEF Spec, IsListStore, List!Spec
-----------------------------------------------------------------------------
(***************************************************************************)
(* Lists.  What an operation does to the links of the nodes of one         *)
(* sequence is a lemma about Chain; that it leaves the other lists alone   *)
(* is the lemma Elsewhere, because a link that is written belongs to a     *)
(* node of the lists concerned.                                            *)
(***************************************************************************)


Link == NodeOrNull \cup {Wild}

\* s is a list of different nodes.
Distinct(s) == /\ s \in Seq(Node)
               /\ \A i, j \in 1 .. Len(s) : s[i] = s[j] => i = j

Fields(p, q) == p \in [Node -> Link] /\ q \in [Node -> Link]

\* Inserting before place i moves what was there and behind up by one.
LEMMA InsertAtValue ==
  ASSUME NEW s \in Seq(Node), NEW i \in 1 .. Len(s) + 1, NEW m \in Node
  PROVE  /\ InsertAt(s, i, m) \in Seq(Node)
         /\ Len(InsertAt(s, i, m)) = Len(s) + 1
         /\ \A j \in 1 .. Len(s) + 1 :
              InsertAt(s, i, m)[j] = IF j < i THEN s[j] ELSE IF j = i THEN m ELSE s[j - 1]
<1> DEFINE a == SubSeq(s, 1, i - 1)
           b == SubSeq(s, i, Len(s))
           c == a \o <<m>>
<1>1. /\ a \in Seq(Node) /\ Len(a) = i - 1
      /\ \A j \in 1 .. i - 1 : a[j] = s[j]
  BY SubSeqProperties
<1>2. /\ b \in Seq(Node) /\ Len(b) = Len(s) - i + 1
      /\ \A j \in 1 .. Len(s) - i + 1 : b[j] = s[i + j - 1]
  BY SubSeqProperties
<1> HIDE DEF a, b
<1>3. /\ c \in Seq(Node) /\ Len(c) = i
      /\ \A j \in 1 .. i : c[j] = IF j < i THEN s[j] ELSE m
  BY <1>1
<1> HIDE DEF c
<1>4. /\ c \o b \in Seq(Node) /\ Len(c \o b) = Len(s) + 1
      /\ \A j \in 1 .. Len(s) + 1 : (c \o b)[j] = IF j <= i THEN c[j] ELSE b[j - i]
  <2>1. /\ c \o b \in Seq(Node) /\ Len(c \o b) = Len(c) + Len(b)
        /\ \A j \in 1 .. Len(c) + Len(b) : (c \o b)[j] = IF j <= Len(c) THEN c[j] ELSE b[j - Len(c)]
    BY <1>2, <1>3, ConcatProperties
  <2>2. Len(c) = i /\ Len(c) + Len(b) = Len(s) + 1
    BY <1>2, <1>3
  <2> QED BY ONLY <2>1, <2>2
<1>5. InsertAt(s, i, m) = c \o b
  BY DEF InsertAt, a, b, c
<1> QED
  BY <1>2, <1>3, <1>4, <1>5

\* A part of a sequence.
LEMMA PartValue ==
  ASSUME NEW s \in Seq(Node), NEW i \in 1 .. Len(s) + 1, NEW j \in 0 .. Len(s), i <= j + 1
  PROVE  /\ SubSeq(s, i, j) \in Seq(Node)
         /\ Len(SubSeq(s, i, j)) = j - i + 1
         /\ \A k \in 1 .. j - i + 1 : SubSeq(s, i, j)[k] = s[i + k - 1]
BY SubSeqProperties

\* Replacing the node at place i.
LEMMA ReplaceAtValue ==
  ASSUME NEW n \in Nat, NEW s \in [1 .. n -> Node], NEW i \in 1 .. n, NEW m \in Node
  PROVE  /\ ReplaceAt(s, i, m) \in Seq(Node) /\ Len(ReplaceAt(s, i, m)) = n
         /\ \A j \in 1 .. n : ReplaceAt(s, i, m)[j] = IF j = i THEN m ELSE s[j]
<1>1. ReplaceAt(s, i, m) = [s EXCEPT ![i] = m]
  BY DEF ReplaceAt
<1>2. /\ [s EXCEPT ![i] = m] \in [1 .. n -> Node]
      /\ \A j \in 1 .. n : [s EXCEPT ![i] = m][j] = IF j = i THEN m ELSE s[j]
  OBVIOUS
<1>3. \A r \in [1 .. n -> Node] : r \in Seq(Node) /\ Len(r) = n
  OBVIOUS
<1> QED
  BY <1>1, <1>2, <1>3

\* Cutting out the places i to j moves what is behind them down.
CutOut(s, i, j) == SubSeq(s, 1, i - 1) \o SubSeq(s, j + 1, Len(s))

LEMMA CutOutValue ==
  ASSUME NEW s \in Seq(Node), NEW i \in 1 .. Len(s), NEW j \in i .. Len(s)
  PROVE  /\ CutOut(s, i, j) \in Seq(Node)
         /\ Len(CutOut(s, i, j)) = Len(s) - (j - i + 1)
         /\ \A k \in 1 .. Len(s) - (j - i + 1) :
              CutOut(s, i, j)[k] = IF k < i THEN s[k] ELSE s[k + (j - i + 1)]
<1> DEFINE a == SubSeq(s, 1, i - 1)
           b == SubSeq(s, j + 1, Len(s))
<1>1. /\ a \in Seq(Node) /\ Len(a) = i - 1
      /\ \A k \in 1 .. i - 1 : a[k] = s[k]
  BY SubSeqProperties
<1>2. /\ b \in Seq(Node) /\ Len(b) = Len(s) - j
      /\ \A k \in 1 .. Len(s) - j : b[k] = s[j + k]
  BY SubSeqProperties
<1> HIDE DEF a, b
<1>3. /\ a \o b \in Seq(Node) /\ Len(a \o b) = Len(a) + Len(b)
      /\ \A k \in 1 .. Len(a) + Len(b) :
           (a \o b)[k] = IF k <= Len(a) THEN a[k] ELSE b[k - Len(a)]
  BY <1>1, <1>2, ConcatProperties
<1>4. CutOut(s, i, j) = a \o b
  BY DEF CutOut, a, b
<1>5. /\ Len(s) \in Nat /\ i \in Nat /\ j \in Nat
      /\ Len(a) + Len(b) = Len(s) - (j - i + 1)
  BY <1>1, <1>2
<1>6. ASSUME NEW k \in 1 .. Len(s) - (j - i + 1)
      PROVE  (a \o b)[k] = IF k < i THEN s[k] ELSE s[k + (j - i + 1)]
  <2>1. CASE k < i
    BY <1>1, <1>3, <1>5, <2>1
  <2>2. CASE ~(k < i)
    <3>1. k - Len(a) \in 1 .. Len(s) - j /\ j + (k - Len(a)) = k + (j - i + 1)
      BY <1>1, <1>5, <2>2
    <3>2. (a \o b)[k] = b[k - Len(a)]
      BY <1>1, <1>3, <1>5, <2>2, SMTT(30)
    <3> QED
      BY <1>2, <2>2, <3>1, <3>2
  <2> QED
    BY <2>1, <2>2
<1> QED
  BY <1>3, <1>4, <1>5, <1>6

\* A chain stands while the links of its nodes are left as they are.
LEMMA Elsewhere ==
  ASSUME NEW s \in Seq(Node), NEW h, NEW t, NEW p, NEW q, NEW p2, NEW q2,
         Chain(h, t, p, q, s),
         \A i \in 1 .. Len(s) : p2[s[i]] = p[s[i]] /\ q2[s[i]] = q[s[i]]
  PROVE  Chain(h, t, p2, q2, s)
BY DEF Chain

\* The links p2, q2 are p, q with m between the places i - 1 and i of s.
InsertLinks(s, i, m, p, q, p2, q2) ==
  /\ p2[m] = NodeAt(s, i - 1) /\ q2[m] = NodeAt(s, i)
  /\ \A k \in 1 .. Len(s) :
       /\ p2[s[k]] = IF k = i THEN m ELSE p[s[k]]
       /\ q2[s[k]] = IF k = i - 1 THEN m ELSE q[s[k]]

\* A node put in between place i - 1 and place i of a chain.
LEMMA ChainInsert ==
  ASSUME NEW s, NEW h, NEW t, NEW p, NEW q, NEW m \in Node,
         NEW i \in 1 .. Len(s) + 1, NEW h2, NEW t2, NEW p2, NEW q2,
         Distinct(s), Chain(h, t, p, q, s),
         h2 = (IF i = 1 THEN m ELSE h), t2 = (IF i = Len(s) + 1 THEN m ELSE t),
         InsertLinks(s, i, m, p, q, p2, q2)
  PROVE  Chain(h2, t2, p2, q2, InsertAt(s, i, m))
<1> DEFINE r == InsertAt(s, i, m)
<1>1. s \in Seq(Node) /\ DOMAIN s = 1 .. Len(s) /\ Len(s) \in Nat
  BY DEF Distinct
<1>2. /\ r \in Seq(Node) /\ Len(r) = Len(s) + 1 /\ DOMAIN r = 1 .. Len(s) + 1
      /\ \A j \in 1 .. Len(s) + 1 :
           r[j] = IF j < i THEN s[j] ELSE IF j = i THEN m ELSE s[j - 1]
  <2> HIDE DEF r
  <2>1. /\ r \in Seq(Node) /\ Len(r) = Len(s) + 1
        /\ \A j \in 1 .. Len(s) + 1 :
             r[j] = IF j < i THEN s[j] ELSE IF j = i THEN m ELSE s[j - 1]
    BY <1>1, InsertAtValue, SMTT(30) DEF r
  <2> QED
    BY <2>1
<1>3. /\ h = NodeAt(s, 1) /\ t = NodeAt(s, Len(s))
      /\ \A j \in 1 .. Len(s) : p[s[j]] = NodeAt(s, j - 1) /\ q[s[j]] = NodeAt(s, j + 1)
  BY <1>1 DEF Chain
<1> HIDE DEF r
<1>4. h2 = NodeAt(r, 1) /\ t2 = NodeAt(r, Len(r))
  BY <1>1, <1>2, <1>3 DEF NodeAt
<1>5. ASSUME NEW j \in 1 .. Len(s) + 1
      PROVE  p2[r[j]] = NodeAt(r, j - 1) /\ q2[r[j]] = NodeAt(r, j + 1)
  <2>1. CASE j < i
    <3>1. j \in 1 .. Len(s) /\ r[j] = s[j]
      BY <1>1, <1>2, <2>1
    <3>2. /\ p2[s[j]] = NodeAt(s, j - 1)
          /\ q2[s[j]] = IF j = i - 1 THEN m ELSE NodeAt(s, j + 1)
      BY <1>3, <2>1, <3>1 DEF InsertLinks
    <3>3. NodeAt(r, j - 1) = NodeAt(s, j - 1)
      BY <1>1, <1>2, <2>1 DEF NodeAt
    <3>4. NodeAt(r, j + 1) = IF j = i - 1 THEN m ELSE NodeAt(s, j + 1)
      BY <1>1, <1>2, <2>1 DEF NodeAt
    <3> QED
      BY <3>1, <3>2, <3>3, <3>4
  <2>2. CASE j = i
    BY <1>1, <1>2, <2>2, SMTT(30) DEF NodeAt, InsertLinks
  <2>3. CASE j > i
    <3> DEFINE g == j - 1
    <3>1. g \in 1 .. Len(s) /\ j = g + 1 /\ g >= i
      BY <1>1, <2>3
    <3> HIDE DEF g
    <3>2. r[j] = s[g]
      BY <1>1, <1>2, <3>1
    <3>3. /\ p2[s[g]] = IF g = i THEN m ELSE NodeAt(s, g - 1)
          /\ q2[s[g]] = NodeAt(s, g + 1)
      BY <1>3, <3>1 DEF InsertLinks
    <3>4. NodeAt(r, j - 1) = IF g = i THEN m ELSE NodeAt(s, g - 1)
      BY <1>1, <1>2, <3>1 DEF NodeAt
    <3>5. NodeAt(r, j + 1) = NodeAt(s, g + 1)
      BY <1>1, <1>2, <3>1 DEF NodeAt
    <3> QED
      BY <3>2, <3>3, <3>4, <3>5
  <2> QED
    BY <1>1, <2>1, <2>2, <2>3
<1> QED
  BY <1>2, <1>4, <1>5 DEF Chain, r

\* The links p2, q2 are p, q with the places i to j of s left out.
CutLinks(s, i, j, p, q, p2, q2) ==
  \A k \in 1 .. Len(s) : (k < i \/ j < k) =>
    /\ p2[s[k]] = IF k = j + 1 THEN NodeAt(s, i - 1) ELSE p[s[k]]
    /\ q2[s[k]] = IF k = i - 1 THEN NodeAt(s, j + 1) ELSE q[s[k]]

\* The places i to j taken out of a chain.
LEMMA ChainCutOut ==
  ASSUME NEW s, NEW h, NEW t, NEW p, NEW q,
         NEW i \in 1 .. Len(s), NEW j \in i .. Len(s), NEW h2, NEW t2, NEW p2, NEW q2,
         Distinct(s), Chain(h, t, p, q, s),
         h2 = (IF i = 1 THEN NodeAt(s, j + 1) ELSE h),
         t2 = (IF j = Len(s) THEN NodeAt(s, i - 1) ELSE t),
         CutLinks(s, i, j, p, q, p2, q2)
  PROVE  Chain(h2, t2, p2, q2, CutOut(s, i, j))
<1> DEFINE r == CutOut(s, i, j)
<1>0. Len(s) \in Nat
  BY DEF Distinct
<1>d. PICK d \in Nat : d = j - i + 1 /\ d >= 1 /\ j = i + d - 1
  BY ONLY <1>0, i \in 1 .. Len(s), j \in i .. Len(s)
<1>1. /\ s \in Seq(Node) /\ DOMAIN s = 1 .. Len(s)
      /\ Len(s) \in Nat /\ i \in 1 .. Len(s) /\ j \in i .. Len(s)
      /\ d \in Nat /\ d >= 1 /\ j = i + d - 1
  BY <1>d DEF Distinct
<1>2. /\ r \in Seq(Node) /\ Len(r) = Len(s) - d /\ DOMAIN r = 1 .. Len(s) - d
      /\ \A k \in 1 .. Len(s) - d : r[k] = IF k < i THEN s[k] ELSE s[k + d]
  <2> HIDE DEF r
  <2>1. /\ r \in Seq(Node) /\ Len(r) = Len(s) - d
        /\ \A k \in 1 .. Len(s) - d : r[k] = IF k < i THEN s[k] ELSE s[k + d]
    BY ONLY <1>1, <1>d, CutOutValue, ZenonT(30) DEF r
  <2> QED
    BY <1>1, <2>1
<1>3. /\ h = NodeAt(s, 1) /\ t = NodeAt(s, Len(s))
      /\ \A k \in 1 .. Len(s) : p[s[k]] = NodeAt(s, k - 1) /\ q[s[k]] = NodeAt(s, k + 1)
  BY <1>1 DEF Chain
<1> HIDE DEF r
<1>4. h2 = NodeAt(r, 1)
  <2>1. CASE i = 1
    <3>1. NodeAt(r, 1) = NodeAt(s, j + 1)
      <4>1. j = d /\ d <= Len(s)
        BY ONLY <1>1, <2>1
      <4>2. CASE d < Len(s)
        <5>1. 1 \in 1 .. Len(s) - d /\ ~(1 < i)
          BY ONLY <1>1, <2>1, <4>2
        <5>2. r[1] = s[1 + d]
          BY ONLY <1>2, <5>1
        <5> QED
          BY <1>1, <1>2, <4>1, <5>1, <5>2 DEF NodeAt
      <4>3. CASE d = Len(s)
        BY <1>1, <1>2, <4>1, <4>3 DEF NodeAt
      <4>4. d < Len(s) \/ d = Len(s)
        BY <1>0, <1>d, <4>1
      <4> QED
        BY <4>2, <4>3, <4>4
    <3> QED
      BY <2>1, <3>1
  <2>2. CASE i > 1
    <3>1. NodeAt(r, 1) = NodeAt(s, 1)
      BY <1>1, <1>2, <2>2 DEF NodeAt
    <3> QED
      BY <1>1, <1>3, <2>2, <3>1
  <2> QED
    BY <1>1, <2>1, <2>2
<1>6. t2 = NodeAt(r, Len(r))
  <2>1. CASE j = Len(s)
    <3>1. NodeAt(r, Len(r)) = NodeAt(s, i - 1)
      BY <1>1, <1>2, <2>1, SMTT(30) DEF NodeAt
    <3> QED
      BY <2>1, <3>1
  <2>2. CASE j < Len(s)
    <3>1. NodeAt(r, Len(r)) = NodeAt(s, Len(s))
      BY <1>1, <1>2, <2>2 DEF NodeAt
    <3> QED
      BY <1>1, <1>3, <2>2, <3>1
  <2> QED
    BY <1>1, <2>1, <2>2
<1>5. ASSUME NEW k \in 1 .. Len(s) - d
      PROVE  p2[r[k]] = NodeAt(r, k - 1) /\ q2[r[k]] = NodeAt(r, k + 1)
  <2>1. CASE k < i
    <3>1. k \in 1 .. Len(s) /\ r[k] = s[k]
      BY <1>1, <1>2, <2>1
    <3>2. /\ p2[s[k]] = NodeAt(s, k - 1)
          /\ q2[s[k]] = IF k = i - 1 THEN NodeAt(s, j + 1) ELSE NodeAt(s, k + 1)
      <4>1. p[s[k]] = NodeAt(s, k - 1) /\ q[s[k]] = NodeAt(s, k + 1)
        BY <1>3, <3>1
      <4>2. k # j + 1
        BY <1>1, <2>1
      <4> QED
        BY <2>1, <3>1, <4>1, <4>2 DEF CutLinks
    <3>3. NodeAt(r, k - 1) = NodeAt(s, k - 1)
      BY <1>1, <1>2, <2>1, SMTT(30) DEF NodeAt
    <3>4. NodeAt(r, k + 1) = IF k = i - 1 THEN NodeAt(s, j + 1) ELSE NodeAt(s, k + 1)
      BY <1>1, <1>2, <2>1 DEF NodeAt
    <3> QED
      BY <3>1, <3>2, <3>3, <3>4
  <2>2. CASE k >= i
    <3> DEFINE g == k + d
    <3>1. g \in 1 .. Len(s) /\ k = g - d /\ j < g
      BY <1>1, <2>2
    <3> HIDE DEF g
    <3>2. r[k] = s[g]
      BY <1>1, <1>2, <2>2, <3>1
    <3>3. /\ p2[s[g]] = IF g = j + 1 THEN NodeAt(s, i - 1) ELSE NodeAt(s, g - 1)
          /\ q2[s[g]] = NodeAt(s, g + 1)
      <4>1. p[s[g]] = NodeAt(s, g - 1) /\ q[s[g]] = NodeAt(s, g + 1)
        BY <1>3, <3>1
      <4>2. g # i - 1
        BY <1>1, <3>1
      <4> QED
        BY <3>1, <4>1, <4>2 DEF CutLinks
    <3>4. NodeAt(r, k - 1) = IF g = j + 1 THEN NodeAt(s, i - 1) ELSE NodeAt(s, g - 1)
      BY <1>1, <1>2, <2>2, <3>1, SMTT(30) DEF NodeAt
    <3>5. NodeAt(r, k + 1) = NodeAt(s, g + 1)
      BY <1>1, <1>2, <2>2, <3>1 DEF NodeAt
    <3> QED
      BY <3>2, <3>3, <3>4, <3>5
  <2> QED
    BY <1>1, <2>1, <2>2
<1> QED
  BY <1>2, <1>4, <1>5, <1>6 DEF Chain, r

\* The links p2, q2 are p, q ended at the places i and j of s.
PartLinks(s, i, j, p, q, p2, q2) ==
  \A k \in i .. j :
    /\ p2[s[k]] = IF k = i THEN Null ELSE p[s[k]]
    /\ q2[s[k]] = IF k = j THEN Null ELSE q[s[k]]

\* The places i to j of a chain as a chain of their own.
LEMMA ChainPart ==
  ASSUME NEW s, NEW h, NEW t, NEW p, NEW q,
         NEW i \in 1 .. Len(s), NEW j \in i .. Len(s), NEW p2, NEW q2,
         Distinct(s), Chain(h, t, p, q, s),
         PartLinks(s, i, j, p, q, p2, q2)
  PROVE  Chain(s[i], s[j], p2, q2, SubSeq(s, i, j))
<1> DEFINE r == SubSeq(s, i, j)
<1>1. /\ s \in Seq(Node) /\ DOMAIN s = 1 .. Len(s)
      /\ Len(s) \in Nat /\ i \in Nat /\ j \in Nat
  BY DEF Distinct
<1>2. /\ r \in Seq(Node) /\ Len(r) = j - i + 1 /\ DOMAIN r = 1 .. j - i + 1
      /\ \A k \in 1 .. j - i + 1 : r[k] = s[i + k - 1]
  BY <1>1, PartValue
<1>3. \A k \in 1 .. Len(s) : p[s[k]] = NodeAt(s, k - 1) /\ q[s[k]] = NodeAt(s, k + 1)
  BY <1>1 DEF Chain
<1> HIDE DEF r
<1>4. s[i] = NodeAt(r, 1) /\ s[j] = NodeAt(r, Len(r))
  BY <1>1, <1>2 DEF NodeAt
<1>5. ASSUME NEW k \in 1 .. j - i + 1
      PROVE  p2[r[k]] = NodeAt(r, k - 1) /\ q2[r[k]] = NodeAt(r, k + 1)
  <2> DEFINE g == i + k - 1
  <2>1. g \in i .. j /\ g \in 1 .. Len(s) /\ k = g - i + 1
    BY <1>1
  <2>2. r[k] = s[g]
    BY <1>2
  <2> HIDE DEF g
  <2>3. /\ p2[s[g]] = IF g = i THEN Null ELSE NodeAt(s, g - 1)
        /\ q2[s[g]] = IF g = j THEN Null ELSE NodeAt(s, g + 1)
    <3>1. p[s[g]] = NodeAt(s, g - 1) /\ q[s[g]] = NodeAt(s, g + 1)
      BY <1>3, <2>1
    <3>2. p2[s[g]] = IF g = i THEN Null ELSE p[s[g]]
      BY <2>1 DEF PartLinks
    <3>3. q2[s[g]] = IF g = j THEN Null ELSE q[s[g]]
      BY <2>1 DEF PartLinks
    <3> QED
      BY <3>1, <3>2, <3>3
  <2>4. NodeAt(r, k - 1) = IF g = i THEN Null ELSE NodeAt(s, g - 1)
    BY <1>1, <1>2, <2>1 DEF NodeAt
  <2>5. NodeAt(r, k + 1) = IF g = j THEN Null ELSE NodeAt(s, g + 1)
    BY <1>1, <1>2, <2>1, SMTT(20) DEF NodeAt
  <2> QED
    BY <2>2, <2>3, <2>4, <2>5
<1> QED
  BY <1>2, <1>4, <1>5 DEF Chain, r

\* The links p2, q2 are p, q with m at the place i of s.
ReplaceLinks(s, i, m, p, q, p2, q2) ==
  /\ p2[m] = NodeAt(s, i - 1) /\ q2[m] = NodeAt(s, i + 1)
  /\ \A k \in 1 .. Len(s) : k # i =>
       /\ p2[s[k]] = IF k = i + 1 THEN m ELSE p[s[k]]
       /\ q2[s[k]] = IF k = i - 1 THEN m ELSE q[s[k]]

\* A node put at the place i of a chain.
LEMMA ChainReplace ==
  ASSUME NEW s, NEW h, NEW t, NEW p, NEW q, NEW m \in Node,
         NEW i \in 1 .. Len(s), NEW h2, NEW t2, NEW p2, NEW q2,
         Distinct(s), Chain(h, t, p, q, s),
         h2 = (IF i = 1 THEN m ELSE h), t2 = (IF i = Len(s) THEN m ELSE t),
         ReplaceLinks(s, i, m, p, q, p2, q2)
  PROVE  Chain(h2, t2, p2, q2, ReplaceAt(s, i, m))
<1> DEFINE r == ReplaceAt(s, i, m)
<1>1. s \in Seq(Node) /\ DOMAIN s = 1 .. Len(s) /\ Len(s) \in Nat
  BY DEF Distinct
<1>2. /\ r \in Seq(Node) /\ Len(r) = Len(s) /\ DOMAIN r = 1 .. Len(s)
      /\ \A j \in 1 .. Len(s) : r[j] = IF j = i THEN m ELSE s[j]
  <2>1. PICK n \in Nat : n = Len(s)
    BY ONLY <1>1
  <2>2. n \in Nat /\ s \in [1 .. n -> Node] /\ i \in 1 .. n
    BY ONLY <1>1, <2>1, i \in 1 .. Len(s)
  <2>3. r \in Seq(Node) /\ Len(r) = n
    BY ONLY <2>2, m \in Node, ReplaceAtValue
  <2>4. \A j \in 1 .. n : r[j] = IF j = i THEN m ELSE s[j]
    BY ONLY <2>2, m \in Node DEF ReplaceAt
  <2> HIDE DEF r
  <2> QED
    BY ONLY <1>1, <2>1, <2>3, <2>4, SMTT(30)
<1>3. /\ h = NodeAt(s, 1) /\ t = NodeAt(s, Len(s))
      /\ \A j \in 1 .. Len(s) : p[s[j]] = NodeAt(s, j - 1) /\ q[s[j]] = NodeAt(s, j + 1)
  BY <1>1, Zenon DEF Chain
<1> HIDE DEF r
<1>4. h2 = NodeAt(r, 1) /\ t2 = NodeAt(r, Len(r))
  BY <1>1, <1>2, <1>3, ZenonT(30) DEF NodeAt
<1>a. ASSUME NEW k \in Int
      PROVE  NodeAt(r, k) = IF k = i THEN m ELSE NodeAt(s, k)
  BY <1>1, <1>2 DEF NodeAt
<1>b. ASSUME NEW j \in 1 .. Len(s)
      PROVE  /\ NodeAt(r, j - 1) = IF j = i + 1 THEN m ELSE NodeAt(s, j - 1)
             /\ NodeAt(r, j + 1) = IF j = i - 1 THEN m ELSE NodeAt(s, j + 1)
  <2>1. /\ j - 1 \in Int /\ j + 1 \in Int
        /\ j - 1 = i <=> j = i + 1
        /\ j + 1 = i <=> j = i - 1
    BY ONLY <1>1, i \in 1 .. Len(s), j \in 1 .. Len(s)
  <2>2. NodeAt(r, j - 1) = IF j - 1 = i THEN m ELSE NodeAt(s, j - 1)
    BY <1>a, <2>1
  <2>3. NodeAt(r, j + 1) = IF j + 1 = i THEN m ELSE NodeAt(s, j + 1)
    BY <1>a, <2>1
  <2> QED
    BY <2>1, <2>2, <2>3
<1>5. ASSUME NEW j \in 1 .. Len(s)
      PROVE  p2[r[j]] = NodeAt(r, j - 1) /\ q2[r[j]] = NodeAt(r, j + 1)
  <2>1. CASE j = i
    <3>1. /\ NodeAt(r, i - 1) = NodeAt(s, i - 1)
          /\ NodeAt(r, i + 1) = NodeAt(s, i + 1)
      <4>1. i # i + 1 /\ i # i - 1
        BY ONLY <1>1, i \in 1 .. Len(s), SMTT(20)
      <4> QED
        BY <1>b, <4>1
    <3> QED
      BY <1>2, <2>1, <3>1 DEF ReplaceLinks
  <2>2. CASE j # i
    <3>1. /\ p2[s[j]] = IF j = i + 1 THEN m ELSE NodeAt(s, j - 1)
          /\ q2[s[j]] = IF j = i - 1 THEN m ELSE NodeAt(s, j + 1)
      BY <1>3, <2>2 DEF ReplaceLinks
    <3>2. NodeAt(r, j - 1) = IF j = i + 1 THEN m ELSE NodeAt(s, j - 1)
      BY <1>b
    <3>3. NodeAt(r, j + 1) = IF j = i - 1 THEN m ELSE NodeAt(s, j + 1)
      BY <1>b
    <3> QED
      BY <1>2, <2>2, <3>1, <3>2, <3>3
  <2> QED
    BY <2>1, <2>2, SMTT(20)
<1> QED
  BY <1>2, <1>4, <1>5 DEF Chain, r

\* A chain with all its links turned round.
LEMMA ChainReverse ==
  ASSUME NEW s, NEW h, NEW t, NEW p, NEW q, NEW p2, NEW q2,
         Distinct(s), Chain(h, t, p, q, s),
         \A k \in 1 .. Len(s) : p2[s[k]] = q[s[k]] /\ q2[s[k]] = p[s[k]]
  PROVE  Chain(t, h, p2, q2, Reverse(s)) /\ Reverse(s) \in Seq(Node)
<1> DEFINE r == Reverse(s)
<1>1. s \in Seq(Node) /\ DOMAIN s = 1 .. Len(s) /\ Len(s) \in Nat
  BY DEF Distinct
<1>2. /\ r \in Seq(Node) /\ Len(r) = Len(s) /\ DOMAIN r = 1 .. Len(s)
      /\ \A j \in 1 .. Len(s) : r[j] = s[Len(s) - j + 1]
  BY <1>1 DEF Reverse
<1>3. /\ h = NodeAt(s, 1) /\ t = NodeAt(s, Len(s))
      /\ \A j \in 1 .. Len(s) : p[s[j]] = NodeAt(s, j - 1) /\ q[s[j]] = NodeAt(s, j + 1)
  BY <1>1 DEF Chain
<1> HIDE DEF r
<1>4. t = NodeAt(r, 1) /\ h = NodeAt(r, Len(r))
  BY <1>1, <1>2, <1>3 DEF NodeAt
<1>5. ASSUME NEW j \in 1 .. Len(s)
      PROVE  p2[r[j]] = NodeAt(r, j - 1) /\ q2[r[j]] = NodeAt(r, j + 1)
  <2> DEFINE g == Len(s) - j + 1
  <2>1. g \in 1 .. Len(s) /\ j = Len(s) - g + 1 /\ r[j] = s[g]
    BY <1>1, <1>2
  <2> HIDE DEF g
  <2>2. p2[s[g]] = NodeAt(s, g + 1) /\ q2[s[g]] = NodeAt(s, g - 1)
    BY <1>3, <2>1
  <2>3. NodeAt(r, j - 1) = NodeAt(s, g + 1)
    BY <1>1, <1>2, <2>1 DEF NodeAt
  <2>4. NodeAt(r, j + 1) = NodeAt(s, g - 1)
    BY <1>1, <1>2, <2>1 DEF NodeAt
  <2> QED
    BY <2>1, <2>2, <2>3, <2>4
<1> QED
  BY <1>2, <1>4, <1>5 DEF Chain, r

\* The links p2, q2 are p, q with t, the end of s, joined to g, the start of u.
JoinLinks(s, u, t, g, p, q, p2, q2) ==
  /\ \A k \in 1 .. Len(s) :
       /\ p2[s[k]] = p[s[k]]
       /\ q2[s[k]] = IF k = Len(s) THEN g ELSE q[s[k]]
  /\ \A k \in 1 .. Len(u) :
       /\ p2[u[k]] = IF k = 1 THEN t ELSE p[u[k]]
       /\ q2[u[k]] = q[u[k]]

\* Two chains joined into one.
LEMMA ChainJoin ==
  ASSUME NEW s, NEW u, NEW h, NEW t, NEW g, NEW e, NEW p, NEW q,
         NEW h2, NEW t2, NEW p2, NEW q2,
         Distinct(s), Distinct(u), Chain(h, t, p, q, s), Chain(g, e, p, q, u),
         h2 = (IF h = Null THEN g ELSE h), t2 = (IF e = Null THEN t ELSE e),
         JoinLinks(s, u, t, g, p, q, p2, q2)
  PROVE  Chain(h2, t2, p2, q2, s \o u) /\ s \o u \in Seq(Node)
<1> DEFINE r == s \o u
<1>0. Len(s) \in Nat /\ Len(u) \in Nat
  BY DEF Distinct
<1>1. /\ s \in Seq(Node) /\ DOMAIN s = 1 .. Len(s) /\ Len(s) \in Nat
      /\ u \in Seq(Node) /\ DOMAIN u = 1 .. Len(u) /\ Len(u) \in Nat
  BY DEF Distinct
<1>2. /\ r \in Seq(Node) /\ Len(r) = Len(s) + Len(u) /\ DOMAIN r = 1 .. Len(s) + Len(u)
      /\ \A j \in 1 .. Len(s) + Len(u) :
           r[j] = IF j <= Len(s) THEN s[j] ELSE u[j - Len(s)]
  BY <1>1, ConcatProperties
<1>3. /\ h = NodeAt(s, 1) /\ t = NodeAt(s, Len(s))
      /\ g = NodeAt(u, 1) /\ e = NodeAt(u, Len(u))
      /\ \A j \in 1 .. Len(s) : p[s[j]] = NodeAt(s, j - 1) /\ q[s[j]] = NodeAt(s, j + 1)
      /\ \A j \in 1 .. Len(u) : p[u[j]] = NodeAt(u, j - 1) /\ q[u[j]] = NodeAt(u, j + 1)
  BY <1>1 DEF Chain
<1> HIDE DEF r
<1>4. /\ h = Null <=> Len(s) = 0
      /\ e = Null <=> Len(u) = 0
  BY <1>1, <1>3, ListAssumption DEF NodeAt
<1>5. h2 = NodeAt(r, 1) /\ t2 = NodeAt(r, Len(r))
  BY <1>1, <1>2, <1>3, <1>4, SMTT(30) DEF NodeAt
<1>6. ASSUME NEW j \in 1 .. Len(s) + Len(u)
      PROVE  p2[r[j]] = NodeAt(r, j - 1) /\ q2[r[j]] = NodeAt(r, j + 1)
  <2>1. CASE j <= Len(s)
    <3>1. j \in 1 .. Len(s) /\ r[j] = s[j]
      BY <1>1, <1>2, <2>1
    <3>2. /\ p2[s[j]] = NodeAt(s, j - 1)
          /\ q2[s[j]] = IF j = Len(s) THEN NodeAt(u, 1) ELSE NodeAt(s, j + 1)
      BY <1>3, <3>1 DEF JoinLinks
    <3>3. NodeAt(r, j - 1) = NodeAt(s, j - 1)
      BY <1>1, <1>2, <3>1 DEF NodeAt
    <3>4. NodeAt(r, j + 1) = IF j = Len(s) THEN NodeAt(u, 1) ELSE NodeAt(s, j + 1)
      <4>1. CASE j = Len(s)
        <5>1. NodeAt(r, j + 1) = NodeAt(u, 1)
          BY <1>1, <1>2, <4>1 DEF NodeAt
        <5> QED
          BY <4>1, <5>1
      <4>2. CASE j < Len(s)
        <5>1. j + 1 \in 1 .. Len(s) /\ j + 1 \in 1 .. Len(s) + Len(u)
          BY <1>0, <2>1, <4>2
        <5>2. NodeAt(r, j + 1) = NodeAt(s, j + 1)
          BY <1>1, <1>2, <5>1 DEF NodeAt
        <5>3. j # Len(s)
          BY <1>0, <4>2
        <5> QED
          BY <5>2, <5>3
      <4>3. j = Len(s) \/ j < Len(s)
        BY <1>0, <2>1
      <4> QED
        BY <4>1, <4>2, <4>3
    <3> QED
      BY <3>1, <3>2, <3>3, <3>4
  <2>2. CASE j > Len(s)
    <3> DEFINE k == j - Len(s)
    <3>1. k \in 1 .. Len(u) /\ j = k + Len(s) /\ r[j] = u[k]
      BY <1>1, <1>2, <2>2, SMTT(20)
    <3> HIDE DEF k
    <3>2. /\ p2[u[k]] = IF k = 1 THEN NodeAt(s, Len(s)) ELSE NodeAt(u, k - 1)
          /\ q2[u[k]] = NodeAt(u, k + 1)
      BY <1>3, <3>1 DEF JoinLinks
    <3>3. NodeAt(r, j - 1) = IF k = 1 THEN NodeAt(s, Len(s)) ELSE NodeAt(u, k - 1)
      BY <1>1, <1>2, <3>1, SMTT(30) DEF NodeAt
    <3>4. NodeAt(r, j + 1) = NodeAt(u, k + 1)
      BY <1>1, <1>2, <3>1 DEF NodeAt
    <3> QED
      BY <3>1, <3>2, <3>3, <3>4
  <2> QED
    BY <1>1, <2>1, <2>2
<1> QED
  BY <1>2, <1>5, <1>6 DEF Chain, r

-----------------------------------------------------------------------------

IInv == ListTypeOK /\ Linked

\* What the invariant says of the sequences.
LEMMA Facts ==
  ASSUME IInv
  PROVE  /\ \A l \in ListId : /\ contents[l] \in Seq(Node) /\ Distinct(contents[l])
                               /\ Chain(head[l], tail[l], prev, next, contents[l])
                               /\ DOMAIN contents[l] = 1 .. Len(contents[l])
         /\ \A k, l \in ListId : k # l =>
              \A i \in 1 .. Len(contents[k]), j \in 1 .. Len(contents[l]) :
                contents[k][i] # contents[l][j]
         /\ Fields(prev, next)
         /\ \A m \in Node : Free(m) =>
              \A l \in ListId : \A i \in 1 .. Len(contents[l]) : contents[l][i] # m
<1>1. \A l \in ListId : contents[l] \in Seq(Node) /\ DOMAIN contents[l] = 1 .. Len(contents[l])
  BY DEF IInv, ListTypeOK
<1>2. \A l \in ListId : Chain(head[l], tail[l], prev, next, contents[l])
  BY DEF IInv, Linked
<1>3. \A k, l \in ListId : \A i \in 1 .. Len(contents[k]), j \in 1 .. Len(contents[l]) :
        contents[k][i] = contents[l][j] => k = l /\ i = j
  BY <1>1 DEF IInv, Linked, NodesApart
<1>4. \A l \in ListId : Distinct(contents[l])
  BY <1>1, <1>3 DEF Distinct
<1>5. Fields(prev, next)
  BY DEF IInv, ListTypeOK, Fields, Link
<1>6. \A m \in Node : Free(m) =>
        \A l \in ListId : \A i \in 1 .. Len(contents[l]) : contents[l][i] # m
  BY <1>1 DEF Free, ToSet
<1> QED
  BY <1>1, <1>2, <1>3, <1>4, <1>5, <1>6

\* A step that rebuilds the lists of L, and leaves the others and the links of
\* their nodes alone.
LEMMA Rebuild ==
  ASSUME IInv, NEW L \in SUBSET ListId,
         DOMAIN head' = ListId, DOMAIN tail' = ListId, DOMAIN contents' = ListId,
         head' = [l \in ListId |-> head'[l]], tail' = [l \in ListId |-> tail'[l]],
         contents' = [l \in ListId |-> contents'[l]],
         Fields(prev', next'),
         \A k \in ListId \ L :
            /\ head'[k] = head[k] /\ tail'[k] = tail[k] /\ contents'[k] = contents[k]
            /\ \A i \in 1 .. Len(contents[k]) :
                 /\ prev'[contents[k][i]] = prev[contents[k][i]]
                 /\ next'[contents[k][i]] = next[contents[k][i]],
         \A k \in L : /\ contents'[k] \in Seq(Node)
                      /\ Chain(head'[k], tail'[k], prev', next', contents'[k]),
         \A k \in L, l \in ListId \ L :
            \A i \in 1 .. Len(contents'[k]), j \in 1 .. Len(contents[l]) :
              contents'[k][i] # contents[l][j],
         \A k, l \in L : \A i \in 1 .. Len(contents'[k]), j \in 1 .. Len(contents'[l]) :
              contents'[k][i] = contents'[l][j] => k = l /\ i = j
  PROVE  IInv'
<1>1. \A l \in ListId : /\ contents'[l] \in Seq(Node)
                        /\ DOMAIN (contents'[l]) = 1 .. Len(contents'[l])
  <2>1. \A l \in ListId : contents'[l] \in Seq(Node)
    BY Facts
  <2> QED
    BY <2>1
<1>2. \A l \in ListId : Chain(head'[l], tail'[l], prev', next', contents'[l])
  <2> TAKE l \in ListId
  <2>1. CASE l \in L
    BY <2>1
  <2>2. CASE l \notin L
    <3> DEFINE s == contents[l]
    <3>1. Chain(head[l], tail[l], prev', next', s)
      <4>1. s \in Seq(Node) /\ Chain(head[l], tail[l], prev, next, s)
        BY Facts
      <4>2. \A i \in 1 .. Len(s) : prev'[s[i]] = prev[s[i]] /\ next'[s[i]] = next[s[i]]
        BY <2>2
      <4> HIDE DEF s
      <4> QED
        BY <4>1, <4>2, Elsewhere
    <3> QED
      BY <2>2, <3>1
  <2> QED
    BY <2>1, <2>2
<1>3. \A k, l \in ListId : \A i \in 1 .. Len(contents'[k]), j \in 1 .. Len(contents'[l]) :
        contents'[k][i] = contents'[l][j] => k = l /\ i = j
  <2> TAKE k, l \in ListId
  <2>1. CASE k \in L /\ l \in L
    BY <2>1
  <2>2. CASE k \in L /\ l \notin L
    BY <2>2
  <2>3. CASE k \notin L /\ l \in L
    BY <2>3
  <2>4. CASE k \notin L /\ l \notin L
    BY <2>4, Facts DEF Distinct
  <2> QED
    BY <2>1, <2>2, <2>3, <2>4
<1>4. ListTypeOK'
  <2>1. \A l \in ListId : head'[l] \in NodeOrNull /\ tail'[l] \in NodeOrNull
    BY <1>1, <1>2 DEF Chain, NodeAt, NodeOrNull
  <2>2. contents' \in [ListId -> Seq(Node)]
    BY <1>1
  <2>3. /\ prev' \in [Node -> NodeOrNull \cup {Wild}]
        /\ next' \in [Node -> NodeOrNull \cup {Wild}]
    BY DEF Fields, Link
  <2> QED
    BY <2>1, <2>2, <2>3 DEF ListTypeOK
<1>5. Linked'
  <2>1. NodesApart'
    BY <1>1, <1>3 DEF NodesApart
  <2> QED
    BY <1>2, <2>1 DEF Linked
<1> QED
  BY <1>4, <1>5 DEF IInv

\* A step that rebuilds one list, from its own nodes and free ones.
LEMMA StepOne ==
  ASSUME IInv, NEW l \in ListId, NEW r, NEW h2, NEW t2,
         head' = [head EXCEPT ![l] = h2], tail' = [tail EXCEPT ![l] = t2],
         contents' = [contents EXCEPT ![l] = r],
         Fields(prev', next'), Distinct(r), Chain(h2, t2, prev', next', r),
         \A j \in 1 .. Len(r) : Free(r[j]) \/ \E g \in 1 .. Len(contents[l]) : r[j] = contents[l][g],
         \A k \in ListId \ {l} : \A j \in 1 .. Len(contents[k]) :
            /\ prev'[contents[k][j]] = prev[contents[k][j]]
            /\ next'[contents[k][j]] = next[contents[k][j]]
  PROVE  IInv'
<1>1. /\ DOMAIN head = ListId /\ DOMAIN tail = ListId /\ DOMAIN contents = ListId
      /\ head = [k \in ListId |-> head[k]] /\ tail = [k \in ListId |-> tail[k]]
      /\ contents = [k \in ListId |-> contents[k]]
  BY DEF IInv, ListTypeOK
<1>2. head'[l] = h2 /\ tail'[l] = t2 /\ contents'[l] = r
  BY <1>1
<1>3. /\ DOMAIN head' = ListId /\ DOMAIN tail' = ListId /\ DOMAIN contents' = ListId
      /\ head' = [k \in ListId |-> head'[k]] /\ tail' = [k \in ListId |-> tail'[k]]
      /\ contents' = [k \in ListId |-> contents'[k]]
  BY <1>1
<1>4. \A k \in ListId \ {l} :
         head'[k] = head[k] /\ tail'[k] = tail[k] /\ contents'[k] = contents[k]
  BY <1>1
<1>5. \A k \in ListId \ {l} : \A j \in 1 .. Len(r), g \in 1 .. Len(contents[k]) :
         r[j] # contents[k][g]
  BY Facts DEF Distinct
<1>6. /\ r \in Seq(Node)
      /\ \A j, k \in 1 .. Len(r) : r[j] = r[k] => j = k
  BY DEF Distinct
<1> DEFINE L == {l}
<1>7. L \in SUBSET ListId
  OBVIOUS
<1>8. \A k \in L : /\ contents'[k] \in Seq(Node)
                   /\ Chain(head'[k], tail'[k], prev', next', contents'[k])
  BY <1>2, <1>6
<1>9. \A k \in L, n \in ListId \ L :
         \A i \in 1 .. Len(contents'[k]), j \in 1 .. Len(contents[n]) :
           contents'[k][i] # contents[n][j]
  BY <1>2, <1>5
<1>10. \A k, n \in L : \A i \in 1 .. Len(contents'[k]), j \in 1 .. Len(contents'[n]) :
         contents'[k][i] = contents'[n][j] => k = n /\ i = j
  BY <1>2, <1>6
<1>11. \A k \in ListId \ L :
            /\ head'[k] = head[k] /\ tail'[k] = tail[k] /\ contents'[k] = contents[k]
            /\ \A i \in 1 .. Len(contents[k]) :
                 /\ prev'[contents[k][i]] = prev[contents[k][i]]
                 /\ next'[contents[k][i]] = next[contents[k][i]]
  BY <1>4
<1> HIDE DEF L
<1> QED
  BY <1>3, <1>7, <1>8, <1>9, <1>10, <1>11, Rebuild, ZenonT(60)

\* A step that rebuilds two lists, from their nodes.
LEMMA StepTwo ==
  ASSUME IInv, NEW a \in ListId, NEW b \in ListId, a # b,
         NEW r, NEW h2, NEW t2, NEW u, NEW g2, NEW e2,
         head' = [head EXCEPT ![a] = h2, ![b] = g2],
         tail' = [tail EXCEPT ![a] = t2, ![b] = e2],
         contents' = [contents EXCEPT ![a] = r, ![b] = u],
         Fields(prev', next'),
         Distinct(r), Chain(h2, t2, prev', next', r),
         Distinct(u), Chain(g2, e2, prev', next', u),
         \A j \in 1 .. Len(r), k \in 1 .. Len(u) : r[j] # u[k],
         \A x \in ToSet(r) \cup ToSet(u) : x \in ToSet(contents[a]) \cup ToSet(contents[b]),
         \A k \in ListId \ {a, b} : \A j \in 1 .. Len(contents[k]) :
            /\ prev'[contents[k][j]] = prev[contents[k][j]]
            /\ next'[contents[k][j]] = next[contents[k][j]]
  PROVE  IInv'
<1>1. /\ DOMAIN head = ListId /\ DOMAIN tail = ListId /\ DOMAIN contents = ListId
      /\ head = [k \in ListId |-> head[k]] /\ tail = [k \in ListId |-> tail[k]]
      /\ contents = [k \in ListId |-> contents[k]]
  BY DEF IInv, ListTypeOK
<1>2. /\ head'[a] = h2 /\ tail'[a] = t2 /\ contents'[a] = r
      /\ head'[b] = g2 /\ tail'[b] = e2 /\ contents'[b] = u
  BY <1>1
<1>3. /\ DOMAIN head' = ListId /\ DOMAIN tail' = ListId /\ DOMAIN contents' = ListId
      /\ head' = [k \in ListId |-> head'[k]] /\ tail' = [k \in ListId |-> tail'[k]]
      /\ contents' = [k \in ListId |-> contents'[k]]
  BY <1>1
<1>4. \A k \in ListId \ {a, b} :
         head'[k] = head[k] /\ tail'[k] = tail[k] /\ contents'[k] = contents[k]
  BY <1>1
<1>6. /\ r \in Seq(Node) /\ u \in Seq(Node)
      /\ \A j, k \in 1 .. Len(r) : r[j] = r[k] => j = k
      /\ \A j, k \in 1 .. Len(u) : u[j] = u[k] => j = k
  BY DEF Distinct
<1>5. \A k \in ListId \ {a, b} :
         /\ \A j \in 1 .. Len(r), g \in 1 .. Len(contents[k]) : r[j] # contents[k][g]
         /\ \A j \in 1 .. Len(u), g \in 1 .. Len(contents[k]) : u[j] # contents[k][g]
  <2>1. /\ \A j \in 1 .. Len(r) : r[j] \in ToSet(r)
        /\ \A j \in 1 .. Len(u) : u[j] \in ToSet(u)
    BY <1>6 DEF ToSet
  <2>2. \A k \in ListId \ {a, b} : \A g \in 1 .. Len(contents[k]) :
           contents[k][g] \notin ToSet(contents[a]) \cup ToSet(contents[b])
    <3> TAKE k \in ListId \ {a, b}
    <3> TAKE g \in 1 .. Len(contents[k])
    <3>1. /\ \A i \in 1 .. Len(contents[a]) : contents[k][g] # contents[a][i]
          /\ \A i \in 1 .. Len(contents[b]) : contents[k][g] # contents[b][i]
      BY Facts
    <3>2. /\ DOMAIN contents[a] = 1 .. Len(contents[a])
          /\ DOMAIN contents[b] = 1 .. Len(contents[b])
      BY Facts
    <3> QED
      BY <3>1, <3>2 DEF ToSet
  <2> QED
    BY <2>1, <2>2
<1>7. PICK L \in SUBSET ListId : L = {a, b}
  OBVIOUS
<1>8. \A k \in L : /\ contents'[k] \in Seq(Node)
                   /\ Chain(head'[k], tail'[k], prev', next', contents'[k])
  BY <1>2, <1>6, <1>7
<1>9. \A k \in L, l \in ListId \ L :
         \A i \in 1 .. Len(contents'[k]), j \in 1 .. Len(contents[l]) :
           contents'[k][i] # contents[l][j]
  BY <1>2, <1>5, <1>7
<1>10. \A k, l \in L : \A i \in 1 .. Len(contents'[k]), j \in 1 .. Len(contents'[l]) :
         contents'[k][i] = contents'[l][j] => k = l /\ i = j
  BY <1>2, <1>6, <1>7
<1>11. \A k \in ListId \ L :
            /\ head'[k] = head[k] /\ tail'[k] = tail[k] /\ contents'[k] = contents[k]
            /\ \A i \in 1 .. Len(contents[k]) :
                 /\ prev'[contents[k][i]] = prev[contents[k][i]]
                 /\ next'[contents[k][i]] = next[contents[k][i]]
  BY <1>4, <1>7
<1>12. IInv /\ Fields(prev', next') /\ L \in SUBSET ListId
  OBVIOUS
<1> QED
  BY ONLY <1>12, <1>3, <1>8, <1>9, <1>10, <1>11, Rebuild

-----------------------------------------------------------------------------
(* The sequences that the operations make are again lists of different nodes. *)

\* With a new node in it.
LEMMA DistinctInsert ==
  ASSUME NEW s, NEW i \in 1 .. Len(s) + 1, NEW m \in Node,
         Distinct(s), \A j \in 1 .. Len(s) : s[j] # m
  PROVE  /\ Distinct(InsertAt(s, i, m))
         /\ \A j \in 1 .. Len(InsertAt(s, i, m)) :
              InsertAt(s, i, m)[j] = m \/ \E g \in 1 .. Len(s) : InsertAt(s, i, m)[j] = s[g]
<1> DEFINE r == InsertAt(s, i, m)
<1>0. Len(s) \in Nat /\ i \in 1 .. Len(s) + 1 /\ s \in Seq(Node)
  BY DEF Distinct
<1>1. /\ r \in Seq(Node) /\ Len(r) = Len(s) + 1
      /\ \A j \in 1 .. Len(s) + 1 :
           r[j] = IF j < i THEN s[j] ELSE IF j = i THEN m ELSE s[j - 1]
  <2> HIDE DEF r
  <2> QED
    BY <1>0, InsertAtValue DEF r
<1> HIDE DEF r
<1>2. ASSUME NEW j \in 1 .. Len(s) + 1
      PROVE  r[j] = m \/ \E g \in 1 .. Len(s) : r[j] = s[g]
  BY <1>0, <1>1
<1> DEFINE Place(j) == IF j < i THEN j ELSE j - 1
<1>p. ASSUME NEW j \in 1 .. Len(s) + 1, j # i
      PROVE  Place(j) \in 1 .. Len(s) /\ r[j] = s[Place(j)]
  <2>1. CASE j < i
    BY <1>0, <1>1, <2>1
  <2>2. CASE j > i
    BY <1>0, <1>1, <2>2
  <2> QED
    BY <1>0, <1>p, <2>1, <2>2
<1>q. ASSUME NEW j \in 1 .. Len(s) + 1, NEW k \in 1 .. Len(s) + 1, j # i, k # i,
             Place(j) = Place(k)
      PROVE  j = k
  BY <1>0, <1>q
<1> HIDE DEF Place
<1>3. ASSUME NEW j \in 1 .. Len(s) + 1, NEW k \in 1 .. Len(s) + 1, r[j] = r[k]
      PROVE  j = k
  <2>0. r[i] = m
    BY <1>0, <1>1
  <2>1. CASE j # i /\ k # i
    BY <1>3, <1>p, <1>q, <2>1 DEF Distinct
  <2>2. CASE j = i /\ k # i
    BY <1>3, <1>p, <2>0, <2>2
  <2>3. CASE j # i /\ k = i
    BY <1>3, <1>p, <2>0, <2>3
  <2> QED
    BY <2>1, <2>2, <2>3
<1>4. \A j, k \in 1 .. Len(r) : r[j] = r[k] => j = k
  BY <1>0, <1>1, <1>3
<1> QED
  BY <1>1, <1>2, <1>4 DEF Distinct, r

\* With a part cut out.
LEMMA DistinctCutOut ==
  ASSUME NEW s, NEW i \in 1 .. Len(s), NEW j \in i .. Len(s), Distinct(s)
  PROVE  /\ Distinct(CutOut(s, i, j))
         /\ \A k \in 1 .. Len(CutOut(s, i, j)) : \E g \in 1 .. Len(s) :
              (g < i \/ j < g) /\ CutOut(s, i, j)[k] = s[g]
<1> DEFINE r == CutOut(s, i, j)
<1>0. /\ Len(s) \in Nat /\ i \in 1 .. Len(s) /\ j \in i .. Len(s)
      /\ i \in Int /\ j \in Int /\ s \in Seq(Node)
  BY DEF Distinct
<1>1. /\ r \in Seq(Node) /\ Len(r) = Len(s) - (j - i + 1)
      /\ \A k \in 1 .. Len(s) - (j - i + 1) : r[k] = IF k < i THEN s[k] ELSE s[k + (j - i + 1)]
  <2> HIDE DEF r
  <2> QED
    BY <1>0, CutOutValue DEF r
<1> HIDE DEF r
<1> DEFINE Place(k) == IF k < i THEN k ELSE k + (j - i + 1)
<1>2. ASSUME NEW k \in 1 .. Len(r)
      PROVE  /\ Place(k) \in 1 .. Len(s) /\ (Place(k) < i \/ j < Place(k))
             /\ r[k] = s[Place(k)]
  <2>1. CASE k < i
    BY <1>0, <1>1, <2>1
  <2>2. CASE k >= i
    BY <1>0, <1>1, <2>2
  <2> QED
    BY <1>0, <1>1, <2>1, <2>2
<1>3. ASSUME NEW k \in 1 .. Len(r), NEW n \in 1 .. Len(r), Place(k) = Place(n)
      PROVE  k = n
  BY <1>0, <1>1, <1>3
<1> HIDE DEF Place
<1>4. \A k, n \in 1 .. Len(r) : r[k] = r[n] => k = n
  BY <1>2, <1>3 DEF Distinct
<1> QED
  BY <1>1, <1>2, <1>4 DEF Distinct, r

\* The part itself.
LEMMA DistinctPart ==
  ASSUME NEW s, NEW i \in 1 .. Len(s), NEW j \in i .. Len(s), Distinct(s)
  PROVE  /\ Distinct(SubSeq(s, i, j))
         /\ \A k \in 1 .. Len(SubSeq(s, i, j)) : \E g \in i .. j :
              SubSeq(s, i, j)[k] = s[g]
<1> DEFINE r == SubSeq(s, i, j)
<1>0. /\ Len(s) \in Nat /\ i \in 1 .. Len(s) /\ j \in i .. Len(s)
      /\ i \in Int /\ j \in Int /\ s \in Seq(Node)
  BY DEF Distinct
<1>1. /\ r \in Seq(Node) /\ Len(r) = j - i + 1
      /\ \A k \in 1 .. j - i + 1 : r[k] = s[i + k - 1]
  <2> HIDE DEF r
  <2> QED
    BY <1>0, PartValue DEF r
<1> HIDE DEF r
<1>2. \A k \in 1 .. Len(r) : i + k - 1 \in i .. j /\ i + k - 1 \in 1 .. Len(s)
  BY <1>0, <1>1
<1>3. \A k, n \in 1 .. Len(r) : i + k - 1 = i + n - 1 => k = n
  BY <1>0, <1>1
<1>4. \A k, n \in 1 .. Len(r) : r[k] = r[n] => k = n
  <2>1. ASSUME NEW k \in 1 .. Len(r), NEW n \in 1 .. Len(r), r[k] = r[n] PROVE k = n
    <3>1. s[i + k - 1] = s[i + n - 1]
      BY <1>1, <2>1
    <3>2. i + k - 1 = i + n - 1
      BY <1>2, <3>1 DEF Distinct
    <3> QED
      BY <1>3, <3>2
  <2> QED
    BY <2>1
<1> QED
  BY <1>1, <1>2, <1>4 DEF Distinct, r

\* With a new node in the place of another.
LEMMA DistinctReplace ==
  ASSUME NEW s, NEW i \in 1 .. Len(s), NEW m \in Node,
         Distinct(s), \A j \in 1 .. Len(s) : s[j] # m
  PROVE  /\ Distinct(ReplaceAt(s, i, m))
         /\ \A j \in 1 .. Len(ReplaceAt(s, i, m)) :
              ReplaceAt(s, i, m)[j] = m \/ \E g \in 1 .. Len(s) : ReplaceAt(s, i, m)[j] = s[g]
<1> DEFINE r == ReplaceAt(s, i, m)
<1>1. s \in Seq(Node) /\ \A g, j \in 1 .. Len(s) : s[g] = s[j] => g = j
  BY DEF Distinct
<1>2. /\ r \in Seq(Node) /\ Len(r) = Len(s)
      /\ \A j \in 1 .. Len(s) : r[j] = IF j = i THEN m ELSE s[j]
  <2>1. PICK n \in Nat : n = Len(s)
    BY ONLY <1>1
  <2>2. n \in Nat /\ s \in [1 .. n -> Node] /\ i \in 1 .. n
    BY ONLY <1>1, <2>1, i \in 1 .. Len(s)
  <2>3. r \in Seq(Node) /\ Len(r) = n
    BY ONLY <2>2, m \in Node, ReplaceAtValue
  <2>4. \A j \in 1 .. n : r[j] = IF j = i THEN m ELSE s[j]
    BY ONLY <2>2, m \in Node DEF ReplaceAt
  <2> QED
    BY ONLY <2>1, <2>3, <2>4
<1> HIDE DEF r
<1>3. \A g, j \in 1 .. Len(r) : r[g] = r[j] => g = j
  BY <1>1, <1>2
<1>4. \A j \in 1 .. Len(r) : r[j] = m \/ \E g \in 1 .. Len(s) : r[j] = s[g]
  BY <1>2
<1> QED
  BY <1>2, <1>3, <1>4 DEF r, Distinct

\* Turned round.
LEMMA DistinctReverse ==
  ASSUME NEW s, Distinct(s)
  PROVE  /\ Distinct(Reverse(s))
         /\ \A j \in 1 .. Len(Reverse(s)) : \E g \in 1 .. Len(s) : Reverse(s)[j] = s[g]
<1> DEFINE r == Reverse(s)
<1>0. Len(s) \in Nat /\ s \in Seq(Node)
  BY DEF Distinct
<1>1. /\ r \in Seq(Node) /\ Len(r) = Len(s)
      /\ \A j \in 1 .. Len(s) : r[j] = s[Len(s) - j + 1]
  BY <1>0 DEF Reverse
<1> HIDE DEF r
<1>2. \A j \in 1 .. Len(s) : Len(s) - j + 1 \in 1 .. Len(s)
  BY <1>0
<1>3. \A j, k \in 1 .. Len(s) : Len(s) - j + 1 = Len(s) - k + 1 => j = k
  BY <1>0
<1>4. ASSUME NEW j \in 1 .. Len(r), NEW k \in 1 .. Len(r), r[j] = r[k]
      PROVE  j = k
  <2>1. s[Len(s) - j + 1] = s[Len(s) - k + 1]
    BY <1>1, <1>4
  <2>2. Len(s) - j + 1 = Len(s) - k + 1
    BY <1>1, <1>2, <2>1 DEF Distinct
  <2> QED
    BY <1>1, <1>3, <2>2
<1> QED
  BY <1>1, <1>2, <1>4 DEF Distinct, r

\* Two that have no node in common, joined.
LEMMA DistinctJoin ==
  ASSUME NEW s, NEW u, Distinct(s), Distinct(u),
         \A j \in 1 .. Len(s), k \in 1 .. Len(u) : s[j] # u[k]
  PROVE  /\ Distinct(s \o u)
         /\ \A j \in 1 .. Len(s \o u) : \/ \E g \in 1 .. Len(s) : (s \o u)[j] = s[g]
                                       \/ \E g \in 1 .. Len(u) : (s \o u)[j] = u[g]
<1> DEFINE r == s \o u
<1>0. Len(s) \in Nat /\ Len(u) \in Nat /\ s \in Seq(Node) /\ u \in Seq(Node)
  BY DEF Distinct
<1>1. /\ r \in Seq(Node) /\ Len(r) = Len(s) + Len(u)
      /\ \A j \in 1 .. Len(s) + Len(u) : r[j] = IF j <= Len(s) THEN s[j] ELSE u[j - Len(s)]
  BY <1>0, ConcatProperties
<1> HIDE DEF r
<1>2. ASSUME NEW j \in 1 .. Len(r)
      PROVE  \/ j <= Len(s) /\ j \in 1 .. Len(s) /\ r[j] = s[j]
             \/ j > Len(s) /\ j - Len(s) \in 1 .. Len(u) /\ r[j] = u[j - Len(s)]
  BY <1>0, <1>1
<1>3. \A j, k \in 1 .. Len(r) : j - Len(s) = k - Len(s) => j = k
  BY <1>0, <1>1
<1>4. ASSUME NEW j \in 1 .. Len(r), NEW k \in 1 .. Len(r), r[j] = r[k]
      PROVE  j = k
  <2>1. CASE j <= Len(s) /\ k <= Len(s)
    BY <1>0, <1>1, <1>2, <1>4, <2>1 DEF Distinct
  <2>2. CASE j > Len(s) /\ k > Len(s)
    <3>1. u[j - Len(s)] = u[k - Len(s)] /\ j - Len(s) \in 1 .. Len(u) /\ k - Len(s) \in 1 .. Len(u)
      BY <1>0, <1>1, <1>2, <1>4, <2>2
    <3> QED
      BY <1>3, <3>1 DEF Distinct
  <2>3. CASE j <= Len(s) /\ k > Len(s)
    <3>1. r[j] = s[j] /\ j \in 1 .. Len(s)
      BY <1>0, <1>1, <1>2, <2>3
    <3>2. r[k] = u[k - Len(s)] /\ k - Len(s) \in 1 .. Len(u)
      BY <1>0, <1>1, <1>2, <2>3
    <3> QED
      BY <1>4, <3>1, <3>2
  <2>4. CASE j > Len(s) /\ k <= Len(s)
    <3>1. r[j] = u[j - Len(s)] /\ j - Len(s) \in 1 .. Len(u)
      BY <1>0, <1>1, <1>2, <2>4
    <3>2. r[k] = s[k] /\ k \in 1 .. Len(s)
      BY <1>0, <1>1, <1>2, <2>4
    <3> QED
      BY <1>4, <3>1, <3>2
  <2> QED
    BY <1>0, <1>1, <2>1, <2>2, <2>3, <2>4
<1> QED
  BY <1>1, <1>2, <1>4 DEF Distinct, r

-----------------------------------------------------------------------------

\* What the links of the nodes of one list are.
LEMMA Places ==
  ASSUME IInv, NEW l \in ListId, NEW s, s = contents[l]
  PROVE  /\ s \in Seq(Node) /\ Distinct(s) /\ Len(s) \in Nat /\ DOMAIN s = 1 .. Len(s)
         /\ Chain(head[l], tail[l], prev, next, s)
         /\ head[l] = NodeAt(s, 1) /\ tail[l] = NodeAt(s, Len(s))
         /\ \A k \in 1 .. Len(s) :
              /\ s[k] \in Node /\ s[k] # Null
              /\ prev[s[k]] = NodeAt(s, k - 1) /\ next[s[k]] = NodeAt(s, k + 1)
         /\ \A j, k \in 1 .. Len(s) : s[j] = s[k] => j = k
         /\ \A m \in Node : Free(m) => m # Null /\ \A k \in 1 .. Len(s) : s[k] # m
<1>1. s \in Seq(Node) /\ Distinct(s) /\ Len(s) \in Nat /\ DOMAIN s = 1 .. Len(s)
  BY Facts
<1>2. Chain(head[l], tail[l], prev, next, s)
  BY Facts
<1>3. \A m \in Node : Free(m) => \A k \in 1 .. Len(s) : s[k] # m
  BY Facts
<1>4. Null \notin Node
  BY ListAssumption
<1>5. /\ head[l] = NodeAt(s, 1) /\ tail[l] = NodeAt(s, Len(s))
      /\ \A k \in 1 .. Len(s) :
           prev[s[k]] = NodeAt(s, k - 1) /\ next[s[k]] = NodeAt(s, k + 1)
  BY <1>1, <1>2 DEF Chain
<1>6. /\ \A k \in 1 .. Len(s) : s[k] \in Node /\ s[k] # Null
      /\ \A j, k \in 1 .. Len(s) : s[j] = s[k] => j = k
  BY <1>1, <1>4 DEF Distinct
<1>7. \A m \in Node : Free(m) => m # Null /\ \A k \in 1 .. Len(s) : s[k] # m
  BY <1>3, <1>4
<1> QED
  BY <1>1, <1>2, <1>5, <1>6, <1>7

\* A node of another list is none of this list's.
LEMMA NodesOfOthers ==
  ASSUME IInv, NEW l \in ListId, NEW k \in ListId \ {l}, NEW j \in 1 .. Len(contents[k])
  PROVE  /\ contents[k][j] \in Node
         /\ \A i : contents[k][j] # NodeAt(contents[l], i)
         /\ \A i \in 1 .. Len(contents[l]) : contents[k][j] # contents[l][i]
         /\ \A m \in Node : Free(m) => contents[k][j] # m
<1>1. /\ DOMAIN contents[l] = 1 .. Len(contents[l]) /\ contents[k] \in Seq(Node)
      /\ contents[k][j] \in Node /\ Null \notin Node
  BY Facts, ListAssumption
<1>2. \A i \in 1 .. Len(contents[l]) : contents[k][j] # contents[l][i]
  BY Facts
<1>3. \A m \in Node : Free(m) => contents[k][j] # m
  BY Facts
<1> QED
  BY <1>1, <1>2, <1>3 DEF NodeAt

\* Writing a link keeps the links well typed.
LEMMA WithType ==
  ASSUME NEW f \in [Node -> Link], NEW x, NEW v \in Link
  PROVE  With(f, x, v) \in [Node -> Link]
BY DEF With

\* Putting a free node m in between places i - 1 and i of the list l.
LEMMA StepInsert ==
  ASSUME IInv, NEW l \in ListId, NEW s, s = contents[l], NEW m \in Node, Free(m),
         NEW i \in 1 .. Len(s) + 1, NEW h2, NEW t2,
         head' = [head EXCEPT ![l] = h2], tail' = [tail EXCEPT ![l] = t2],
         h2 = (IF i = 1 THEN m ELSE head[l]), t2 = (IF i = Len(s) + 1 THEN m ELSE tail[l]),
         contents' = [contents EXCEPT ![l] = InsertAt(s, i, m)],
         Fields(prev', next'), InsertLinks(s, i, m, prev, next, prev', next'),
         \A k \in ListId \ {l} : \A j \in 1 .. Len(contents[k]) :
            /\ prev'[contents[k][j]] = prev[contents[k][j]]
            /\ next'[contents[k][j]] = next[contents[k][j]]
  PROVE  IInv'
<1>r. PICK r : r = InsertAt(s, i, m)
  OBVIOUS
<1>1. /\ s \in Seq(Node) /\ Distinct(s) /\ Len(s) \in Nat
      /\ Chain(head[l], tail[l], prev, next, s) /\ \A k \in 1 .. Len(s) : s[k] # m
  BY Places
<1>2. Chain(h2, t2, prev', next', r)
  BY <1>r, <1>1, ChainInsert
<1>3. /\ Distinct(r)
      /\ \A j \in 1 .. Len(r) : r[j] = m \/ \E g \in 1 .. Len(s) : r[j] = s[g]
  BY <1>r, <1>1, DistinctInsert
<1>4. \A j \in 1 .. Len(r) :
         Free(r[j]) \/ \E g \in 1 .. Len(contents[l]) : r[j] = contents[l][g]
  BY <1>3
<1>5. contents' = [contents EXCEPT ![l] = r]
  BY <1>r
<1> QED
  BY <1>2, <1>3, <1>4, <1>5, StepOne

\* A free node put before a node of the list.
LEMMA InsertBeforeStep ==
  ASSUME IInv, NEW l \in ListId, NEW i \in DOMAIN contents[l], NEW m \in Node, Free(m),
         InsertBefore(l, contents[l][i], i, m)
  PROVE  IInv'
<1>s. PICK s : s = contents[l]
  OBVIOUS
<1>1. s \in Seq(Node) /\ Distinct(s) /\ Len(s) \in Nat /\ i \in 1 .. Len(s)
  BY <1>s, Places
<1>2. /\ head[l] = NodeAt(s, 1)
      /\ \A k \in 1 .. Len(s) :
           /\ s[k] \in Node /\ s[k] # Null
           /\ prev[s[k]] = NodeAt(s, k - 1) /\ next[s[k]] = NodeAt(s, k + 1)
      /\ \A j, k \in 1 .. Len(s) : s[j] = s[k] => j = k
      /\ m # Null /\ \A k \in 1 .. Len(s) : s[k] # m
      /\ DOMAIN s = 1 .. Len(s)
  BY <1>s, Places, SMTT(30)
<1>3. /\ head' = [head EXCEPT ![l] = IF head[l] = s[i] THEN m ELSE head[l]]
      /\ next' = With(With(next, m, s[i]), NodeAt(s, i - 1), m)
      /\ prev' = With(With(prev, m, NodeAt(s, i - 1)), s[i], m)
      /\ contents' = [contents EXCEPT ![l] = InsertAt(s, i, m)]
      /\ tail' = tail
  BY <1>s, <1>1, <1>2 DEF InsertBefore
<1>4. Fields(prev', next')
  <2>1. NodeAt(s, i - 1) \in Link /\ m \in Link /\ s[i] \in Link
    BY <1>1, <1>2 DEF NodeAt, Link, NodeOrNull
  <2>2. prev \in [Node -> Link] /\ next \in [Node -> Link]
    BY Facts DEF Fields
  <2> QED
    BY <1>3, <2>1, <2>2, WithType DEF Fields
<1>5. InsertLinks(s, i, m, prev, next, prev', next')
  <2>1. prev'[m] = NodeAt(s, i - 1)
    BY <1>1, <1>2, <1>3 DEF With
  <2>2. next'[m] = NodeAt(s, i)
    BY <1>1, <1>2, <1>3 DEF With, NodeAt
  <2>3. ASSUME NEW k \in 1 .. Len(s)
        PROVE  prev'[s[k]] = IF k = i THEN m ELSE prev[s[k]]
    BY <1>1, <1>2, <1>3 DEF With
  <2>4. ASSUME NEW k \in 1 .. Len(s)
        PROVE  next'[s[k]] = IF k = i - 1 THEN m ELSE next[s[k]]
    BY <1>1, <1>2, <1>3 DEF With, NodeAt
  <2> QED
    BY <2>1, <2>2, <2>3, <2>4 DEF InsertLinks
<1>6. (IF head[l] = s[i] THEN m ELSE head[l]) = (IF i = 1 THEN m ELSE head[l])
  BY <1>1, <1>2 DEF NodeAt
<1>7. tail[l] = (IF i = Len(s) + 1 THEN m ELSE tail[l]) /\ i \in 1 .. Len(s) + 1
  BY <1>1
<1>8. \A k \in ListId \ {l} : \A j \in 1 .. Len(contents[k]) :
         /\ prev'[contents[k][j]] = prev[contents[k][j]]
         /\ next'[contents[k][j]] = next[contents[k][j]]
  BY <1>s, <1>1, <1>3, NodesOfOthers DEF With
<1>9. /\ tail' = [tail EXCEPT ![l] = tail[l]]
      /\ head' = [head EXCEPT ![l] = IF i = 1 THEN m ELSE head[l]]
      /\ contents' = [contents EXCEPT ![l] = InsertAt(s, i, m)]
  BY <1>3, <1>6 DEF IInv, ListTypeOK
<1>h. PICK h2 : h2 = (IF i = 1 THEN m ELSE head[l])
  OBVIOUS
<1> QED
  BY <1>s, <1>h, <1>4, <1>5, <1>7, <1>8, <1>9, StepInsert

\* A free node put behind a node of the list.
LEMMA InsertBehindStep ==
  ASSUME IInv, NEW l \in ListId, NEW i \in DOMAIN contents[l], NEW m \in Node, Free(m),
         InsertBehind(l, contents[l][i], i, m)
  PROVE  IInv'
<1>s. PICK s : s = contents[l]
  OBVIOUS
<1>1. s \in Seq(Node) /\ Distinct(s) /\ Len(s) \in Nat /\ i \in 1 .. Len(s)
  BY <1>s, Places
<1>2. /\ tail[l] = NodeAt(s, Len(s))
      /\ \A k \in 1 .. Len(s) :
           /\ s[k] \in Node /\ s[k] # Null
           /\ prev[s[k]] = NodeAt(s, k - 1) /\ next[s[k]] = NodeAt(s, k + 1)
      /\ \A j, k \in 1 .. Len(s) : s[j] = s[k] => j = k
      /\ m # Null /\ \A k \in 1 .. Len(s) : s[k] # m
      /\ DOMAIN s = 1 .. Len(s)
  <2>1. tail[l] = NodeAt(s, Len(s)) /\ DOMAIN s = 1 .. Len(s)
    BY <1>s, Places
  <2>2. \A k \in 1 .. Len(s) :
           /\ s[k] \in Node /\ s[k] # Null
           /\ prev[s[k]] = NodeAt(s, k - 1) /\ next[s[k]] = NodeAt(s, k + 1)
    BY <1>s, Places
  <2>3. /\ \A j, k \in 1 .. Len(s) : s[j] = s[k] => j = k
        /\ m # Null /\ \A k \in 1 .. Len(s) : s[k] # m
    BY <1>s, Places, SMTT(30)
  <2> QED
    BY <2>1, <2>2, <2>3
<1>3. /\ tail' = [tail EXCEPT ![l] = IF tail[l] = s[i] THEN m ELSE tail[l]]
      /\ prev' = With(With(prev, m, s[i]), NodeAt(s, i + 1), m)
      /\ next' = With(With(next, m, NodeAt(s, i + 1)), s[i], m)
      /\ contents' = [contents EXCEPT ![l] = InsertAt(s, i + 1, m)]
      /\ head' = head
  BY <1>s, <1>1, <1>2 DEF InsertBehind
<1>4. Fields(prev', next')
  <2>1. NodeAt(s, i + 1) \in Link /\ m \in Link /\ s[i] \in Link
    BY <1>1, <1>2 DEF NodeAt, Link, NodeOrNull
  <2>2. prev \in [Node -> Link] /\ next \in [Node -> Link]
    BY Facts DEF Fields
  <2> QED
    BY <1>3, <2>1, <2>2, WithType DEF Fields
<1>i. PICK g \in 1 .. Len(s) + 1 : g = i + 1 /\ i = g - 1 /\ g # 1
  BY <1>1
<1>5. InsertLinks(s, g, m, prev, next, prev', next')
  <2>1. prev'[m] = NodeAt(s, g - 1)
    BY <1>i, <1>1, <1>2, <1>3 DEF With, NodeAt
  <2>2. next'[m] = NodeAt(s, g)
    BY <1>i, <1>1, <1>2, <1>3 DEF With
  <2>3. ASSUME NEW k \in 1 .. Len(s)
        PROVE  prev'[s[k]] = IF k = g THEN m ELSE prev[s[k]]
    BY <1>i, <1>1, <1>2, <1>3 DEF With, NodeAt
  <2>4. ASSUME NEW k \in 1 .. Len(s)
        PROVE  next'[s[k]] = IF k = g - 1 THEN m ELSE next[s[k]]
    BY <1>i, <1>1, <1>2, <1>3 DEF With
  <2> QED
    BY <2>1, <2>2, <2>3, <2>4 DEF InsertLinks
<1>6. (IF tail[l] = s[i] THEN m ELSE tail[l]) = (IF g = Len(s) + 1 THEN m ELSE tail[l])
  BY <1>i, <1>1, <1>2 DEF NodeAt
<1>7. head[l] = (IF g = 1 THEN m ELSE head[l])
  BY <1>i
<1>8. \A k \in ListId \ {l} : \A j \in 1 .. Len(contents[k]) :
         /\ prev'[contents[k][j]] = prev[contents[k][j]]
         /\ next'[contents[k][j]] = next[contents[k][j]]
  BY <1>s, <1>1, <1>3, NodesOfOthers DEF With
<1>9. /\ head' = [head EXCEPT ![l] = head[l]]
      /\ tail' = [tail EXCEPT ![l] = IF g = Len(s) + 1 THEN m ELSE tail[l]]
      /\ contents' = [contents EXCEPT ![l] = InsertAt(s, g, m)]
  BY <1>i, <1>3, <1>6 DEF IInv, ListTypeOK
<1>h. PICK t2 : t2 = (IF g = Len(s) + 1 THEN m ELSE tail[l])
  OBVIOUS
<1> QED
  BY <1>s, <1>h, <1>4, <1>5, <1>7, <1>8, <1>9, StepInsert

\* A free node put in an empty list.
LEMMA BecomesOnlyStep ==
  ASSUME IInv, NEW l \in ListId, NEW m \in Node, Free(m), head[l] = Null \/ tail[l] = Null,
         BecomesOnly(l, m)
  PROVE  IInv'
<1>s. PICK s : s = contents[l]
  OBVIOUS
<1>1. s \in Seq(Node) /\ Len(s) \in Nat /\ DOMAIN s = 1 .. Len(s)
  BY <1>s, Places
<1>2. s = <<>> /\ Len(s) = 0
  <2>1. head[l] = NodeAt(s, 1) /\ tail[l] = NodeAt(s, Len(s))
        /\ \A k \in 1 .. Len(s) : s[k] # Null
    BY <1>s, Places
  <2>2. NodeAt(s, 1) = Null \/ NodeAt(s, Len(s)) = Null
    BY <2>1, Zenon
  <2>3. Len(s) = 0
    BY ONLY <1>1, <2>1, <2>2 DEF NodeAt
  <2> QED
    BY <1>1, <2>3, EmptySeq
<1>3. /\ head' = [head EXCEPT ![l] = m] /\ tail' = [tail EXCEPT ![l] = m]
      /\ prev' = With(prev, m, Null) /\ next' = With(next, m, Null)
      /\ contents' = [contents EXCEPT ![l] = <<m>>]
  BY DEF BecomesOnly
<1>4. Fields(prev', next')
  <2>1. Null \in Link /\ prev \in [Node -> Link] /\ next \in [Node -> Link]
    BY Facts DEF Fields, Link, NodeOrNull
  <2> QED
    BY <1>3, <2>1, WithType DEF Fields
<1>5. InsertLinks(s, 1, m, prev, next, prev', next')
  BY <1>1, <1>2, <1>3 DEF InsertLinks, NodeAt, With
<1>6. InsertAt(s, 1, m) = <<m>>
  <2>1. 1 \in 1 .. Len(s) + 1
    BY <1>2
  <2>2. /\ InsertAt(s, 1, m) \in Seq(Node) /\ Len(InsertAt(s, 1, m)) = 1
        /\ InsertAt(s, 1, m)[1] = m
    <3>1. /\ InsertAt(s, 1, m) \in Seq(Node)
          /\ Len(InsertAt(s, 1, m)) = Len(s) + 1
          /\ \A j \in 1 .. Len(s) + 1 :
               InsertAt(s, 1, m)[j] = IF j < 1 THEN s[j] ELSE IF j = 1 THEN m ELSE s[j - 1]
      BY <1>1, <2>1, InsertAtValue, SMTT(30)
    <3> QED
      BY <1>2, <3>1
  <2> QED
    BY <2>2
<1>7. \A k \in ListId \ {l} : \A j \in 1 .. Len(contents[k]) :
         /\ prev'[contents[k][j]] = prev[contents[k][j]]
         /\ next'[contents[k][j]] = next[contents[k][j]]
  BY <1>3, NodesOfOthers DEF With
<1>8. 1 \in 1 .. Len(s) + 1 /\ m = (IF 1 = 1 THEN m ELSE head[l])
      /\ m = (IF 1 = Len(s) + 1 THEN m ELSE tail[l])
  BY <1>2
<1> QED
  BY <1>s, <1>3, <1>4, <1>5, <1>6, <1>7, <1>8, StepInsert

\* A node taken out; it may keep its links, as no list has it.
LEMMA RemoveNodeStep ==
  ASSUME IInv, NEW l \in ListId, NEW i \in DOMAIN contents[l], RemoveNode(l, contents[l][i], i)
  PROVE  IInv'
<1>s. PICK s : s = contents[l]
  OBVIOUS
<1>1. /\ s \in Seq(Node) /\ Distinct(s) /\ Len(s) \in Nat
      /\ DOMAIN s = 1 .. Len(s) /\ Chain(head[l], tail[l], prev, next, s)
  BY <1>s, Places
<1>2. /\ head[l] = NodeAt(s, 1) /\ tail[l] = NodeAt(s, Len(s))
      /\ \A k \in 1 .. Len(s) :
           /\ s[k] \in Node /\ s[k] # Null
           /\ prev[s[k]] = NodeAt(s, k - 1) /\ next[s[k]] = NodeAt(s, k + 1)
      /\ \A j, k \in 1 .. Len(s) : s[j] = s[k] => j = k
  <2>1. head[l] = NodeAt(s, 1) /\ tail[l] = NodeAt(s, Len(s))
    BY <1>s, Places
  <2>2. \A k \in 1 .. Len(s) :
           /\ s[k] \in Node /\ s[k] # Null
           /\ prev[s[k]] = NodeAt(s, k - 1) /\ next[s[k]] = NodeAt(s, k + 1)
    BY <1>s, Places
  <2>3. \A j, k \in 1 .. Len(s) : s[j] = s[k] => j = k
    BY <1>s, Places, SMTT(30)
  <2> QED
    BY <2>1, <2>2, <2>3
<1>i. i \in 1 .. Len(s)
  BY <1>s, <1>1
<1>r. PICK r : r = CutOut(s, i, i)
  OBVIOUS
<1>3. /\ head' = [head EXCEPT ![l] = IF head[l] = s[i] THEN NodeAt(s, i + 1) ELSE head[l]]
      /\ tail' = [tail EXCEPT ![l] = IF tail[l] = s[i] THEN NodeAt(s, i - 1) ELSE tail[l]]
      /\ next' = With(next, NodeAt(s, i - 1), NodeAt(s, i + 1))
      /\ prev' = With(prev, NodeAt(s, i + 1), NodeAt(s, i - 1))
      /\ contents' = [contents EXCEPT ![l] = r]
  <2>1. RemoveAt(s, i) = CutOut(s, i, i)
    BY DEF RemoveAt, CutOut
  <2> QED
    BY <1>s, <1>i, <1>r, <1>2, <2>1 DEF RemoveNode
<1>4. Fields(prev', next')
  <2>1. NodeAt(s, i - 1) \in Link /\ NodeAt(s, i + 1) \in Link
    BY <1>1, <1>2 DEF NodeAt, Link, NodeOrNull
  <2>2. prev \in [Node -> Link] /\ next \in [Node -> Link]
    BY Facts DEF Fields
  <2> QED
    BY <1>3, <2>1, <2>2, WithType DEF Fields
<1>5. CutLinks(s, i, i, prev, next, prev', next')
  <2>1. ASSUME NEW k \in 1 .. Len(s)
        PROVE  prev'[s[k]] = IF k = i + 1 THEN NodeAt(s, i - 1) ELSE prev[s[k]]
    BY <1>i, <1>1, <1>2, <1>3 DEF With, NodeAt
  <2>2. ASSUME NEW k \in 1 .. Len(s)
        PROVE  next'[s[k]] = IF k = i - 1 THEN NodeAt(s, i + 1) ELSE next[s[k]]
    BY <1>i, <1>1, <1>2, <1>3 DEF With, NodeAt
  <2> QED
    BY <2>1, <2>2 DEF CutLinks
<1>h. PICK h2 : h2 = (IF i = 1 THEN NodeAt(s, i + 1) ELSE head[l])
  OBVIOUS
<1>t. PICK t2 : t2 = (IF i = Len(s) THEN NodeAt(s, i - 1) ELSE tail[l])
  OBVIOUS
<1>6. head' = [head EXCEPT ![l] = h2] /\ tail' = [tail EXCEPT ![l] = t2]
  <2>1. head[l] = s[i] <=> i = 1
    BY <1>i, <1>1, <1>2 DEF NodeAt
  <2>2. tail[l] = s[i] <=> i = Len(s)
    BY <1>i, <1>1, <1>2 DEF NodeAt
  <2> QED
    BY <1>h, <1>t, <1>3, <2>1, <2>2
<1>7. Chain(h2, t2, prev', next', r)
  <2>1. i \in i .. Len(s)
    BY <1>i, <1>1
  <2> QED
    BY <1>h, <1>t, <1>r, <1>i, <1>1, <1>5, <2>1, ChainCutOut
<1>8. /\ Distinct(r)
      /\ \A j \in 1 .. Len(r) : \E g \in 1 .. Len(contents[l]) : r[j] = contents[l][g]
  <2>1. i \in i .. Len(s)
    BY <1>i, <1>1
  <2>2. /\ Distinct(r)
        /\ \A j \in 1 .. Len(r) : \E g \in 1 .. Len(s) : (g < i \/ i < g) /\ r[j] = s[g]
    BY <1>r, <1>i, <1>1, <2>1, DistinctCutOut
  <2> QED
    BY <1>s, <2>2
<1>9. \A k \in ListId \ {l} : \A j \in 1 .. Len(contents[k]) :
         /\ prev'[contents[k][j]] = prev[contents[k][j]]
         /\ next'[contents[k][j]] = next[contents[k][j]]
  BY <1>s, <1>3, NodesOfOthers DEF With
<1>10. contents' = [contents EXCEPT ![l] = r]
  BY <1>3
<1> QED
  BY <1>4, <1>6, <1>7, <1>8, <1>9, <1>10, StepOne

\* A free node put in the place of another, with its links.
LEMMA ReplaceNodeStep ==
  ASSUME IInv, NEW l \in ListId, NEW i \in DOMAIN contents[l], NEW m \in Node,
         ReplaceNode(l, i, m)
  PROVE  IInv'
<1>s. PICK s : s = contents[l]
  OBVIOUS
<1>1. /\ s \in Seq(Node) /\ Distinct(s) /\ Len(s) \in Nat
      /\ DOMAIN s = 1 .. Len(s) /\ Chain(head[l], tail[l], prev, next, s)
  BY <1>s, Places
<1>2. /\ head[l] = NodeAt(s, 1) /\ tail[l] = NodeAt(s, Len(s))
      /\ \A k \in 1 .. Len(s) :
           /\ s[k] \in Node /\ s[k] # Null
           /\ prev[s[k]] = NodeAt(s, k - 1) /\ next[s[k]] = NodeAt(s, k + 1)
      /\ \A j, k \in 1 .. Len(s) : s[j] = s[k] => j = k
  <2>1. head[l] = NodeAt(s, 1) /\ tail[l] = NodeAt(s, Len(s))
    BY <1>s, Places
  <2>2. \A k \in 1 .. Len(s) :
           /\ s[k] \in Node /\ s[k] # Null
           /\ prev[s[k]] = NodeAt(s, k - 1) /\ next[s[k]] = NodeAt(s, k + 1)
    BY <1>s, Places
  <2>3. \A j, k \in 1 .. Len(s) : s[j] = s[k] => j = k
    BY <1>s, Places
  <2> QED
    BY <2>1, <2>2, <2>3
<1>i. i \in 1 .. Len(s) /\ Free(m)
  BY <1>s, <1>1 DEF ReplaceNode
<1>m. m # Null /\ \A k \in 1 .. Len(s) : s[k] # m
  <2>1. m # Null
    BY ListAssumption
  <2>2. ToSet(s) = {s[k] : k \in 1 .. Len(s)}
    BY <1>1 DEF ToSet
  <2>3. m \notin ToSet(s)
    BY <1>i, <1>s DEF Free
  <2> QED
    BY <2>1, <2>2, <2>3
<1>r. PICK r : r = ReplaceAt(s, i, m)
  OBVIOUS
<1>3. /\ head' = [head EXCEPT ![l] = IF head[l] = s[i] THEN m ELSE head[l]]
      /\ tail' = [tail EXCEPT ![l] = IF tail[l] = s[i] THEN m ELSE tail[l]]
      /\ next' = With(With(next, NodeAt(s, i - 1), m), m, NodeAt(s, i + 1))
      /\ prev' = With(With(prev, NodeAt(s, i + 1), m), m, NodeAt(s, i - 1))
      /\ contents' = [contents EXCEPT ![l] = r]
  BY <1>s, <1>i, <1>r, <1>2 DEF ReplaceNode
<1>4. Fields(prev', next')
  <2>1. NodeAt(s, i - 1) \in Link /\ NodeAt(s, i + 1) \in Link /\ m \in Link
    BY <1>1, <1>2 DEF NodeAt, Link, NodeOrNull
  <2>2. prev \in [Node -> Link] /\ next \in [Node -> Link]
    BY Facts DEF Fields
  <2> QED
    BY <1>3, <2>1, <2>2, WithType DEF Fields
<1>5. ReplaceLinks(s, i, m, prev, next, prev', next')
  <2>1. prev'[m] = NodeAt(s, i - 1) /\ next'[m] = NodeAt(s, i + 1)
    BY <1>3 DEF With
  <2>2. ASSUME NEW k \in 1 .. Len(s), k # i
        PROVE  prev'[s[k]] = IF k = i + 1 THEN m ELSE prev[s[k]]
    BY <1>i, <1>m, <1>1, <1>2, <1>3, <2>2 DEF With, NodeAt
  <2>3. ASSUME NEW k \in 1 .. Len(s), k # i
        PROVE  next'[s[k]] = IF k = i - 1 THEN m ELSE next[s[k]]
    BY <1>i, <1>m, <1>1, <1>2, <1>3, <2>3 DEF With, NodeAt
  <2> QED
    BY <2>1, <2>2, <2>3 DEF ReplaceLinks
<1>h. PICK h2 : h2 = (IF i = 1 THEN m ELSE head[l])
  OBVIOUS
<1>t. PICK t2 : t2 = (IF i = Len(s) THEN m ELSE tail[l])
  OBVIOUS
<1>6. head' = [head EXCEPT ![l] = h2] /\ tail' = [tail EXCEPT ![l] = t2]
  <2>1. head[l] = s[i] <=> i = 1
    BY <1>i, <1>1, <1>2 DEF NodeAt
  <2>2. tail[l] = s[i] <=> i = Len(s)
    BY <1>i, <1>1, <1>2 DEF NodeAt
  <2> QED
    BY <1>h, <1>t, <1>3, <2>1, <2>2
<1>7. Chain(h2, t2, prev', next', r)
  BY <1>h, <1>t, <1>r, <1>i, <1>1, <1>5, ChainReplace
<1>8. /\ Distinct(r)
      /\ \A j \in 1 .. Len(r) :
           Free(r[j]) \/ \E g \in 1 .. Len(contents[l]) : r[j] = contents[l][g]
  <2>1. /\ Distinct(r)
        /\ \A j \in 1 .. Len(r) : r[j] = m \/ \E g \in 1 .. Len(s) : r[j] = s[g]
    BY <1>r, <1>i, <1>m, <1>1, DistinctReplace
  <2> QED
    BY <1>s, <1>i, <2>1
<1>9. \A k \in ListId \ {l} : \A j \in 1 .. Len(contents[k]) :
         /\ prev'[contents[k][j]] = prev[contents[k][j]]
         /\ next'[contents[k][j]] = next[contents[k][j]]
  BY <1>s, <1>i, <1>3, NodesOfOthers DEF With
<1>10. contents' = [contents EXCEPT ![l] = r]
  BY <1>3
<1> QED
  BY <1>4, <1>6, <1>7, <1>8, <1>9, <1>10, StepOne

\* A list turned round.
LEMMA ReversedStep ==
  ASSUME IInv, NEW l \in ListId, Reversed(l)
  PROVE  IInv'
<1>s. PICK s : s = contents[l]
  OBVIOUS
<1>1. /\ s \in Seq(Node) /\ Distinct(s) /\ Len(s) \in Nat
      /\ DOMAIN s = 1 .. Len(s) /\ Chain(head[l], tail[l], prev, next, s)
  BY <1>s, Places
<1>2. /\ head[l] = NodeAt(s, 1) /\ tail[l] = NodeAt(s, Len(s))
      /\ \A k \in 1 .. Len(s) :
           /\ s[k] \in Node /\ s[k] # Null
           /\ prev[s[k]] = NodeAt(s, k - 1) /\ next[s[k]] = NodeAt(s, k + 1)
      /\ \A j, k \in 1 .. Len(s) : s[j] = s[k] => j = k
  <2>1. head[l] = NodeAt(s, 1) /\ tail[l] = NodeAt(s, Len(s))
    BY <1>s, Places
  <2>2. \A k \in 1 .. Len(s) :
           /\ s[k] \in Node /\ s[k] # Null
           /\ prev[s[k]] = NodeAt(s, k - 1) /\ next[s[k]] = NodeAt(s, k + 1)
    BY <1>s, Places
  <2>3. \A j, k \in 1 .. Len(s) : s[j] = s[k] => j = k
    BY <1>s, Places
  <2> QED
    BY <2>1, <2>2, <2>3
<1>r. PICK r : r = Reverse(s)
  OBVIOUS
<1>3. /\ head' = [head EXCEPT ![l] = tail[l]] /\ tail' = [tail EXCEPT ![l] = head[l]]
      /\ next' = [n \in Node |-> IF n \in ToSet(s) THEN prev[n] ELSE next[n]]
      /\ prev' = [n \in Node |-> IF n \in ToSet(s) THEN next[n] ELSE prev[n]]
      /\ contents' = [contents EXCEPT ![l] = r]
  BY <1>s, <1>r DEF Reversed
<1>4. Fields(prev', next')
  BY <1>3, Facts DEF Fields
<1>5. \A k \in 1 .. Len(s) : prev'[s[k]] = next[s[k]] /\ next'[s[k]] = prev[s[k]]
  BY <1>1, <1>2, <1>3 DEF ToSet
<1>7. Chain(tail[l], head[l], prev', next', r)
  BY <1>r, <1>1, <1>5, ChainReverse
<1>8. /\ Distinct(r)
      /\ \A j \in 1 .. Len(r) : \E g \in 1 .. Len(contents[l]) : r[j] = contents[l][g]
  BY <1>r, <1>s, <1>1, DistinctReverse
<1>9. \A k \in ListId \ {l} : \A j \in 1 .. Len(contents[k]) :
         /\ prev'[contents[k][j]] = prev[contents[k][j]]
         /\ next'[contents[k][j]] = next[contents[k][j]]
  <2> TAKE k \in ListId \ {l}
  <2> TAKE j \in 1 .. Len(contents[k])
  <2>1. contents[k][j] \in Node /\ contents[k][j] \notin ToSet(s)
    BY <1>s, <1>1, NodesOfOthers DEF ToSet
  <2> QED
    BY <1>3, <2>1
<1>10. /\ contents' = [contents EXCEPT ![l] = r]
       /\ head' = [head EXCEPT ![l] = tail[l]] /\ tail' = [tail EXCEPT ![l] = head[l]]
  BY <1>3
<1> QED
  BY <1>4, <1>7, <1>8, <1>9, <1>10, StepOne

\* Links of free nodes may change: no list has them.
LEMMA ReplaceNullNodeStep ==
  ASSUME IInv, NEW l \in ListId, NEW m \in Node, ReplaceNullNode(l, m)
  PROVE  IInv'
<1>1. Free(m)
  BY DEF ReplaceNullNode
<1>2. CASE head[l] = Null
  BY <1>1, <1>2, BecomesOnlyStep DEF ReplaceNullNode
<1>3. CASE head[l] # Null
  <2>1. /\ prev' = With(prev, m, Null) /\ next' = With(next, m, Null)
        /\ head' = head /\ tail' = tail /\ contents' = contents
    BY <1>3 DEF ReplaceNullNode
  <2>2. Fields(prev', next')
    <3>1. Null \in Link /\ prev \in [Node -> Link] /\ next \in [Node -> Link]
      BY Facts DEF Fields, Link, NodeOrNull
    <3> QED
      BY <2>1, <3>1, WithType DEF Fields
  <2>3. \A k \in ListId : \A j \in 1 .. Len(contents[k]) :
           contents[k][j] \in Node /\ contents[k][j] # m
    BY <1>1, Facts DEF Distinct
  <2>4. \A k \in ListId \ {} :
          /\ head'[k] = head[k] /\ tail'[k] = tail[k] /\ contents'[k] = contents[k]
          /\ \A i \in 1 .. Len(contents[k]) :
               /\ prev'[contents[k][i]] = prev[contents[k][i]]
               /\ next'[contents[k][i]] = next[contents[k][i]]
    BY <2>1, <2>3 DEF With
  <2>5. /\ DOMAIN head' = ListId /\ DOMAIN tail' = ListId /\ DOMAIN contents' = ListId
        /\ head' = [k \in ListId |-> head'[k]] /\ tail' = [k \in ListId |-> tail'[k]]
        /\ contents' = [k \in ListId |-> contents'[k]]
    BY <2>1 DEF IInv, ListTypeOK
  <2>6. PICK L \in SUBSET ListId : L = {}
    OBVIOUS
  <2> QED
    BY <2>2, <2>4, <2>5, <2>6, Rebuild
<1> QED
  BY <1>2, <1>3

-----------------------------------------------------------------------------

\* A list without nodes is a chain without links.
LEMMA EmptyChain ==
  ASSUME NEW p, NEW q
  PROVE  Chain(Null, Null, p, q, <<>>) /\ Distinct(<<>>) /\ ToSet(<<>>) = {}
<1>1. <<>> \in Seq(Node) /\ Len(<<>>) = 0
  BY EmptySeq
<1>2. DOMAIN <<>> = 1 .. 0
  BY <1>1
<1> QED
  BY <1>1, <1>2 DEF Chain, Distinct, NodeAt, ToSet

\* A step that changes nothing.
LEMMA UnchangedStep ==
  ASSUME IInv, UNCHANGED listVars
  PROVE  IInv'
<1>1. /\ head' = head /\ tail' = tail /\ prev' = prev /\ next' = next
      /\ contents' = contents
  BY DEF listVars, links
<1> QED
  BY <1>1 DEF IInv, ListTypeOK, Linked, NodesApart, Chain

\* Two lists exchanged: no link is written.
LEMMA SwapStep ==
  ASSUME IInv, NEW a \in ListId, NEW b \in ListId, ListSwap(a, b)
  PROVE  IInv'
<1>1. /\ head' = [head EXCEPT ![a] = head[b], ![b] = head[a]]
      /\ tail' = [tail EXCEPT ![a] = tail[b], ![b] = tail[a]]
      /\ contents' = [contents EXCEPT ![a] = contents[b], ![b] = contents[a]]
      /\ prev' = prev /\ next' = next
  BY DEF ListSwap
<1>2. CASE a = b
  <2>1. head' = head /\ tail' = tail /\ contents' = contents
    BY <1>1, <1>2 DEF IInv, ListTypeOK
  <2> QED
    BY <1>1, <2>1, UnchangedStep DEF listVars, links
<1>3. CASE a # b
  <2>1. /\ Distinct(contents[b]) /\ Chain(head[b], tail[b], prev', next', contents[b])
        /\ Distinct(contents[a]) /\ Chain(head[a], tail[a], prev', next', contents[a])
    BY <1>1, Facts
  <2>2. \A j \in 1 .. Len(contents[b]), k \in 1 .. Len(contents[a]) :
           contents[b][j] # contents[a][k]
    BY <1>3, Facts
  <2>3. Fields(prev', next')
    BY <1>1, Facts
  <2>4. \A x \in ToSet(contents[b]) \cup ToSet(contents[a]) :
           x \in ToSet(contents[a]) \cup ToSet(contents[b])
    OBVIOUS
  <2>5. \A k \in ListId \ {a, b} : \A j \in 1 .. Len(contents[k]) :
           /\ prev'[contents[k][j]] = prev[contents[k][j]]
           /\ next'[contents[k][j]] = next[contents[k][j]]
    BY <1>1
  <2>6. PICK r : r = contents[b]
    OBVIOUS
  <2>7. PICK u : u = contents[a]
    OBVIOUS
  <2>8. PICK h2 : h2 = head[b]
    OBVIOUS
  <2>9. PICK t2 : t2 = tail[b]
    OBVIOUS
  <2>10. PICK g2 : g2 = head[a]
    OBVIOUS
  <2>11. PICK e2 : e2 = tail[a]
    OBVIOUS
  <2>12. /\ head' = [head EXCEPT ![a] = h2, ![b] = g2]
         /\ tail' = [tail EXCEPT ![a] = t2, ![b] = e2]
         /\ contents' = [contents EXCEPT ![a] = r, ![b] = u]
    BY <1>1, <2>6, <2>7, <2>8, <2>9, <2>10, <2>11
  <2>13. /\ Distinct(r) /\ Chain(h2, t2, prev', next', r)
         /\ Distinct(u) /\ Chain(g2, e2, prev', next', u)
         /\ \A j \in 1 .. Len(r), k \in 1 .. Len(u) : r[j] # u[k]
         /\ \A x \in ToSet(r) \cup ToSet(u) : x \in ToSet(contents[a]) \cup ToSet(contents[b])
    BY <2>1, <2>2, <2>4, <2>6, <2>7, <2>8, <2>9, <2>10, <2>11
  <2> QED
    BY <1>3, <2>3, <2>5, <2>12, <2>13, StepTwo
<1> QED
  BY <1>2, <1>3

\* The nodes of a list put behind those of another.
LEMMA ListAppendStep ==
  ASSUME IInv, NEW a \in ListId, NEW b \in ListId, ListAppend(a, b)
  PROVE  IInv'
<1>0. a # b
  BY DEF ListAppend
<1>s. PICK s : s = contents[a]
  OBVIOUS
<1>1. /\ s \in Seq(Node) /\ Distinct(s) /\ Len(s) \in Nat
      /\ DOMAIN s = 1 .. Len(s) /\ Chain(head[a], tail[a], prev, next, s)
  BY <1>s, Places
<1>2. /\ head[a] = NodeAt(s, 1) /\ tail[a] = NodeAt(s, Len(s))
      /\ \A k \in 1 .. Len(s) :
           /\ s[k] \in Node /\ s[k] # Null
           /\ prev[s[k]] = NodeAt(s, k - 1) /\ next[s[k]] = NodeAt(s, k + 1)
      /\ \A j, k \in 1 .. Len(s) : s[j] = s[k] => j = k
  <2>1. head[a] = NodeAt(s, 1) /\ tail[a] = NodeAt(s, Len(s))
    BY <1>s, Places
  <2>2. \A k \in 1 .. Len(s) :
           /\ s[k] \in Node /\ s[k] # Null
           /\ prev[s[k]] = NodeAt(s, k - 1) /\ next[s[k]] = NodeAt(s, k + 1)
    BY <1>s, Places
  <2>3. \A j, k \in 1 .. Len(s) : s[j] = s[k] => j = k
    BY <1>s, Places
  <2> QED
    BY <2>1, <2>2, <2>3
<1>u. PICK u : u = contents[b]
  OBVIOUS
<1>3. /\ u \in Seq(Node) /\ Distinct(u) /\ Len(u) \in Nat
      /\ DOMAIN u = 1 .. Len(u) /\ Chain(head[b], tail[b], prev, next, u)
  BY <1>u, Places
<1>4. /\ head[b] = NodeAt(u, 1) /\ tail[b] = NodeAt(u, Len(u))
      /\ \A k \in 1 .. Len(u) :
           /\ u[k] \in Node /\ u[k] # Null
           /\ prev[u[k]] = NodeAt(u, k - 1) /\ next[u[k]] = NodeAt(u, k + 1)
      /\ \A j, k \in 1 .. Len(u) : u[j] = u[k] => j = k
  <2>1. head[b] = NodeAt(u, 1) /\ tail[b] = NodeAt(u, Len(u))
    BY <1>u, Places
  <2>2. \A k \in 1 .. Len(u) :
           /\ u[k] \in Node /\ u[k] # Null
           /\ prev[u[k]] = NodeAt(u, k - 1) /\ next[u[k]] = NodeAt(u, k + 1)
    BY <1>u, Places
  <2>3. \A j, k \in 1 .. Len(u) : u[j] = u[k] => j = k
    BY <1>u, Places
  <2> QED
    BY <2>1, <2>2, <2>3
<1>r. PICK r : r = s \o u
  OBVIOUS
<1>h. PICK h2 : h2 = (IF head[a] = Null THEN head[b] ELSE head[a])
  OBVIOUS
<1>t. PICK t2 : t2 = (IF tail[b] = Null THEN tail[a] ELSE tail[b])
  OBVIOUS
<1>5. /\ head' = [head EXCEPT ![a] = h2, ![b] = Null]
      /\ tail' = [tail EXCEPT ![a] = t2, ![b] = Null]
      /\ contents' = [contents EXCEPT ![a] = r, ![b] = <<>>]
      /\ next' = With(next, NodeAt(s, Len(s)), NodeAt(u, 1))
      /\ prev' = With(prev, NodeAt(u, 1), NodeAt(s, Len(s)))
  BY <1>s, <1>u, <1>r, <1>h, <1>t, <1>2, <1>4 DEF ListAppend
<1>6. Fields(prev', next')
  <2>1. NodeAt(s, Len(s)) \in Link /\ NodeAt(u, 1) \in Link
    BY <1>1, <1>2, <1>3, <1>4 DEF NodeAt, Link, NodeOrNull
  <2>2. prev \in [Node -> Link] /\ next \in [Node -> Link]
    BY Facts DEF Fields
  <2> QED
    BY <1>5, <2>1, <2>2, WithType DEF Fields
<1>7. \A j \in 1 .. Len(s), k \in 1 .. Len(u) : s[j] # u[k]
  BY <1>0, <1>s, <1>u, Facts
<1>8. JoinLinks(s, u, tail[a], head[b], prev, next, prev', next')
  <2>1. ASSUME NEW k \in 1 .. Len(s)
        PROVE  prev'[s[k]] = prev[s[k]]
    BY <1>1, <1>2, <1>3, <1>5, <1>7, SMTT(20) DEF With, NodeAt
  <2>2. ASSUME NEW k \in 1 .. Len(s)
        PROVE  next'[s[k]] = IF k = Len(s) THEN head[b] ELSE next[s[k]]
    BY <1>1, <1>2, <1>4, <1>5 DEF With, NodeAt
  <2>3. ASSUME NEW k \in 1 .. Len(u)
        PROVE  prev'[u[k]] = IF k = 1 THEN tail[a] ELSE prev[u[k]]
    BY <1>2, <1>3, <1>4, <1>5 DEF With, NodeAt
  <2>4. ASSUME NEW k \in 1 .. Len(u)
        PROVE  next'[u[k]] = next[u[k]]
    BY <1>1, <1>3, <1>4, <1>5, <1>7 DEF With, NodeAt
  <2> QED
    BY <2>1, <2>2, <2>3, <2>4 DEF JoinLinks
<1>9. Chain(h2, t2, prev', next', r)
  BY <1>h, <1>t, <1>r, <1>1, <1>3, <1>8, ChainJoin
<1>10. /\ Distinct(r)
       /\ \A j \in 1 .. Len(r) : \/ \E g \in 1 .. Len(s) : r[j] = s[g]
                                 \/ \E g \in 1 .. Len(u) : r[j] = u[g]
  <2>1. /\ Distinct(s \o u)
        /\ \A j \in 1 .. Len(s \o u) : \/ \E g \in 1 .. Len(s) : (s \o u)[j] = s[g]
                                       \/ \E g \in 1 .. Len(u) : (s \o u)[j] = u[g]
    BY <1>1, <1>3, <1>7, DistinctJoin
  <2> QED
    BY <1>r, <2>1
<1>11. \A x \in ToSet(r) \cup ToSet(<<>>) : x \in ToSet(contents[a]) \cup ToSet(contents[b])
  <2>1. DOMAIN r = 1 .. Len(r) /\ ToSet(<<>>) = {}
    BY <1>10, EmptyChain DEF Distinct
  <2>2. ASSUME NEW x \in ToSet(r)
        PROVE  x \in ToSet(s) \cup ToSet(u)
    <3>1. PICK k \in 1 .. Len(r) : x = r[k]
      BY <2>1 DEF ToSet
    <3>2. CASE \E g \in 1 .. Len(s) : r[k] = s[g]
      BY <1>1, <3>1, <3>2 DEF ToSet
    <3>3. CASE \E g \in 1 .. Len(u) : r[k] = u[g]
      BY <1>3, <3>1, <3>3 DEF ToSet
    <3> QED
      BY <1>10, <3>2, <3>3
  <2> QED
    BY <1>s, <1>u, <2>1, <2>2
<1>12. \A k \in ListId \ {a, b} : \A j \in 1 .. Len(contents[k]) :
         /\ prev'[contents[k][j]] = prev[contents[k][j]]
         /\ next'[contents[k][j]] = next[contents[k][j]]
  <2> TAKE k \in ListId \ {a, b}
  <2> TAKE j \in 1 .. Len(contents[k])
  <2>1. /\ contents[k][j] \in Node
        /\ contents[k][j] # NodeAt(s, Len(s)) /\ contents[k][j] # NodeAt(u, 1)
    BY <1>s, <1>u, NodesOfOthers
  <2> QED
    BY <1>5, <2>1 DEF With
<1>13. /\ Chain(Null, Null, prev', next', <<>>) /\ Distinct(<<>>)
       /\ \A j \in 1 .. Len(r), k \in 1 .. Len(<<>>) : r[j] # <<>>[k]
  BY EmptyChain, EmptySeq
<1>14. /\ head' = [head EXCEPT ![a] = h2, ![b] = Null]
       /\ tail' = [tail EXCEPT ![a] = t2, ![b] = Null]
       /\ contents' = [contents EXCEPT ![a] = r, ![b] = <<>>]
  BY <1>5
<1> QED
  BY <1>0, <1>6, <1>9, <1>10, <1>11, <1>12, <1>13, <1>14, StepTwo

\* A part of a list put in an empty list.
LEMMA SplitStep ==
  ASSUME IInv, NEW a \in ListId, NEW b \in ListId,
         NEW i \in 1 .. Len(contents[a]), NEW j \in 1 .. Len(contents[a]), Split(a, i, j, b)
  PROVE  IInv'
<1>0. a # b /\ contents[b] = <<>> /\ i <= j
  BY DEF Split
<1>s. PICK s : s = contents[a]
  OBVIOUS
<1>1. /\ s \in Seq(Node) /\ Distinct(s) /\ Len(s) \in Nat
      /\ DOMAIN s = 1 .. Len(s) /\ Chain(head[a], tail[a], prev, next, s)
  BY <1>s, Places
<1>2. /\ head[a] = NodeAt(s, 1) /\ tail[a] = NodeAt(s, Len(s))
      /\ \A k \in 1 .. Len(s) :
           /\ s[k] \in Node /\ s[k] # Null
           /\ prev[s[k]] = NodeAt(s, k - 1) /\ next[s[k]] = NodeAt(s, k + 1)
      /\ \A f, k \in 1 .. Len(s) : s[f] = s[k] => f = k
  <2>1. head[a] = NodeAt(s, 1) /\ tail[a] = NodeAt(s, Len(s))
    BY <1>s, Places
  <2>2. \A k \in 1 .. Len(s) :
           /\ s[k] \in Node /\ s[k] # Null
           /\ prev[s[k]] = NodeAt(s, k - 1) /\ next[s[k]] = NodeAt(s, k + 1)
    BY <1>s, Places, SMTT(30)
  <2>3. \A f, k \in 1 .. Len(s) : s[f] = s[k] => f = k
    BY <1>s, Places, ZenonT(30)
  <2> QED
    BY <2>1, <2>2, <2>3
<1>i. i \in 1 .. Len(s) /\ j \in i .. Len(s) /\ j \in 1 .. Len(s)
  BY <1>0, <1>s, <1>1
<1>r. PICK r : r = CutOut(s, i, j)
  OBVIOUS
<1>u. PICK u : u = SubSeq(s, i, j)
  OBVIOUS
<1>h. PICK h2 : h2 = (IF i = 1 THEN NodeAt(s, j + 1) ELSE head[a])
  OBVIOUS
<1>t. PICK t2 : t2 = (IF j = Len(s) THEN NodeAt(s, i - 1) ELSE tail[a])
  OBVIOUS
<1>5. /\ head' = [head EXCEPT ![a] = IF NodeAt(s, i - 1) = Null THEN NodeAt(s, j + 1)
                                                               ELSE head[a],
                              ![b] = s[i]]
      /\ tail' = [tail EXCEPT ![a] = IF NodeAt(s, j + 1) = Null THEN NodeAt(s, i - 1)
                                                               ELSE tail[a],
                              ![b] = s[j]]
      /\ contents' = [contents EXCEPT ![a] = r, ![b] = u]
      /\ next' = With(With(next, NodeAt(s, i - 1), NodeAt(s, j + 1)), s[j], Null)
      /\ prev' = With(With(prev, NodeAt(s, j + 1), NodeAt(s, i - 1)), s[i], Null)
  BY <1>s, <1>u, <1>r, <1>i, <1>2 DEF Split, CutOut
<1>6. Fields(prev', next')
  <2>1. NodeAt(s, i - 1) \in Link /\ NodeAt(s, j + 1) \in Link /\ Null \in Link
    BY <1>1, <1>2 DEF NodeAt, Link, NodeOrNull
  <2>2. prev \in [Node -> Link] /\ next \in [Node -> Link]
    BY Facts DEF Fields
  <2> QED
    BY <1>5, <2>1, <2>2, WithType DEF Fields
<1>7. /\ NodeAt(s, i - 1) = Null <=> i = 1
      /\ NodeAt(s, j + 1) = Null <=> j = Len(s)
  <2>0. Len(s) \in Nat /\ i \in 1 .. Len(s) /\ j \in 1 .. Len(s)
    BY <1>1, <1>i
  <2>1. ASSUME i = 1
        PROVE  NodeAt(s, i - 1) = Null
    <3>1. i - 1 \notin 1 .. Len(s)
      BY ONLY <2>0, <2>1
    <3> QED
      BY <1>1, <3>1 DEF NodeAt
  <2>2. ASSUME i # 1
        PROVE  NodeAt(s, i - 1) # Null
    <3>1. i - 1 \in 1 .. Len(s)
      BY ONLY <2>0, <2>2
    <3> QED
      BY <1>1, <1>2, <2>2, <3>1 DEF NodeAt
  <2>3. ASSUME j = Len(s)
        PROVE  NodeAt(s, j + 1) = Null
    <3>1. j + 1 \notin 1 .. Len(s)
      BY ONLY <2>0, <2>3, SMTT(20)
    <3> QED
      BY <1>1, <2>3, <3>1 DEF NodeAt
  <2>4. ASSUME j # Len(s)
        PROVE  NodeAt(s, j + 1) # Null
    <3>1. j + 1 \in 1 .. Len(s)
      BY ONLY <2>0, <2>4
    <3> QED
      BY <1>1, <1>2, <2>4, <3>1 DEF NodeAt
  <2> QED
    BY <2>1, <2>2, <2>3, <2>4
<1>8. /\ head' = [head EXCEPT ![a] = h2, ![b] = s[i]]
      /\ tail' = [tail EXCEPT ![a] = t2, ![b] = s[j]]
      /\ contents' = [contents EXCEPT ![a] = r, ![b] = u]
  BY <1>5, <1>7, <1>h, <1>t
<1>9. CutLinks(s, i, j, prev, next, prev', next')
  <2>1. ASSUME NEW k \in 1 .. Len(s), k < i \/ j < k
        PROVE  prev'[s[k]] = IF k = j + 1 THEN NodeAt(s, i - 1) ELSE prev[s[k]]
    BY <1>i, <1>1, <1>2, <1>5, <2>1 DEF With, NodeAt
  <2>2. ASSUME NEW k \in 1 .. Len(s), k < i \/ j < k
        PROVE  next'[s[k]] = IF k = i - 1 THEN NodeAt(s, j + 1) ELSE next[s[k]]
    BY <1>i, <1>1, <1>2, <1>5, <2>2 DEF With, NodeAt
  <2> QED
    BY <2>1, <2>2 DEF CutLinks
<1>10. PartLinks(s, i, j, prev, next, prev', next')
  <2>1. ASSUME NEW k \in i .. j
        PROVE  prev'[s[k]] = IF k = i THEN Null ELSE prev[s[k]]
    BY <1>i, <1>1, <1>2, <1>5 DEF With, NodeAt
  <2>2. ASSUME NEW k \in i .. j
        PROVE  next'[s[k]] = IF k = j THEN Null ELSE next[s[k]]
    BY <1>i, <1>1, <1>2, <1>5 DEF With, NodeAt
  <2> QED
    BY <2>1, <2>2 DEF PartLinks
<1>11. Chain(h2, t2, prev', next', r)
  BY <1>h, <1>t, <1>r, <1>i, <1>1, <1>9, ChainCutOut
<1>12. Chain(s[i], s[j], prev', next', u)
  BY <1>u, <1>i, <1>1, <1>10, ChainPart
<1>13. /\ Distinct(r)
       /\ \A k \in 1 .. Len(r) : \E g \in 1 .. Len(s) : (g < i \/ j < g) /\ r[k] = s[g]
  BY <1>r, <1>i, <1>1, DistinctCutOut, SMTT(30)
<1>14. /\ Distinct(u)
       /\ \A k \in 1 .. Len(u) : \E g \in i .. j : u[k] = s[g]
  <2>1. /\ Distinct(SubSeq(s, i, j))
        /\ \A k \in 1 .. Len(SubSeq(s, i, j)) : \E g \in i .. j : SubSeq(s, i, j)[k] = s[g]
    BY <1>i, <1>1, DistinctPart, SMTT(30)
  <2> QED
    BY <1>u, <2>1
<1>15. \A k \in 1 .. Len(r), n \in 1 .. Len(u) : r[k] # u[n]
  <2> TAKE k \in 1 .. Len(r), n \in 1 .. Len(u)
  <2>1. PICK g \in 1 .. Len(s) : (g < i \/ j < g) /\ r[k] = s[g]
    BY <1>13
  <2>2. PICK f \in i .. j : u[n] = s[f]
    BY <1>14
  <2>3. f \in 1 .. Len(s) /\ f # g
    BY <1>i, <1>1, <2>1
  <2> QED
    BY <1>2, <2>1, <2>2, <2>3
<1>16. \A x \in ToSet(r) \cup ToSet(u) : x \in ToSet(contents[a]) \cup ToSet(contents[b])
  <2>1. DOMAIN r = 1 .. Len(r) /\ DOMAIN u = 1 .. Len(u)
    BY <1>13, <1>14 DEF Distinct
  <2>2. \A g \in i .. j : g \in 1 .. Len(s)
    BY <1>i, <1>1
  <2>3. ASSUME NEW x \in ToSet(r)
        PROVE  x \in ToSet(s)
    <3>1. PICK k \in 1 .. Len(r) : x = r[k]
      BY <2>1 DEF ToSet
    <3>2. PICK g \in 1 .. Len(s) : r[k] = s[g]
      BY <1>13
    <3> QED
      BY <1>1, <3>1, <3>2 DEF ToSet
  <2>4. ASSUME NEW x \in ToSet(u)
        PROVE  x \in ToSet(s)
    <3>1. PICK k \in 1 .. Len(u) : x = u[k]
      BY <2>1 DEF ToSet
    <3>2. PICK g \in i .. j : u[k] = s[g]
      BY <1>14
    <3> QED
      BY <1>1, <2>2, <3>1, <3>2 DEF ToSet
  <2> QED
    BY <1>s, <2>3, <2>4
<1>17. \A k \in ListId \ {a, b} : \A n \in 1 .. Len(contents[k]) :
         /\ prev'[contents[k][n]] = prev[contents[k][n]]
         /\ next'[contents[k][n]] = next[contents[k][n]]
  <2> TAKE k \in ListId \ {a, b}
  <2> TAKE n \in 1 .. Len(contents[k])
  <2>1. /\ contents[k][n] \in Node
        /\ contents[k][n] # NodeAt(s, i - 1) /\ contents[k][n] # NodeAt(s, j + 1)
        /\ contents[k][n] # s[i] /\ contents[k][n] # s[j]
    BY <1>s, <1>i, NodesOfOthers
  <2> QED
    BY <1>5, <2>1 DEF With
<1> QED
  BY <1>0, <1>6, <1>8, <1>11, <1>12, <1>13, <1>14, <1>15, <1>16, <1>17, StepTwo

\* Writing what is there, or to no node, changes nothing.
LEMMA WithNothing ==
  ASSUME NEW f \in [Node -> Link]
  PROVE  /\ \A v : With(f, Null, v) = f
         /\ \A n \in Node : With(f, n, f[n]) = f
BY ListAssumption DEF With

\* Two chains of which one is empty.
LEMMA JoinEmpty ==
  ASSUME NEW s \in Seq(Node)
  PROVE  s \o <<>> = s /\ <<>> \o s = s
BY ConcatEmptySeq

\* A split at a node up to an end is a split of a part.
LEMMA SplitByHeadStep ==
  ASSUME IInv, NEW a \in ListId, NEW b \in ListId,
         NEW i \in 1 .. Len(contents[a]), SplitByHead(a, i, b)
  PROVE  IInv'
<1>s. PICK s : s = contents[a]
  OBVIOUS
<1>j. PICK j : j = Len(s)
  OBVIOUS
<1>1. /\ s \in Seq(Node) /\ j \in Nat /\ i \in 1 .. j /\ DOMAIN s = 1 .. j
      /\ Chain(head[a], tail[a], prev, next, s)
  BY <1>s, <1>j, Places
<1>2. /\ head[a] = s[1] /\ tail[a] = s[j] /\ prev[s[1]] = Null /\ next[s[j]] = Null
      /\ s[i] \in Node /\ s[j] \in Node
  <2>0. j \in Nat /\ i \in 1 .. j
    BY <1>1
  <2>1. 1 \in 1 .. j /\ j \in 1 .. j /\ 1 - 1 \notin 1 .. j /\ j + 1 \notin 1 .. j
    BY ONLY <2>0
  <2> QED
    BY <1>1, <1>j, <2>1 DEF Chain, NodeAt
<1>3. head[a] = s[i] <=> prev[s[i]] = Null
  <2>0. j \in Nat /\ i \in 1 .. j
    BY <1>1
  <2>1. CASE i = 1
    BY <1>2, <2>1
  <2>2. CASE i # 1
    <3>1. i - 1 \in 1 .. j /\ 1 \in 1 .. j
      BY ONLY <2>0, <2>2
    <3>2. prev[s[i]] = s[i - 1] /\ s[i - 1] \in Node
      BY <1>1, <3>1 DEF Chain, NodeAt
    <3>3. s[1] # s[i]
      BY <1>1, <1>s, <1>j, <2>2, <3>1, Places
    <3> QED
      BY <1>2, <3>2, <3>3, ListAssumption
  <2> QED
    BY <2>1, <2>2
<1>4. prev \in [Node -> Link] /\ next \in [Node -> Link]
  BY Facts DEF Fields
<1>5. /\ prev' = With(With(prev, next[s[j]], prev[s[i]]), s[i], Null)
      /\ next' = With(With(next, prev[s[i]], next[s[j]]), s[j], Null)
  <2>1. prev' = With(prev, s[i], Null) /\ next' = With(next, prev[s[i]], Null)
    BY <1>s DEF SplitByHead
  <2>2. With(prev, next[s[j]], prev[s[i]]) = prev
    BY <1>2, <1>4, WithNothing
  <2>3. With(With(next, prev[s[i]], Null), s[j], Null) = With(next, prev[s[i]], Null)
    BY <1>2 DEF With
  <2> QED
    BY <1>2, <2>1, <2>2, <2>3
<1>6. /\ head' = [head EXCEPT ![a] = IF prev[s[i]] = Null THEN next[s[j]] ELSE @,
                              ![b] = s[i]]
      /\ tail' = [tail EXCEPT ![a] = IF next[s[j]] = Null THEN prev[s[i]] ELSE @,
                              ![b] = s[j]]
  BY <1>s, <1>2, <1>3 DEF SplitByHead
<1>7. contents' = [contents EXCEPT
                     ![a] = SubSeq(@, 1, i - 1) \o SubSeq(@, j + 1, Len(@)),
                     ![b] = SubSeq(contents[a], i, j)]
  <2>1. SubSeq(s, 1, i - 1) \in Seq(Node)
    BY <1>1, <1>j, PartValue
  <2>2. SubSeq(s, j + 1, j) = <<>>
    BY <1>1
  <2>3. SubSeq(s, 1, i - 1) \o SubSeq(s, j + 1, j) = SubSeq(s, 1, i - 1)
    BY <2>1, <2>2, JoinEmpty
  <2> QED
    BY <1>s, <1>j, <2>3 DEF SplitByHead
<1>8. a # b /\ contents[b] = <<>> /\ i <= j
  BY <1>1 DEF SplitByHead
<1>9. Split(a, i, j, b)
  BY <1>s, <1>5, <1>6, <1>7, <1>8 DEF Split
<1> QED
  BY <1>1, <1>9, <1>s, <1>j, SplitStep

\* The same for the part before a node.
LEMMA SplitByTailStep ==
  ASSUME IInv, NEW a \in ListId, NEW b \in ListId,
         NEW i \in 1 .. Len(contents[a]), SplitByTail(a, i, b)
  PROVE  IInv'
<1>s. PICK s : s = contents[a]
  OBVIOUS
<1>j. PICK j : j = Len(s)
  OBVIOUS
<1>1. /\ s \in Seq(Node) /\ j \in Nat /\ i \in 1 .. j /\ DOMAIN s = 1 .. j
      /\ Chain(head[a], tail[a], prev, next, s)
  BY <1>s, <1>j, Places
<1>2. /\ head[a] = s[1] /\ tail[a] = s[j] /\ prev[s[1]] = Null /\ next[s[j]] = Null
      /\ s[i] \in Node /\ s[1] \in Node
  <2>0. j \in Nat /\ i \in 1 .. j
    BY <1>1
  <2>1. 1 \in 1 .. j /\ j \in 1 .. j /\ 1 - 1 \notin 1 .. j /\ j + 1 \notin 1 .. j
    BY ONLY <2>0
  <2> QED
    BY <1>1, <1>j, <2>1 DEF Chain, NodeAt
<1>3. tail[a] = s[i] <=> next[s[i]] = Null
  <2>0. j \in Nat /\ i \in 1 .. j
    BY <1>1
  <2>1. CASE i = j
    BY <1>2, <2>1
  <2>2. CASE i # j
    <3>1. i + 1 \in 1 .. j /\ j \in 1 .. j
      BY ONLY <2>0, <2>2
    <3>2. next[s[i]] = s[i + 1] /\ s[i + 1] \in Node
      BY <1>1, <3>1 DEF Chain, NodeAt
    <3>3. s[j] # s[i]
      BY <1>1, <1>s, <1>j, <2>2, <3>1, Places
    <3> QED
      BY <1>2, <3>2, <3>3, ListAssumption
  <2> QED
    BY <2>1, <2>2
<1>4. prev \in [Node -> Link] /\ next \in [Node -> Link]
  BY Facts DEF Fields
<1>5. /\ prev' = With(With(prev, next[s[i]], prev[s[1]]), s[1], Null)
      /\ next' = With(With(next, prev[s[1]], next[s[i]]), s[i], Null)
  <2>1. prev' = With(prev, next[s[i]], Null) /\ next' = With(next, s[i], Null)
    BY <1>s DEF SplitByTail
  <2>2. With(next, prev[s[1]], next[s[i]]) = next
    BY <1>2, <1>4, WithNothing
  <2>3. With(With(prev, next[s[i]], Null), s[1], Null) = With(prev, next[s[i]], Null)
    BY <1>2 DEF With
  <2> QED
    BY <1>2, <2>1, <2>2, <2>3
<1>6. /\ head' = [head EXCEPT ![a] = IF prev[s[1]] = Null THEN next[s[i]] ELSE @,
                              ![b] = s[1]]
      /\ tail' = [tail EXCEPT ![a] = IF next[s[i]] = Null THEN prev[s[1]] ELSE @,
                              ![b] = s[i]]
  BY <1>s, <1>2, <1>3 DEF SplitByTail
<1>7. contents' = [contents EXCEPT
                     ![a] = SubSeq(@, 1, 1 - 1) \o SubSeq(@, i + 1, Len(@)),
                     ![b] = SubSeq(contents[a], 1, i)]
  <2>1. SubSeq(s, i + 1, j) \in Seq(Node)
    BY <1>1, <1>j, PartValue
  <2>2. SubSeq(s, 1, 1 - 1) = <<>>
    BY <1>1
  <2>3. SubSeq(s, 1, 1 - 1) \o SubSeq(s, i + 1, j) = SubSeq(s, i + 1, j)
    BY <2>1, <2>2, JoinEmpty
  <2> QED
    BY <1>s, <1>j, <2>3 DEF SplitByTail
<1>8. a # b /\ contents[b] = <<>> /\ 1 <= i
  BY <1>1 DEF SplitByTail
<1>9. Split(a, 1, i, b)
  BY <1>s, <1>5, <1>6, <1>7, <1>8 DEF Split
<1>10. 1 \in 1 .. Len(contents[a])
  BY <1>1, <1>s, <1>j
<1> QED
  BY <1>9, <1>10, SplitStep

-----------------------------------------------------------------------------

\* The lists start empty, whatever the links of the nodes hold.
LEMMA InitInv == ListInit => IInv
<1> SUFFICES ASSUME ListInit
             PROVE  IInv
  OBVIOUS
<1>1. \A l \in ListId : /\ head[l] = Null /\ tail[l] = Null /\ contents[l] = <<>>
  BY DEF ListInit
<1>2. ListTypeOK
  BY EmptySeq DEF ListInit, ListTypeOK, NodeOrNull
<1>3. DOMAIN <<>> = {}
  OBVIOUS
<1>4. Linked
  <2>1. NodesApart
    BY <1>1, <1>3 DEF NodesApart
  <2>2. \A l \in ListId : Chain(head[l], tail[l], prev, next, contents[l])
    BY <1>1, EmptyChain
  <2> QED
    BY <2>1, <2>2 DEF Linked
<1> QED
  BY <1>2, <1>4 DEF IInv

\* Head and tail are the first and the last node promised.
LEMMA EndNodes ==
  ASSUME IInv, NEW l \in ListId
  PROVE  /\ head[l] # Null => 1 \in DOMAIN contents[l] /\ head[l] = contents[l][1]
         /\ tail[l] # Null => /\ Len(contents[l]) \in DOMAIN contents[l]
                              /\ tail[l] = contents[l][Len(contents[l])]
BY Places DEF NodeAt

\* No operation breaks a list.
LEMMA NextInv == IInv /\ [ListNext]_listVars => IInv'
<1> SUFFICES ASSUME IInv, [ListNext]_listVars
             PROVE  IInv'
  OBVIOUS
<1>0. \A l \in ListId : DOMAIN contents[l] = 1 .. Len(contents[l]) /\ Len(contents[l]) \in Nat
  BY Facts
<1>b. ASSUME NEW l \in ListId, NEW m \in Node, Free(m),
             InsertBehind(l, tail[l], Len(contents[l]), m)
      PROVE  IInv'
  <2>1. /\ Len(contents[l]) \in DOMAIN contents[l]
        /\ tail[l] = contents[l][Len(contents[l])]
    BY <1>b, EndNodes DEF InsertBehind
  <2>2. InsertBehind(l, contents[l][Len(contents[l])], Len(contents[l]), m)
    BY <1>b, <2>1
  <2> QED
    BY <1>b, <2>1, <2>2, InsertBehindStep
<1>1. ASSUME NEW l \in ListId, NEW m \in Node, InsertNodeFront(l, m)
      PROVE  IInv'
  <2>1. Free(m)
    BY <1>1 DEF InsertNodeFront
  <2>2. CASE InsertBefore(l, head[l], 1, m)
    <3>1. 1 \in DOMAIN contents[l] /\ head[l] = contents[l][1]
      BY <2>2, EndNodes DEF InsertBefore
    <3>2. InsertBefore(l, contents[l][1], 1, m)
      BY <2>2, <3>1
    <3> QED
      BY <2>1, <3>1, <3>2, InsertBeforeStep
  <2> QED
    BY <1>1, <2>1, <2>2, BecomesOnlyStep, InsertBeforeStep DEF InsertNodeFront
<1>2. ASSUME NEW l \in ListId, NEW m \in Node, InsertNodeBack(l, m)
      PROVE  IInv'
  <2>1. Free(m)
    BY <1>2 DEF InsertNodeBack
  <2>2. CASE InsertBehind(l, tail[l], Len(contents[l]), m)
    BY <1>b, <2>1, <2>2
  <2> QED
    BY <1>2, <2>1, <2>2, BecomesOnlyStep, InsertBehindStep DEF InsertNodeBack
<1>3. ASSUME NEW l \in ListId, NEW m \in Node, InsertNodeSorted(l, m)
      PROVE  IInv'
  <2>1. Free(m)
    BY <1>3 DEF InsertNodeSorted
  <2>2. CASE \E i \in Greater(l, m) : InsertBefore(l, contents[l][i], i, m)
    BY <1>0, <2>1, <2>2, InsertBeforeStep DEF Greater
  <2>3. CASE tail[l] = Null /\ BecomesOnly(l, m)
    BY <2>1, <2>3, BecomesOnlyStep
  <2>4. CASE InsertBehind(l, tail[l], Len(contents[l]), m)
    BY <1>b, <2>1, <2>4
  <2> QED
    BY <1>3, <2>2, <2>3, <2>4 DEF InsertNodeSorted
<1>4. ASSUME NEW l \in ListId, OfOne(l)
      PROVE  IInv'
  <2>1. CASE \E i \in DOMAIN contents[l] : RemoveNode(l, contents[l][i], i)
    BY <1>0, <2>1, RemoveNodeStep
  <2>2. CASE \E i \in DOMAIN contents[l], m \in Node : ReplaceNode(l, i, m)
    BY <1>0, <2>2, ReplaceNodeStep
  <2>3. CASE \E m \in Node : ReplaceNullNode(l, m)
    BY <2>3, ReplaceNullNodeStep
  <2>4. CASE PopNodeFront(l)
    <3>1. 1 \in DOMAIN contents[l] /\ RemoveNode(l, contents[l][1], 1)
      BY <2>4, EndNodes DEF PopNodeFront
    <3> QED
      BY <1>0, <3>1, RemoveNodeStep
  <2>5. CASE PopNodeBack(l)
    <3>1. /\ Len(contents[l]) \in DOMAIN contents[l]
          /\ RemoveNode(l, contents[l][Len(contents[l])], Len(contents[l]))
      BY <2>5, EndNodes DEF PopNodeBack
    <3> QED
      BY <1>0, <3>1, RemoveNodeStep
  <2> QED
    BY <1>1, <1>2, <1>3, <1>4, <2>1, <2>2, <2>3, <2>4, <2>5, ReversedStep DEF OfOne
<1>5. ASSUME NEW k \in ListId, NEW l \in ListId, OfTwo(k, l)
      PROVE  IInv'
  <2>1. CASE \E i, j \in DOMAIN contents[k] : Split(k, i, j, l)
    BY <1>0, <2>1, SplitStep
  <2>2. CASE \E i \in DOMAIN contents[k] : SplitByHead(k, i, l) \/ SplitByTail(k, i, l)
    BY <1>0, <2>2, SplitByHeadStep, SplitByTailStep
  <2> QED
    BY <1>5, <2>1, <2>2, ListAppendStep, SwapStep DEF OfTwo, SplitAll
<1> QED
  BY <1>4, <1>5, UnchangedStep DEF ListNext

\* The pointers of the lists and nodes hold nodes, no node, or what a node held
\* before it was first put in a list (list.c:8-241).
THEOREM ListsTyped == ListSpec => []ListTypeOK
<1>1. IInv => ListTypeOK
  BY DEF IInv
<1> QED
  BY <1>1, InitInv, NextInv, PTL DEF ListSpec

\* Any number of lists over any nodes stays linked both ways through exactly the
\* nodes the operations promised, in order, and no node is in two of them
\* (list.c:8-241).
THEOREM ListsLinked == ListSpec => []Linked
<1>1. IInv => Linked
  BY DEF IInv
<1> QED
  BY <1>1, InitInv, NextInv, PTL DEF ListSpec

\* What the links of a list's nodes hold is a matter of its contents alone.
LEMMA LinksFollow ==
  ASSUME IInv, IInv', NEW l \in ListId, UNCHANGED contents[l],
         NEW m \in ToSet(contents[l])
  PROVE  prev'[m] = prev[m] /\ next'[m] = next[m]
<1>1. PICK i \in DOMAIN contents[l] : m = contents[l][i]
  BY DEF ToSet
<1>2. prev[m] = NodeAt(contents[l], i - 1) /\ next[m] = NodeAt(contents[l], i + 1)
  BY <1>1 DEF IInv, Linked, Chain
<1>3. /\ prev'[contents'[l][i]] = NodeAt(contents'[l], i - 1)
      /\ next'[contents'[l][i]] = NodeAt(contents'[l], i + 1)
  BY <1>1 DEF IInv, Linked, Chain, NodeAt
<1> QED
  BY <1>1, <1>2, <1>3 DEF NodeAt

\* An operation leaves the nodes of the other lists alone: two lists can be used
\* under a lock each, although nodes that moved kept links into their old list
\* (list.c:61-75, 143-158).
THEOREM OthersStayUntouched == ListSpec => OthersUntouched
<1>1. IInv /\ IInv' => [\A l \in ListId : UNCHANGED contents[l] =>
                          \A n \in ToSet(contents[l]) : prev'[n] = prev[n] /\ next'[n] = next[n]]_listVars
  BY LinksFollow
<1> QED
  BY <1>1, InitInv, NextInv, PTL DEF ListSpec, OthersUntouched

-----------------------------------------------------------------------------
(* Hash tables.  First, walks along a list. *)

NodeOrNone == HtNode \cup {HtNull}

HtAt(s, i) == IF i \in 1 .. Len(s) THEN s[i] ELSE HtNull

LEMMA OnceShort ==
  ASSUME NEW T, IsFiniteSet(T), NEW s \in Seq(T), Once(s)
  PROVE  Len(s) <= Cardinality(T)
<1>1. Len(s) \in Nat /\ s \in [1 .. Len(s) -> T]
  OBVIOUS
<1>2. IsFiniteSet(1 .. Len(s)) /\ Cardinality(1 .. Len(s)) = Len(s)
  BY <1>1, FS_Interval
<1>3. Cardinality(T) \in Nat
  BY FS_CardinalityType
<1>4. SUFFICES ASSUME Cardinality(T) < Cardinality(1 .. Len(s)) PROVE FALSE
  BY <1>1, <1>2, <1>3
<1>5. \E x, y \in 1 .. Len(s) : x # y /\ s[x] = s[y]
  BY <1>1, <1>2, <1>4, FS_PigeonHole
<1> QED BY <1>5 DEF Once

WalkStep(first, f, o, i) ==
  IF i = 0 THEN first ELSE LET n == o[i - 1] IN IF n = HtNull THEN HtNull ELSE f[n]

Steps == Cardinality(HtNode)

WalkFcn(first, f) == CHOOSE o : o = [i \in 0 .. Steps |-> WalkStep(first, f, o, i)]

\* The recursive function there is in WalkFrom exists.
LEMMA WalkIsFcn ==
  ASSUME HtAssumption, NEW first, NEW f
  PROVE  /\ Steps \in Nat
         /\ WalkFrom(first, f) = Only([i \in 1 .. Steps + 1 |-> WalkFcn(first, f)[i - 1]], HtNode)
         /\ \A i \in 0 .. Steps : WalkFcn(first, f)[i] = WalkStep(first, f, WalkFcn(first, f), i)
<1>0. Steps \in Nat
  BY FS_CardinalityType DEF HtAssumption, Steps
<1> DEFINE G == {m \in Nat : \E o : o = [i \in 0 .. m |-> WalkStep(first, f, o, i)]}
<1>1. 0 \in G
  <2> DEFINE o == [i \in 0 .. 0 |-> first]
  <2>1. o = [i \in 0 .. 0 |-> WalkStep(first, f, o, i)]
    BY DEF WalkStep
  <2> HIDE DEF o
  <2> QED BY <2>1
<1>2. ASSUME NEW m \in G \cap Nat PROVE m + 1 \in G
  <2>1. PICK o : o = [i \in 0 .. m |-> WalkStep(first, f, o, i)]
    OBVIOUS
  <2> DEFINE p == [i \in 0 .. m + 1 |-> IF i = m + 1 THEN WalkStep(first, f, o, m + 1) ELSE o[i]]
  <2>2. \A i \in 0 .. m + 1 : WalkStep(first, f, p, i) = p[i]
    <3> SUFFICES ASSUME NEW i \in 0 .. m + 1 PROVE WalkStep(first, f, p, i) = p[i]
      OBVIOUS
    <3>1. i # 0 => p[i - 1] = o[i - 1]
      OBVIOUS
    <3>2. CASE i = m + 1
      BY <3>1, <3>2 DEF WalkStep
    <3>3. CASE i # m + 1
      <4>1. p[i] = o[i] /\ i \in 0 .. m
        BY <3>3
      <4>2. o[i] = WalkStep(first, f, o, i)
        BY <2>1, <4>1
      <4> QED BY <3>1, <4>1, <4>2 DEF WalkStep
    <3> QED BY <3>2, <3>3
  <2>3. p = [i \in 0 .. m + 1 |-> WalkStep(first, f, p, i)]
    BY <2>2
  <2> HIDE DEF p
  <2> QED BY <2>3
<1> HIDE DEF G
<1>3. Nat \subseteq G
  BY <1>1, <1>2, NatSetInduction
<1>4. \E o : o = [i \in 0 .. Steps |-> WalkStep(first, f, o, i)]
  BY <1>0, <1>3 DEF G
<1>5. WalkFcn(first, f) = [i \in 0 .. Steps |-> WalkStep(first, f, WalkFcn(first, f), i)]
  BY <1>4 DEF WalkFcn
<1>6. WalkFrom(first, f) = Only([i \in 1 .. Steps + 1 |-> WalkFcn(first, f)[i - 1]], HtNode)
  BY DEF WalkFrom, WalkFcn, WalkStep, Steps
<1> QED BY <1>0, <1>5, <1>6

\* The links f go from first through s and end.
Leads(first, f, s) ==
  /\ s \in Seq(HtNode) /\ Once(s)
  /\ first = HtAt(s, 1)
  /\ \A i \in 1 .. Len(s) : f[s[i]] = HtAt(s, i + 1)

\* p is s and then t.
Joined(s, t, p) ==
  /\ Len(p) = Len(s) + Len(t)
  /\ \A i \in 1 .. Len(s) : p[i] = s[i]
  /\ \A i \in 1 .. Len(t) : p[Len(s) + i] = t[i]

LEMMA ConcatIs ==
  ASSUME NEW T, NEW s \in Seq(T), NEW t \in Seq(T)
  PROVE  s \o t \in Seq(T) /\ Joined(s, t, s \o t)
  BY DEF Joined

LEMMA SeqAlike ==
  ASSUME NEW T, NEW s \in Seq(T), NEW t \in Seq(T), Len(s) = Len(t), \A i \in 1 .. Len(s) : s[i] = t[i]
  PROVE  s = t
  OBVIOUS

LEMMA WalkIs ==
  ASSUME HtAssumption, NEW first, NEW f, NEW s, Leads(first, f, s)
  PROVE  WalkFrom(first, f) = s
<1> DEFINE o == WalkFcn(first, f)
<1>1. /\ Steps \in Nat /\ WalkFrom(first, f) = Only([i \in 1 .. Steps + 1 |-> o[i - 1]], HtNode)
      /\ \A i \in 0 .. Steps : o[i] = WalkStep(first, f, o, i)
  BY WalkIsFcn
<1> HIDE DEF o
<1>2. /\ s \in Seq(HtNode) /\ Len(s) \in Nat /\ Len(s) <= Steps
      /\ \A i \in 1 .. Len(s) : s[i] \in HtNode
  BY OnceShort DEF Leads, HtAssumption, Steps
<1>3. \A i \in 0 .. Steps : o[i] = HtAt(s, i + 1)
  <2> DEFINE G == {i \in Nat : i <= Steps => o[i] = HtAt(s, i + 1)}
  <2>1. 0 \in G
    <3>1. o[0] = first
      BY <1>1 DEF WalkStep
    <3> QED BY <3>1 DEF Leads
  <2>2. ASSUME NEW i \in G \cap Nat PROVE i + 1 \in G
    <3>1. SUFFICES ASSUME i + 1 <= Steps PROVE o[i + 1] = HtAt(s, (i + 1) + 1)
      OBVIOUS
    <3>2. o[i] = HtAt(s, i + 1) /\ o[i + 1] = IF o[i] = HtNull THEN HtNull ELSE f[o[i]]
      <4>1. i + 1 \in 0 .. Steps /\ i \in 0 .. Steps /\ (i + 1) - 1 = i /\ i + 1 # 0
        BY <1>1, <3>1
      <4>2. o[i + 1] = WalkStep(first, f, o, i + 1)
        BY <1>1, <4>1
      <4> QED BY <4>1, <4>2 DEF WalkStep
    <3>3. CASE i + 1 \in 1 .. Len(s)
      <4>1. o[i] = s[i + 1] /\ s[i + 1] # HtNull
        BY <1>2, <3>2, <3>3 DEF HtAt, HtAssumption
      <4> QED BY <3>2, <3>3, <4>1 DEF Leads
    <3>4. CASE i + 1 \notin 1 .. Len(s)
      BY <1>2, <3>2, <3>4 DEF HtAt
    <3> QED BY <3>3, <3>4
  <2> HIDE DEF G
  <2>3. Nat \subseteq G
    BY <2>1, <2>2, NatSetInduction
  <2> QED BY <2>3 DEF G
<1>4. PICK z : z = [i \in 1 .. Steps + 1 - Len(s) |-> HtNull]
  OBVIOUS
<1>5. z \in Seq({HtNull}) /\ Len(z) = Steps + 1 - Len(s) /\ \A i \in 1 .. Len(z) : z[i] = HtNull
  BY <1>1, <1>2, <1>4
<1>6. [i \in 1 .. Steps + 1 |-> o[i - 1]] = s \o z
  <2>1. PICK a, b : a = [i \in 1 .. Steps + 1 |-> o[i - 1]] /\ b = s \o z
    OBVIOUS
  <2>2. /\ b \in Seq(NodeOrNone) /\ Len(b) = Steps + 1
        /\ \A i \in 1 .. Steps + 1 : b[i] = IF i <= Len(s) THEN s[i] ELSE z[i - Len(s)]
    BY <1>1, <1>2, <1>5, <2>1 DEF NodeOrNone
  <2>3. \A i \in 1 .. Steps + 1 : a[i] = b[i]
    <3> TAKE i \in 1 .. Steps + 1
    <3>1. a[i] = HtAt(s, i)
      <4>1. i - 1 \in 0 .. Steps /\ (i - 1) + 1 = i
        BY <1>1
      <4> QED BY <1>3, <2>1, <4>1
    <3>2. i > Len(s) => z[i - Len(s)] = HtNull
      BY <1>1, <1>2, <1>5
    <3> QED BY <1>1, <1>2, <2>2, <3>1, <3>2 DEF HtAt
  <2>4. a \in Seq(NodeOrNone) /\ Len(a) = Steps + 1
    <3>1. \A i \in 1 .. Steps + 1 : o[i - 1] \in NodeOrNone
      <4> TAKE i \in 1 .. Steps + 1
      <4>1. a[i] = o[i - 1]
        BY <2>1
      <4>2. b[i] \in NodeOrNone
        BY <2>2, <1>1
      <4> QED BY <2>3, <4>1, <4>2
    <3> QED BY <1>1, <2>1, <3>1
  <2>5. a = b
    BY ONLY <1>1, <2>2, <2>3, <2>4
  <2> QED BY ONLY <2>1, <2>5
<1>7. Only(s \o z, HtNode) = Only(s, HtNode) \o Only(z, HtNode)
  <2>1. s \in Seq(NodeOrNone) /\ z \in Seq(NodeOrNone)
    BY <1>2, <1>5 DEF NodeOrNone
  <2> QED BY <2>1, OnlyConcat, Zenon
<1>8. Only(s, HtNode) = s
  BY <1>2, OnlyAll
<1>9. Only(z, HtNode) = <<>>
  <2>1. HtNode \cap {HtNull} = {}
    BY DEF HtAssumption
  <2> QED BY <1>5, <2>1, OnlyNone
<1>10. s \o <<>> = s
  BY <1>2, ConcatEmptySeq
<1> QED BY ONLY <1>1, <1>6, <1>7, <1>8, <1>9, <1>10

\* Links along which a number grows end.
LEMMA WalkEnds ==
  ASSUME HtAssumption, NEW M, M \subseteq HtNode, NEW f, NEW r, NEW first \in M \cup {HtNull},
         \A n \in M : r[n] \in Int /\ (f[n] = HtNull \/ (f[n] \in M /\ r[n] < r[f[n]]))
  PROVE  \E s \in Seq(M) : Leads(first, f, s)
<1> DEFINE o == WalkFcn(first, f)
<1>1. /\ Steps \in Nat
      /\ \A i \in 0 .. Steps : o[i] = WalkStep(first, f, o, i)
  BY WalkIsFcn
<1> HIDE DEF o
<1>2. o[0] = first /\ \A i \in Nat : i + 1 <= Steps => o[i + 1] = IF o[i] = HtNull THEN HtNull ELSE f[o[i]]
  <2>1. o[0] = first
    BY <1>1 DEF WalkStep
  <2>2. ASSUME NEW i \in Nat, i + 1 <= Steps
        PROVE  o[i + 1] = IF o[i] = HtNull THEN HtNull ELSE f[o[i]]
    <3>1. i + 1 \in 0 .. Steps /\ (i + 1) - 1 = i /\ i + 1 # 0
      BY <1>1, <2>2
    <3>2. o[i + 1] = WalkStep(first, f, o, i + 1)
      BY <1>1, <3>1
    <3> QED BY <3>1, <3>2 DEF WalkStep
  <2> QED BY <2>1, <2>2
<1>3. \A i \in 0 .. Steps : o[i] \in M \cup {HtNull}
  <2> DEFINE G == {i \in Nat : i <= Steps => o[i] \in M \cup {HtNull}}
  <2>1. 0 \in G
    BY <1>2
  <2>2. ASSUME NEW i \in G \cap Nat PROVE i + 1 \in G
    BY <1>1, <1>2, <2>2
  <2> HIDE DEF G
  <2>3. Nat \subseteq G
    BY <2>1, <2>2, NatSetInduction
  <2> QED BY <2>3 DEF G
\* As long as the walk goes on, the number grows.
<1>4. \A j \in 0 .. Steps : o[j] # HtNull => \A i \in 0 .. j : o[i] # HtNull /\ (i < j => r[o[i]] < r[o[j]])
  <2> DEFINE G == {j \in Nat : j <= Steps /\ o[j] # HtNull =>
                     \A i \in 0 .. j : o[i] # HtNull /\ (i < j => r[o[i]] < r[o[j]])}
  <2>1. 0 \in G
    OBVIOUS
  <2>2. ASSUME NEW j \in G \cap Nat PROVE j + 1 \in G
    <3>1. SUFFICES ASSUME j + 1 <= Steps, o[j + 1] # HtNull, NEW i \in 0 .. j + 1
                   PROVE  o[i] # HtNull /\ (i < j + 1 => r[o[i]] < r[o[j + 1]])
      OBVIOUS
    <3>2. o[j] # HtNull /\ o[j + 1] = f[o[j]] /\ j \in 0 .. Steps
      BY <1>1, <1>2, <3>1
    <3>3. o[j] \in M /\ o[j + 1] \in M /\ r[o[j]] < r[o[j + 1]] /\ r[o[j]] \in Int /\ r[o[j + 1]] \in Int
      BY <1>3, <3>1, <3>2
    <3>4. ASSUME i \in 0 .. j PROVE o[i] # HtNull /\ (i < j => r[o[i]] < r[o[j]])
      BY <2>2, <3>2, <3>4
    <3>5. CASE i = j + 1
      BY <3>1, <3>5
    <3>6. CASE i = j
      BY <3>2, <3>3, <3>6
    <3>7. CASE i < j
      <4>1. i \in 0 .. j /\ i \in 0 .. Steps
        BY <1>1, <3>1, <3>7
      <4>2. o[i] \in M /\ r[o[i]] \in Int /\ r[o[i]] < r[o[j]]
        BY <1>3, <3>4, <3>7, <4>1
      <4>3. PICK x, y, u : x = r[o[i]] /\ y = r[o[j]] /\ u = r[o[j + 1]]
        OBVIOUS
      <4>4. x \in Int /\ y \in Int /\ u \in Int /\ x < y /\ y < u
        BY <3>3, <4>2, <4>3
      <4>5. x < u
        BY <4>4
      <4> QED BY <3>4, <4>1, <4>3, <4>5
    <3> QED BY <3>5, <3>6, <3>7
  <2> HIDE DEF G
  <2>3. Nat \subseteq G
    BY <2>1, <2>2, NatSetInduction
  <2> QED BY <2>3 DEF G
<1>5. \A i, j \in 0 .. Steps : o[i] # HtNull /\ o[i] = o[j] => i = j
  <2> SUFFICES ASSUME NEW i \in 0 .. Steps, NEW j \in 0 .. Steps, o[i] # HtNull, o[i] = o[j], i # j
               PROVE  FALSE
    OBVIOUS
  <2>1. r[o[i]] \in Int
    BY <1>3
  <2>2. i < j \/ j < i
    BY <1>1
  <2>3. i < j => r[o[i]] < r[o[j]]
    BY <1>1, <1>4
  <2>4. j < i => r[o[j]] < r[o[i]]
    BY <1>1, <1>4
  <2> QED BY <2>1, <2>2, <2>3, <2>4
<1>6. \E i \in 0 .. Steps : o[i] = HtNull
  <2> SUFFICES ASSUME \A i \in 0 .. Steps : o[i] # HtNull PROVE FALSE
    OBVIOUS
  <2>0. PICK J : J = 0 .. Steps
    OBVIOUS
  <2>1. PICK g : g = [i \in J |-> o[i]]
    OBVIOUS
  <2>2. g \in [J -> HtNode]
    BY <1>3, <2>0, <2>1
  <2>3. IsFiniteSet(0 .. Steps) /\ Cardinality(0 .. Steps) = Steps + 1
    <3>1. 0 \in Int /\ Steps \in Int /\ ~ (0 > Steps) /\ Steps - 0 + 1 = Steps + 1
      BY <1>1
    <3> QED BY <3>1, FS_Interval
  <2>4. IsFiniteSet(HtNode) /\ Cardinality(HtNode) < Cardinality(J) /\ IsFiniteSet(J)
    BY <1>1, <2>0, <2>3 DEF HtAssumption, Steps
  <2>5. \E x, y \in J : x # y /\ g[x] = g[y]
    BY ONLY <2>2, <2>4, FS_PigeonHole
  <2> QED BY <1>5, <2>0, <2>1, <2>5
<1>7. PICK k \in 0 .. Steps : o[k] = HtNull /\ \A i \in 0 .. k - 1 : o[i] # HtNull
  <2>1. {i \in 0 .. Steps : o[i] = HtNull} \subseteq Nat /\ {i \in 0 .. Steps : o[i] = HtNull} # {}
    BY <1>6
  <2>2. PICK k \in {i \in 0 .. Steps : o[i] = HtNull} :
               \A y \in {i \in 0 .. Steps : o[i] = HtNull} : k <= y
    BY <2>1, NatMin
  <2> QED BY <1>1, <2>2
<1>8. PICK s : s = [i \in 1 .. k |-> o[i - 1]]
  OBVIOUS
<1>9. s \in Seq(M) /\ Len(s) = k /\ \A i \in 1 .. k : s[i] = o[i - 1] /\ s[i] # HtNull
  <2>1. \A i \in 1 .. k : o[i - 1] # HtNull /\ o[i - 1] \in M
    BY <1>1, <1>3, <1>7
  <2> QED BY <1>1, <1>8, <2>1, SMTT(30)
<1>10. Once(s)
  <2> SUFFICES ASSUME NEW i \in 1 .. k, NEW j \in 1 .. k, s[i] = s[j] PROVE i = j
    BY <1>9 DEF Once
  <2>1. i - 1 \in 0 .. Steps /\ j - 1 \in 0 .. Steps
    BY <1>1
  <2>2. i - 1 = j - 1
    BY <1>5, <1>9, <2>1
  <2> QED BY <2>2
<1>11. first = HtAt(s, 1)
  BY <1>2, <1>7, <1>9 DEF HtAt
<1>12. \A i \in 1 .. k : f[s[i]] = HtAt(s, i + 1)
  <2> TAKE i \in 1 .. k
  <2>1. i - 1 \in Nat /\ (i - 1) + 1 = i /\ i <= Steps
    BY <1>1
  <2>2. o[i] = f[s[i]]
    BY <1>2, <1>9, <2>1, ZenonT(40)
  <2>3. CASE i = k
    BY <1>7, <1>9, <2>2, <2>3 DEF HtAt
  <2>4. CASE i # k
    BY <1>9, <2>2, <2>4 DEF HtAt
  <2> QED BY <2>3, <2>4
<1>13. s \in Seq(HtNode)
  BY <1>9
<1> QED BY <1>9, <1>10, <1>11, <1>12, <1>13 DEF Leads

-----------------------------------------------------------------------------
(* Two lists of nodes, seen as links back and forth. *)

LinkFcn(f) == f \in [HtNode -> NodeOrNone]

\* Within M, p undoes q and q leads to the larger of r.
Double(p, q, M, r) ==
  \A n \in M :
    /\ r[n] \in Int
    /\ q[n] = HtNull \/ (q[n] \in M /\ p[q[n]] = n /\ r[n] < r[q[n]])
    /\ p[n] = HtNull \/ (p[n] \in M /\ q[p[n]] = n)

\* The nodes of M are in the lists that begin with bk[b], each in that of its slot.
Bucketed(p, q, bk, sl, B, M) ==
  /\ \A n \in M : /\ q[n] # HtNull => sl[q[n]] = sl[n]
                  /\ p[n] = HtNull => bk[sl[n]] = n
  /\ \A b \in B : bk[b] = HtNull \/ (bk[b] \in M /\ p[bk[b]] = HtNull /\ sl[bk[b]] = b)

Headed(p, hd, M) == hd = HtNull \/ (hd \in M /\ p[hd] = HtNull)

Alike(f, g, M) == \A x \in M : f[x] = g[x]

LEMMA DoubleAlike ==
  ASSUME NEW M, NEW p, NEW q, NEW p2, NEW q2, NEW r, Alike(p, p2, M), Alike(q, q2, M),
         Double(p, q, M, r)
  PROVE  Double(p2, q2, M, r)
  BY DEF Alike, Double

LEMMA BucketedAlike ==
  ASSUME NEW M, NEW p, NEW q, NEW p2, NEW q2, NEW bk, NEW sl, NEW B,
         Alike(p, p2, M), Alike(q, q2, M), Bucketed(p, q, bk, sl, B, M)
  PROVE  Bucketed(p2, q2, bk, sl, B, M)
  BY DEF Alike, Bucketed

LEMMA HeadedAlike ==
  ASSUME NEW M, NEW p, NEW p2, NEW hd, Alike(p, p2, M), Headed(p, hd, M)
  PROVE  Headed(p2, hd, M)
  BY DEF Alike, Headed

\* f with v at n, if there is a node n.
Sets(f, n, v, g) == \A x \in HtNode : g[x] = IF x = n THEN v ELSE f[x]

LEMMA DoubleUnlink ==
  ASSUME HtAssumption, NEW M, M \subseteq HtNode, NEW p, NEW q, NEW r, NEW n \in M,
         NEW p2, NEW q2, Double(p, q, M, r), Sets(p, q[n], p[n], p2), Sets(q, p[n], q[n], q2)
  PROVE  Double(p2, q2, M \ {n}, r)
<1> DEFINE a == p[n]
           b == q[n]
<1>1. /\ a = HtNull \/ (a \in M /\ q[a] = n /\ r[a] < r[n] /\ a # n /\ r[a] \in Int)
      /\ b = HtNull \/ (b \in M /\ p[b] = n /\ r[n] < r[b] /\ b # n /\ r[b] \in Int)
      /\ r[n] \in Int
  BY DEF Double, HtAssumption
<1>2. HtNull \notin HtNode
  BY DEF HtAssumption
<1>4. ASSUME NEW x \in M, x # n
      PROVE  /\ r[x] \in Int
             /\ q2[x] = HtNull \/ (q2[x] \in M /\ q2[x] # n /\ p2[q2[x]] = x /\ r[x] < r[q2[x]])
             /\ p2[x] = HtNull \/ (p2[x] \in M /\ p2[x] # n /\ q2[p2[x]] = x)
  <2>1. /\ r[x] \in Int
        /\ q[x] = HtNull \/ (q[x] \in M /\ p[q[x]] = x /\ r[x] < r[q[x]])
        /\ p[x] = HtNull \/ (p[x] \in M /\ q[p[x]] = x)
    BY DEF Double
  <2>2. x = a => a # HtNull /\ r[x] < r[n] /\ (b # HtNull => r[x] < r[b] /\ b \in M /\ b # n /\ b # HtNull)
    BY <1>1, <1>2, <2>1
  <2>3. q2[x] = IF x = a THEN b ELSE q[x]
    BY DEF Sets
  <2>4. p2[x] = IF x = b THEN a ELSE p[x]
    BY DEF Sets
  <2>5. q2[x] = HtNull \/ (q2[x] \in M /\ q2[x] # n /\ p2[q2[x]] = x /\ r[x] < r[q2[x]])
    <3>1. CASE x = a
      <4>1. b # HtNull => p2[b] = a
        BY <1>1 DEF Sets
      <4> QED BY <2>2, <2>3, <3>1, <4>1
    <3>2. CASE x # a /\ q[x] # HtNull
      <4>0. q[x] \in M /\ p[q[x]] = x /\ q[x] \in HtNode
        BY <2>1, <3>2
      <4>1. q[x] # n /\ q[x] # b /\ q[x] \in M
        <5>1. q[x] # n
          BY <3>2, <4>0
        <5>2. q[x] # b
          BY <1>1, <1>2, <1>4, <3>2, <4>0
        <5> QED BY <4>0, <5>1, <5>2
      <4>2. p2[q[x]] = p[q[x]]
        BY <4>1 DEF Sets
      <4> QED BY <2>1, <2>3, <3>2, <4>1, <4>2
    <3> QED BY <2>3, <3>1, <3>2
  <2>6. p2[x] = HtNull \/ (p2[x] \in M /\ p2[x] # n /\ q2[p2[x]] = x)
    <3>1. CASE x = b
      <4>1. a # HtNull => q2[a] = b
        BY <1>1 DEF Sets
      <4> QED BY <1>1, <2>4, <3>1, <4>1
    <3>2. CASE x # b /\ p[x] # HtNull
      <4>0. p[x] \in M /\ q[p[x]] = x /\ p[x] \in HtNode
        BY <2>1, <3>2
      <4>1. p[x] # n /\ p[x] # a /\ p[x] \in M
        <5>1. p[x] # n
          BY <3>2, <4>0
        <5>2. p[x] # a
          BY <1>1, <1>2, <1>4, <3>2, <4>0
        <5> QED BY <4>0, <5>1, <5>2
      <4>2. q2[p[x]] = q[p[x]]
        BY <4>1 DEF Sets
      <4> QED BY <2>1, <2>4, <3>2, <4>1, <4>2
    <3> QED BY <2>4, <3>1, <3>2
  <2> QED BY <2>1, <2>5, <2>6
<1> HIDE DEF a, b
<1> QED BY <1>4 DEF Double

LEMMA UnlinkElsewhere ==
  ASSUME HtAssumption, NEW M, M \subseteq HtNode, NEW p, NEW q, NEW r, NEW n \in M,
         NEW p2, NEW q2, Double(p, q, M, r), Sets(p, q[n], p[n], p2), Sets(q, p[n], q[n], q2),
         NEW x \in HtNode, x \notin M \/ x = n
  PROVE  p2[x] = p[x] /\ q2[x] = q[x]
  BY DEF Double, Sets, HtAssumption

LEMMA BucketedUnlink ==
  ASSUME HtAssumption, NEW M, M \subseteq HtNode, NEW p, NEW q, NEW r, NEW n \in M,
         NEW p2, NEW q2, Double(p, q, M, r), Sets(p, q[n], p[n], p2), Sets(q, p[n], q[n], q2),
         NEW B, NEW bk, NEW sl \in [HtNode -> B], Bucketed(p, q, bk, sl, B, M),
         NEW bk2, \A b \in B : bk2[b] = IF b = sl[n] /\ bk[b] = n THEN q[n] ELSE bk[b]
  PROVE  Bucketed(p2, q2, bk2, sl, B, M \ {n})
<1> DEFINE a == p[n]
           b == q[n]
<1>1. /\ a = HtNull \/ (a \in M /\ q[a] = n /\ sl[n] = sl[a])
      /\ b = HtNull \/ (b \in M /\ p[b] = n /\ sl[b] = sl[n] /\ b # n)
      /\ HtNull \notin HtNode
      /\ r[n] \in Int
  BY DEF Double, HtAssumption, Bucketed
<1>2. \A x \in M : q2[x] = (IF x = a THEN b ELSE q[x]) /\ p2[x] = IF x = b THEN a ELSE p[x]
  BY DEF Sets
<1>3. ASSUME NEW x \in M, x # n
      PROVE  /\ q2[x] # HtNull => sl[q2[x]] = sl[x]
             /\ p2[x] = HtNull => bk2[sl[x]] = x
  <2>1. (q[x] # HtNull => sl[q[x]] = sl[x]) /\ (p[x] = HtNull => bk[sl[x]] = x) /\ sl[x] \in B
    BY DEF Bucketed
  <2>2. q2[x] # HtNull => sl[q2[x]] = sl[x]
    BY <1>1, <1>2, <2>1
  <2>3. p2[x] = HtNull => bk2[sl[x]] = x
    <3>1. CASE x = b
      <4>1. SUFFICES ASSUME a = HtNull PROVE bk2[sl[x]] = x
        BY <1>2, <3>1
      <4>2. bk[sl[n]] = n
        BY <4>1 DEF Bucketed
      <4> QED BY <1>1, <2>1, <3>1, <4>2
    <3>2. CASE x # b
      BY <1>2, <1>3, <2>1, <3>2
    <3> QED BY <3>1, <3>2
  <2> QED BY <2>2, <2>3
<1>4. ASSUME NEW c \in B
      PROVE  bk2[c] = HtNull \/ (bk2[c] \in M \ {n} /\ p2[bk2[c]] = HtNull /\ sl[bk2[c]] = c)
  <2>1. bk[c] = HtNull \/ (bk[c] \in M /\ p[bk[c]] = HtNull /\ sl[bk[c]] = c)
    BY DEF Bucketed
  <2>2. CASE c = sl[n] /\ bk[c] = n
    <3>1. bk2[c] = b /\ (b # HtNull => a = HtNull)
      BY <1>1, <2>1, <2>2
    <3> QED BY <1>1, <1>2, <2>2, <3>1
  <2>3. CASE ~ (c = sl[n] /\ bk[c] = n)
    <3>1. bk2[c] = bk[c]
      BY <2>3
    <3>2. bk[c] # HtNull => bk[c] # n /\ bk[c] # b
      BY <1>1, <2>1, <2>3
    <3> QED BY <1>1, <1>2, <2>1, <3>1, <3>2
  <2> QED BY <2>2, <2>3
<1> HIDE DEF a, b
<1> QED BY <1>3, <1>4 DEF Bucketed

LEMMA HeadedUnlink ==
  ASSUME HtAssumption, NEW M, M \subseteq HtNode, NEW p, NEW q, NEW r, NEW n \in M,
         NEW p2, Double(p, q, M, r), Sets(p, q[n], p[n], p2),
         NEW hd, Headed(p, hd, M)
  PROVE  Headed(p2, IF hd = n THEN q[n] ELSE hd, M \ {n})
<1>1. /\ q[n] = HtNull \/ (q[n] \in M /\ p[q[n]] = n /\ q[n] # n)
      /\ HtNull \notin HtNode
  BY DEF Double, HtAssumption
<1>2. \A x \in M : p2[x] = IF x = q[n] THEN p[n] ELSE p[x]
  BY DEF Sets
<1>3. CASE hd = n
  <2>1. p[n] = HtNull
    BY <1>1, <1>3 DEF Headed
  <2> QED BY <1>1, <1>2, <1>3, <2>1 DEF Headed
<1>4. CASE hd # n
  BY <1>1, <1>2, <1>4 DEF Headed
<1> QED BY <1>3, <1>4

\* The links and their order when n comes before first.
Pushed(p, q, first, n, p2, q2) ==
  \A x \in HtNode : /\ p2[x] = IF x = n THEN HtNull ELSE IF x = first THEN n ELSE p[x]
                    /\ q2[x] = IF x = n THEN first ELSE q[x]

LEMMA DoublePush ==
  ASSUME HtAssumption, NEW M, M \subseteq HtNode, NEW p, NEW q, NEW r \in [HtNode -> Int],
         NEW n \in HtNode \ M, NEW first, Headed(p, first, M), NEW p2, NEW q2,
         Double(p, q, M, r), Pushed(p, q, first, n, p2, q2)
  PROVE  \E r2 \in [HtNode -> Int] : Double(p2, q2, M \cup {n}, r2)
<1>1. HtNull \notin HtNode /\ (first = HtNull \/ (first \in M /\ p[first] = HtNull)) /\ first # n
  BY DEF HtAssumption, Headed
<1>2. PICK r2 : r2 = [r EXCEPT ![n] = IF first = HtNull THEN 0 ELSE r[first] - 1]
  OBVIOUS
<1>3. r2 \in [HtNode -> Int] /\ r2[n] = (IF first = HtNull THEN 0 ELSE r[first] - 1)
      /\ \A x \in M : r2[x] = r[x] /\ r2[x] \in Int
  BY <1>1, <1>2
<1>4. p2[n] = HtNull /\ q2[n] = first /\ \A x \in M : x # n /\ q2[x] = q[x]
      /\ p2[x] = IF x = first THEN n ELSE p[x]
  BY <1>1 DEF Pushed
<1>5. first # HtNull => p2[first] = n /\ r2[n] < r2[first] /\ first \in M
  BY <1>1, <1>3, <1>4
<1>6. ASSUME NEW x \in M
      PROVE  /\ q2[x] = HtNull \/ (q2[x] \in M /\ p2[q2[x]] = x /\ r2[x] < r2[q2[x]])
             /\ p2[x] = HtNull \/ p2[x] = n \/ (p2[x] \in M /\ q2[p2[x]] = x)
             /\ p2[x] = n => x = first
  <2>1. /\ r[x] \in Int
        /\ q[x] = HtNull \/ (q[x] \in M /\ p[q[x]] = x /\ r[x] < r[q[x]])
        /\ p[x] = HtNull \/ (p[x] \in M /\ q[p[x]] = x)
    BY DEF Double
  <2>2. q2[x] = HtNull \/ (q2[x] \in M /\ p2[q2[x]] = x /\ r2[x] < r2[q2[x]])
    <3>1. SUFFICES ASSUME q[x] # HtNull PROVE q2[x] \in M /\ p2[q2[x]] = x /\ r2[x] < r2[q2[x]]
      BY <1>4
    <3>2. q[x] # first
      BY <1>1, <2>1, <3>1
    <3> QED BY <1>3, <1>4, <2>1, <3>1, <3>2
  <2>3. p2[x] = HtNull \/ p2[x] = n \/ (p2[x] \in M /\ q2[p2[x]] = x)
    BY <1>4, <2>1
  <2>4. p2[x] = n => x = first
    BY <1>1, <1>4, <2>1
  <2> QED BY <2>2, <2>3, <2>4
<1>7. Double(p2, q2, M \cup {n}, r2)
  <2> SUFFICES ASSUME NEW x \in M \cup {n}
               PROVE  /\ r2[x] \in Int
                      /\ q2[x] = HtNull \/ (q2[x] \in M \cup {n} /\ p2[q2[x]] = x /\ r2[x] < r2[q2[x]])
                      /\ p2[x] = HtNull \/ (p2[x] \in M \cup {n} /\ q2[p2[x]] = x)
    BY DEF Double
  <2>1. CASE x = n
    <3>1. r2[n] \in Int
      BY <1>3
    <3> QED BY <1>4, <1>5, <2>1, <3>1
  <2>2. CASE x # n
    BY <1>3, <1>4, <1>6, <2>2
  <2> QED BY <2>1, <2>2
<1> QED BY <1>3, <1>7

LEMMA BucketedPush ==
  ASSUME HtAssumption, NEW M, M \subseteq HtNode, NEW p, NEW q, NEW n \in HtNode \ M,
         NEW B, NEW bk, NEW sl \in [HtNode -> B], Bucketed(p, q, bk, sl, B, M),
         NEW p2, NEW q2, Pushed(p, q, bk[sl[n]], n, p2, q2), NEW r, Double(p, q, M, r),
         NEW bk2, \A b \in B : bk2[b] = IF b = sl[n] THEN n ELSE bk[b]
  PROVE  Headed(p, bk[sl[n]], M) /\ Bucketed(p2, q2, bk2, sl, B, M \cup {n})
<1> DEFINE first == bk[sl[n]]
<1>0. sl[n] \in B
  OBVIOUS
<1>1. /\ HtNull \notin HtNode /\ first # n
      /\ first = HtNull \/ (first \in M /\ p[first] = HtNull /\ sl[first] = sl[n])
  BY <1>0 DEF HtAssumption, Bucketed
<1>2. Headed(p, first, M)
  BY <1>1 DEF Headed
<1>3. /\ p2[n] = HtNull /\ q2[n] = first
      /\ \A x \in M : x # n /\ q2[x] = q[x] /\ p2[x] = IF x = first THEN n ELSE p[x]
  BY <1>1 DEF Pushed
<1>4. ASSUME NEW x \in M
      PROVE  /\ q2[x] # HtNull => sl[q2[x]] = sl[x]
             /\ p2[x] = HtNull => bk2[sl[x]] = x
  <2>1. /\ q[x] # HtNull => sl[q[x]] = sl[x]
        /\ p[x] = HtNull => bk[sl[x]] = x
        /\ sl[x] \in B
    BY DEF Bucketed
  <2>2. p2[x] = HtNull => bk2[sl[x]] = x
    <3>1. SUFFICES ASSUME p2[x] = HtNull PROVE bk2[sl[x]] = x
      OBVIOUS
    <3>2. x # first /\ p[x] = HtNull
      BY <1>1, <1>3, <3>1
    <3>3. bk[sl[x]] = x
      BY <2>1, <3>2
    <3>4. sl[x] # sl[n]
      BY <3>2, <3>3
    <3> QED BY <2>1, <3>3, <3>4
  <2> QED BY <1>3, <2>1, <2>2
<1>5. ASSUME NEW b \in B
      PROVE  bk2[b] = HtNull \/ (bk2[b] \in M \cup {n} /\ p2[bk2[b]] = HtNull /\ sl[bk2[b]] = b)
  <2>1. CASE b = sl[n]
    BY <1>3, <2>1
  <2>2. CASE b # sl[n]
    <3>1. bk2[b] = bk[b]
      BY <2>2
    <3>2. bk[b] = HtNull \/ (bk[b] \in M /\ p[bk[b]] = HtNull /\ sl[bk[b]] = b)
      BY DEF Bucketed
    <3>3. bk[b] # HtNull => bk[b] # first
      BY <1>1, <2>2, <3>2
    <3> QED BY <1>3, <3>1, <3>2, <3>3
  <2> QED BY <2>1, <2>2
<1>6. (q2[n] # HtNull => sl[q2[n]] = sl[n]) /\ bk2[sl[n]] = n
  BY <1>0, <1>1, <1>3
<1> HIDE DEF first
<1>7. Bucketed(p2, q2, bk2, sl, B, M \cup {n})
  BY <1>4, <1>5, <1>6 DEF Bucketed
<1> QED BY <1>2, <1>7 DEF first

\* The links when n comes in the place of o.
Swapped(p, q, o, n, p2, q2) ==
  \A x \in HtNode : /\ p2[x] = IF x = n THEN p[o] ELSE IF x = q[o] THEN n ELSE p[x]
                    /\ q2[x] = IF x = n THEN q[o] ELSE IF x = p[o] THEN n ELSE q[x]

LEMMA DoubleReplace ==
  ASSUME HtAssumption, NEW M, M \subseteq HtNode, NEW p, NEW q, NEW r \in [HtNode -> Int],
         NEW o \in M, NEW n \in HtNode \ M, NEW p2, NEW q2,
         Double(p, q, M, r), Swapped(p, q, o, n, p2, q2)
  PROVE  \E r2 \in [HtNode -> Int] : Double(p2, q2, (M \ {o}) \cup {n}, r2)
<1> DEFINE a == p[o]
           b == q[o]
<1>0. HtNull \notin HtNode
  BY DEF HtAssumption
<1>1. /\ a = HtNull \/ (a \in M /\ q[a] = o /\ r[a] < r[o] /\ a # o /\ r[a] \in Int)
      /\ b = HtNull \/ (b \in M /\ p[b] = o /\ r[o] < r[b] /\ b # o /\ r[b] \in Int)
      /\ r[o] \in Int /\ n # o
  BY DEF Double, HtAssumption
<1>2. PICK r2 : r2 = [r EXCEPT ![n] = r[o]]
  OBVIOUS
<1>3. r2 \in [HtNode -> Int] /\ r2[n] = r[o] /\ \A x \in M : r2[x] = r[x] /\ r2[x] \in Int /\ x # n
  BY <1>2
<1>4. p2[n] = a /\ q2[n] = b
  BY DEF Swapped
<1>5. \A x \in M : /\ p2[x] = IF x = b THEN n ELSE p[x]
                   /\ q2[x] = IF x = a THEN n ELSE q[x]
  BY DEF Swapped
<1> DEFINE W == (M \ {o}) \cup {n}
<1>6. ASSUME NEW x \in M, x # o
      PROVE  /\ q2[x] = HtNull \/ (q2[x] \in W /\ p2[q2[x]] = x /\ r2[x] < r2[q2[x]])
             /\ p2[x] = HtNull \/ (p2[x] \in W /\ q2[p2[x]] = x)
  <2>1. /\ r[x] \in Int
        /\ q[x] = HtNull \/ (q[x] \in M /\ p[q[x]] = x /\ r[x] < r[q[x]])
        /\ p[x] = HtNull \/ (p[x] \in M /\ q[p[x]] = x)
    BY DEF Double
  <2>2. q2[x] = HtNull \/ (q2[x] \in W /\ p2[q2[x]] = x /\ r2[x] < r2[q2[x]])
    <3>1. CASE x = a
      BY <1>0, <1>1, <1>3, <1>4, <1>5, <3>1
    <3>2. CASE x # a /\ q[x] # HtNull
      <4>0. q[x] \in M /\ p[q[x]] = x /\ r[x] < r[q[x]]
        BY <2>1, <3>2
      <4>1. q[x] # o
        BY <3>2, <4>0
      <4>2. q[x] # b
        BY <1>0, <1>1, <1>6, <4>0
      <4>3. q2[x] = q[x] /\ p2[q[x]] = p[q[x]] /\ q[x] \in W /\ r2[x] = r[x] /\ r2[q[x]] = r[q[x]]
        BY <1>3, <1>5, <3>2, <4>0, <4>1, <4>2
      <4> QED BY <4>0, <4>3
    <3> QED BY <1>5, <3>1, <3>2
  <2>3. p2[x] = HtNull \/ (p2[x] \in W /\ q2[p2[x]] = x)
    <3>1. CASE x = b
      BY <1>1, <1>4, <1>5, <3>1
    <3>2. CASE x # b /\ p[x] # HtNull
      <4>0. p[x] \in M /\ q[p[x]] = x
        BY <2>1, <3>2
      <4>1. p[x] # o
        BY <3>2, <4>0
      <4>2. p[x] # a
        BY <1>0, <1>1, <1>6, <4>0
      <4> QED BY <1>5, <3>2, <4>0, <4>1, <4>2
    <3> QED BY <1>5, <3>1, <3>2
  <2> QED BY <2>2, <2>3
<1>7. /\ b # HtNull => b \in W /\ p2[b] = n /\ r2[n] < r2[b]
      /\ a # HtNull => a \in W /\ q2[a] = n
  BY <1>1, <1>3, <1>5
<1> HIDE DEF a, b
<1>8. Double(p2, q2, W, r2)
  <2> SUFFICES ASSUME NEW x \in W
               PROVE  /\ r2[x] \in Int
                      /\ q2[x] = HtNull \/ (q2[x] \in W /\ p2[q2[x]] = x /\ r2[x] < r2[q2[x]])
                      /\ p2[x] = HtNull \/ (p2[x] \in W /\ q2[p2[x]] = x)
    BY DEF Double
  <2>1. CASE x = n
    <3>1. r2[n] \in Int
      BY <1>1, <1>3
    <3> QED BY <1>4, <1>7, <2>1, <3>1
  <2>2. CASE x # n
    BY <1>3, <1>6, <2>2
  <2> QED BY <2>1, <2>2
<1> QED BY <1>3, <1>8

LEMMA BucketedReplace ==
  ASSUME HtAssumption, NEW M, M \subseteq HtNode, NEW p, NEW q, NEW r, Double(p, q, M, r),
         NEW o \in M, NEW n \in HtNode \ M, NEW p2, NEW q2, Swapped(p, q, o, n, p2, q2),
         NEW B, NEW bk, NEW sl \in [HtNode -> B], Bucketed(p, q, bk, sl, B, M), sl[n] = sl[o],
         NEW bk2, \A b \in B : bk2[b] = IF b = sl[o] /\ p[o] = HtNull THEN n ELSE bk[b]
  PROVE  Bucketed(p2, q2, bk2, sl, B, (M \ {o}) \cup {n})
<1> DEFINE a == p[o]
           b == q[o]
<1>0. HtNull \notin HtNode /\ sl[o] \in B
  BY DEF HtAssumption
<1>1. /\ a = HtNull \/ (a \in M /\ q[a] = o /\ sl[o] = sl[a])
      /\ b = HtNull \/ (b \in M /\ p[b] = o /\ sl[b] = sl[o] /\ b # o)
      /\ n # o /\ r[o] \in Int
  BY DEF Double, HtAssumption, Bucketed
<1>2. p2[n] = a /\ q2[n] = b
  BY DEF Swapped
<1>3. \A x \in M : /\ p2[x] = IF x = b THEN n ELSE p[x]
                   /\ q2[x] = IF x = a THEN n ELSE q[x]
  BY DEF Swapped
<1>4. ASSUME NEW x \in M, x # o
      PROVE  /\ q2[x] # HtNull => sl[q2[x]] = sl[x]
             /\ p2[x] = HtNull => bk2[sl[x]] = x
  <2>1. (q[x] # HtNull => sl[q[x]] = sl[x]) /\ (p[x] = HtNull => bk[sl[x]] = x) /\ sl[x] \in B
    BY DEF Bucketed
  <2>2. q2[x] # HtNull => sl[q2[x]] = sl[x]
    BY <1>0, <1>1, <1>3, <2>1
  <2>3. p2[x] = HtNull => bk2[sl[x]] = x
    <3>1. SUFFICES ASSUME p2[x] = HtNull PROVE bk2[sl[x]] = x
      OBVIOUS
    <3>2. p[x] = HtNull
      BY <1>0, <1>3, <3>1
    <3>3. bk[sl[x]] = x
      BY <2>1, <3>2
    <3>4. ~ (sl[x] = sl[o] /\ a = HtNull)
      <4>1. a = HtNull => bk[sl[o]] = o
        BY DEF Bucketed
      <4> QED BY <1>4, <3>3, <4>1
    <3> QED BY <2>1, <3>3, <3>4
  <2> QED BY <2>2, <2>3
<1>5. (q2[n] # HtNull => sl[q2[n]] = sl[n]) /\ (p2[n] = HtNull => bk2[sl[n]] = n)
  BY <1>0, <1>1, <1>2
<1>6. ASSUME NEW c \in B
      PROVE  bk2[c] = HtNull \/ (bk2[c] \in (M \ {o}) \cup {n} /\ p2[bk2[c]] = HtNull /\ sl[bk2[c]] = c)
  <2>1. bk[c] = HtNull \/ (bk[c] \in M /\ p[bk[c]] = HtNull /\ sl[bk[c]] = c)
    BY DEF Bucketed
  <2>2. CASE c = sl[o] /\ a = HtNull
    BY <1>2, <2>2
  <2>3. CASE ~ (c = sl[o] /\ a = HtNull)
    <3>1. bk2[c] = bk[c]
      BY <2>3
    <3>2. bk[c] # HtNull => bk[c] # o /\ bk[c] # b
      BY <1>0, <1>1, <2>1, <2>3
    <3> QED BY <1>3, <2>1, <3>1, <3>2
  <2> QED BY <2>2, <2>3
<1> HIDE DEF a, b
<1> QED BY <1>4, <1>5, <1>6 DEF Bucketed

LEMMA HeadedReplace ==
  ASSUME HtAssumption, NEW M, M \subseteq HtNode, NEW p, NEW q, NEW r, Double(p, q, M, r),
         NEW o \in M, NEW n \in HtNode \ M, NEW p2, NEW q2, Swapped(p, q, o, n, p2, q2),
         NEW hd, Headed(p, hd, M)
  PROVE  Headed(p2, IF p[o] = HtNull THEN n ELSE hd, (M \ {o}) \cup {n})
<1>1. /\ HtNull \notin HtNode
      /\ q[o] = HtNull \/ (q[o] \in M /\ p[q[o]] = o)
      /\ p2[n] = p[o] /\ \A x \in M : p2[x] = IF x = q[o] THEN n ELSE p[x]
  BY DEF HtAssumption, Double, Swapped
<1>2. CASE p[o] = HtNull
  BY <1>1, <1>2 DEF Headed
<1>3. CASE p[o] # HtNull
  <2>1. hd # HtNull => hd # o /\ hd # q[o] /\ hd \in M /\ p[hd] = HtNull
    BY <1>1, <1>3 DEF Headed
  <2> QED BY <1>1, <1>3, <2>1 DEF Headed
<1> QED BY <1>2, <1>3

-----------------------------------------------------------------------------
(* Searching. *)

\* Every node of M is reached from the beginning of its bucket.
LEMMA BucketReached ==
  ASSUME HtAssumption, NEW M, M \subseteq HtNode, NEW p, NEW q, NEW r, Double(p, q, M, r),
         NEW B, NEW bk, NEW sl, Bucketed(p, q, bk, sl, B, M), NEW b \in B,
         NEW s \in Seq(M), Leads(bk[b], q, s), NEW m \in M, sl[m] = b
  PROVE  m \in ToSet(s)
<1> DEFINE L == {x \in M : sl[x] = b /\ x \notin ToSet(s)}
<1>1. SUFFICES ASSUME m \in L PROVE FALSE
  OBVIOUS
<1>2. /\ \A i \in 1 .. Len(s) : s[i] \in M /\ q[s[i]] = HtAt(s, i + 1)
      /\ bk[b] = HtAt(s, 1) /\ Len(s) \in Nat
  BY DEF Leads
<1>3. \A x : x \in ToSet(s) <=> \E i \in 1 .. Len(s) : s[i] = x
  BY HeldIs
<1>4. HtNull \notin HtNode
  BY DEF HtAssumption
<1>5. \A x \in ToSet(s) : q[x] # HtNull => q[x] \in ToSet(s)
  <2> SUFFICES ASSUME NEW x \in ToSet(s), q[x] # HtNull PROVE q[x] \in ToSet(s)
    OBVIOUS
  <2>1. PICK i \in 1 .. Len(s) : s[i] = x
    BY <1>3
  <2>2. q[x] = HtAt(s, i + 1)
    BY <1>2, <2>1
  <2>3. i + 1 \in 1 .. Len(s) /\ q[x] = s[i + 1]
    BY <2>2 DEF HtAt
  <2> QED BY <1>3, <2>3
<1>6. bk[b] # HtNull => bk[b] \in ToSet(s)
  BY <1>2, <1>3 DEF HtAt
<1>7. ASSUME NEW x \in L
      PROVE  p[x] \in L /\ p[x] # HtNull /\ r[p[x]] < r[x] /\ r[x] \in Int /\ r[p[x]] \in Int
  <2>1. x \in M /\ sl[x] = b /\ x \notin ToSet(s) /\ x # HtNull
    BY <1>4
  <2>2. p[x] # HtNull
    BY <1>6, <2>1 DEF Bucketed
  <2>3. p[x] \in M /\ q[p[x]] = x /\ r[x] \in Int
    BY <2>1, <2>2 DEF Double
  <2>4. r[p[x]] < r[q[p[x]]] /\ r[p[x]] \in Int
    BY <1>4, <2>1, <2>3 DEF Double
  <2>5. sl[p[x]] = b
    BY <2>1, <2>3 DEF Bucketed
  <2>6. p[x] \notin ToSet(s)
    BY <1>5, <2>1, <2>3
  <2> QED BY <2>2, <2>3, <2>4, <2>5, <2>6
<1> HIDE DEF L
<1>8. L \subseteq HtNode
  BY DEF L
<1>9. PICK d : d = [x \in L |-> 0 - r[x]]
  OBVIOUS
<1>10. \A x \in L : d[x] \in Int /\ (p[x] = HtNull \/ (p[x] \in L /\ d[x] < d[p[x]]))
  BY <1>7, <1>9
<1>11. \E t \in Seq(L) : Leads(m, p, t)
  BY <1>1, <1>8, <1>10, WalkEnds
<1>12. PICK t \in Seq(L) : Leads(m, p, t)
  BY <1>11
<1>13. /\ m = HtAt(t, 1) /\ Len(t) \in Nat /\ \A i \in 1 .. Len(t) : t[i] \in L /\ p[t[i]] = HtAt(t, i + 1)
  BY <1>12 DEF Leads
<1>14. m # HtNull
  BY <1>4
<1>15. Len(t) # 0
  BY <1>13, <1>14 DEF HtAt
<1>16. t[Len(t)] \in L /\ p[t[Len(t)]] = HtNull
  BY <1>13, <1>15 DEF HtAt
<1> QED BY <1>7, <1>16

Slot(z) == [n \in HtNode |-> HtHash(HtKey(n)) % z]

\* The fields of a table with z buckets.
Sized(t, z) ==
  t \in [buckets : [0 .. z - 1 -> NodeOrNone], head : NodeOrNone, count : 0 .. HtWord - 1]

\* The table holds the nodes of M and no other.
Placed(t, l, M, z, r) ==
  /\ Double(l.prev, l.next, M, r)
  /\ Bucketed(l.prev, l.next, t.buckets, Slot(z), 0 .. z - 1, M)
  /\ Alike(l.index, Slot(z), M)

Ordered(t, l, M, e) ==
  /\ Double(l.elePrev, l.eleNext, M, e)
  /\ Headed(l.elePrev, t.head, M)

Ranks == [HtNode -> Int]

Holds(t, l, M) ==
  /\ M \subseteq HtNode
  /\ \E z \in HtSizes, r \in Ranks : Sized(t, z) /\ Placed(t, l, M, z, r)
  /\ \E e \in Ranks : Ordered(t, l, M, e)

LEMMA HtSlotIs ==
  ASSUME HtAssumption, NEW z \in HtSizes
  PROVE  /\ z \in Nat /\ z > 0 /\ \A x \in Nat : x % z \in 0 .. z - 1
         /\ Slot(z) \in [HtNode -> 0 .. z - 1]
         /\ \A n \in HtNode : Slot(z)[n] = HtHash(HtKey(n)) % z
<1>1. z \in Nat /\ z > 0
  BY DEF HtAssumption
<1>2. \A x \in Nat : x % z \in 0 .. z - 1
  BY <1>1
<1>3. \A n \in HtNode : HtHash(HtKey(n)) \in Nat
  BY DEF HtAssumption
<1>4. \A n \in HtNode : HtHash(HtKey(n)) % z \in 0 .. z - 1
  BY <1>2, <1>3
<1> QED BY <1>1, <1>2, <1>4 DEF Slot

LEMMA BucketOfIs ==
  ASSUME HtAssumption, NEW z \in HtSizes, NEW t, Sized(t, z), NEW k
  PROVE  BucketOf(t, k) = HtHash(k) % z
<1>1. z \in Nat /\ z > 0
  BY DEF HtAssumption
<1>2. DOMAIN t.buckets = 0 .. z - 1
  BY DEF Sized
<1>3. PICK y : y = z - 1
  OBVIOUS
<1>4. 0 \in Int /\ y \in Int /\ ~ (0 > y) /\ y - 0 + 1 = z
  BY <1>1, <1>3
<1>5. Cardinality(0 .. y) = z
  BY <1>4, FS_Interval
<1> QED BY <1>2, <1>3, <1>5 DEF BucketOf

\* A search finds a node that the table holds with this key, if there is one.
LEMMA GetNodeFinds ==
  ASSUME HtAssumption, NEW t, NEW l, NEW M, Holds(t, l, M), NEW k \in HtKeys, NEW n, n = GetNode(t, l, k)
  PROVE  IF n = HtNull THEN \A m \in M : HtKey(m) # k ELSE n \in M /\ HtKey(n) = k
<1>1. PICK z \in HtSizes, r \in Ranks : Sized(t, z) /\ Placed(t, l, M, z, r)
  BY DEF Holds
<1>2. M \subseteq HtNode
  BY DEF Holds
<1>3. HtHash(k) \in Nat
  BY DEF HtKeys, HtAssumption
<1>4. PICK b : b = HtHash(k) % z
  OBVIOUS
<1>5. b \in 0 .. z - 1 /\ BucketOf(t, k) = b
  BY <1>1, <1>3, <1>4, HtSlotIs, BucketOfIs
<1>6. /\ Double(l.prev, l.next, M, r)
      /\ Bucketed(l.prev, l.next, t.buckets, Slot(z), 0 .. z - 1, M)
  BY <1>1 DEF Placed
<1>7. PICK q, bk, p, sl, B : q = l.next /\ p = l.prev /\ bk = t.buckets /\ sl = Slot(z) /\ B = 0 .. z - 1
  OBVIOUS
<1>8. Double(p, q, M, r) /\ Bucketed(p, q, bk, sl, B, M) /\ b \in B
  BY <1>5, <1>6, <1>7
<1>9. bk[b] \in M \cup {HtNull}
  BY <1>8 DEF Bucketed
<1>10. \E s \in Seq(M) : Leads(bk[b], q, s)
  <2>1. \A x \in M : r[x] \in Int /\ (q[x] = HtNull \/ (q[x] \in M /\ r[x] < r[q[x]]))
    BY <1>8 DEF Double
  <2> QED BY <1>2, <1>9, <2>1, WalkEnds
<1>11. PICK s \in Seq(M) : Leads(bk[b], q, s)
  BY <1>10
<1>12. WalkFrom(bk[b], q) = s
  BY <1>11, WalkIs
<1>13. PICK K : K = {x \in HtNode : HtKey(x) = k}
  OBVIOUS
<1>14. PICK same : same = Only(s, K)
  OBVIOUS
<1>15. n = IF same = <<>> THEN HtNull ELSE Head(same)
  BY <1>5, <1>7, <1>12, <1>13, <1>14 DEF GetNode
<1>16. same \in Seq(K) /\ ToSet(same) = ToSet(s) \cap K
  BY <1>14, OnlyType, OnlySet
<1>17. \A m \in M : HtKey(m) = k => m \in ToSet(s)
  <2> SUFFICES ASSUME NEW m \in M, HtKey(m) = k PROVE m \in ToSet(s)
    OBVIOUS
  <2>1. sl[m] = b
    BY <1>1, <1>2, <1>4, <1>7, HtSlotIs
  <2> QED BY <1>2, <1>8, <1>11, <2>1, BucketReached
<1>18. CASE same = <<>>
  <2>1. ToSet(same) = {}
    BY <1>18, HeldEmpty
  <2>2. \A m \in M : HtKey(m) # k
    BY <1>2, <1>13, <1>16, <1>17, <2>1
  <2> QED BY <1>15, <1>18, <2>2
<1>19. CASE same # <<>>
  <2>1. Head(same) \in ToSet(same) /\ Head(same) \in K
    BY <1>16, <1>19, HeldTail
  <2>2. n \in K /\ n \in ToSet(s)
    BY <1>15, <1>16, <1>19, <2>1
  <2>3. ToSet(s) \subseteq M
    BY HeldIs
  <2>4. n # HtNull
    BY <1>13, <2>2 DEF HtAssumption
  <2> QED BY <1>13, <2>2, <2>3, <2>4
<1> QED BY <1>18, <1>19

-----------------------------------------------------------------------------
(* The operations on a table. *)

LinksTyped(l) ==
  /\ LinkFcn(l.prev) /\ LinkFcn(l.next) /\ LinkFcn(l.elePrev) /\ LinkFcn(l.eleNext)
  /\ l.index \in [HtNode -> Nat]

\* The links of the nodes of S are the same.
SameLinks(l, k, S) ==
  /\ Alike(l.prev, k.prev, S) /\ Alike(l.next, k.next, S)
  /\ Alike(l.elePrev, k.elePrev, S) /\ Alike(l.eleNext, k.eleNext, S)
  /\ Alike(l.index, k.index, S)

LEMMA HoldsAlike ==
  ASSUME HtAssumption, NEW t, NEW l, NEW k, NEW M, Holds(t, l, M), SameLinks(l, k, M)
  PROVE  Holds(t, k, M)
<1>1. PICK z \in HtSizes, r \in Ranks : Sized(t, z) /\ Placed(t, l, M, z, r)
  BY DEF Holds
<1>2. PICK e \in Ranks : Ordered(t, l, M, e)
  BY DEF Holds
<1>3. /\ Alike(l.prev, k.prev, M) /\ Alike(l.next, k.next, M)
      /\ Alike(l.elePrev, k.elePrev, M) /\ Alike(l.eleNext, k.eleNext, M)
      /\ Alike(l.index, k.index, M)
  BY DEF SameLinks
<1>4. Double(k.prev, k.next, M, r)
  BY <1>1, <1>3, DoubleAlike DEF Placed
<1>5. Bucketed(k.prev, k.next, t.buckets, Slot(z), 0 .. z - 1, M)
  BY <1>1, <1>3, BucketedAlike DEF Placed
<1>6. Alike(k.index, Slot(z), M)
  BY <1>1, <1>3 DEF Placed, Alike
<1>7. Double(k.elePrev, k.eleNext, M, e)
  BY <1>2, <1>3, DoubleAlike DEF Ordered
<1>8. Headed(k.elePrev, t.head, M)
  BY <1>2, <1>3, HeadedAlike DEF Ordered
<1>9. Placed(t, k, M, z, r) /\ Ordered(t, k, M, e)
  BY <1>4, <1>5, <1>6, <1>7, <1>8 DEF Placed, Ordered
<1> QED BY <1>1, <1>9 DEF Holds

LEMMA SizedIs ==
  ASSUME HtAssumption, NEW t, NEW z \in HtSizes, Sized(t, z)
  PROVE  /\ t.buckets \in [0 .. z - 1 -> NodeOrNone] /\ t.head \in NodeOrNone
         /\ t.count \in 0 .. HtWord - 1 /\ t.count \in Int
         /\ HtWord \in Nat /\ HtWord > 0
<1>1. Cardinality(HtNode) \in Nat
  BY FS_CardinalityType DEF HtAssumption
<1> QED BY <1>1 DEF Sized, HtAssumption

LEMMA CountIs ==
  ASSUME HtAssumption, NEW c \in Int
  PROVE  c % HtWord \in 0 .. HtWord - 1
<1>1. Cardinality(HtNode) \in Nat
  BY FS_CardinalityType DEF HtAssumption
<1>2. HtWord \in Nat /\ HtWord > 0
  BY <1>1 DEF HtAssumption
<1> QED BY <1>2

LEMMA SetsPut ==
  ASSUME HtAssumption, NEW f, LinkFcn(f), NEW n \in NodeOrNone, NEW v \in NodeOrNone,
         NEW g, g = Put(f, n, v)
  PROVE  LinkFcn(g) /\ Sets(f, n, v, g)
<1>1. CASE n = HtNull
  BY <1>1 DEF Put, LinkFcn, Sets, HtAssumption
<1>2. CASE n # HtNull
  BY <1>2 DEF Put, LinkFcn, Sets, NodeOrNone
<1> QED BY <1>1, <1>2

\* The elements' links without n.
Skips(l, n, k) ==
  /\ Sets(l.elePrev, l.eleNext[n], l.elePrev[n], k.elePrev)
  /\ Sets(l.eleNext, l.elePrev[n], l.eleNext[n], k.eleNext)

OneLess(c) == (c - 1) % HtWord
OneMore(c) == (c + 1) % HtWord

HeadAfter(t, l, n) == IF t.head = n THEN l.eleNext[n] ELSE t.head

Shorter(t, l, n, u) == u.head = HeadAfter(t, l, n) /\ u.count = OneLess(t.count)
Longer(t, n, u) == u.head = n /\ u.count = OneMore(t.count)

LEMMA RemovedHolds ==
  ASSUME HtAssumption, NEW t, NEW l, NEW M, LinksTyped(l), Holds(t, l, M), NEW n \in M,
         NEW s, s = Removed([t |-> t, l |-> l], n)
  PROVE  /\ LinksTyped(s.l) /\ Holds(s.t, s.l, M \ {n})
         /\ SameLinks(l, s.l, HtNode \ (M \ {n}))
         /\ Shorter(t, l, n, s.t)
         /\ Skips(l, n, s.l)
<1>1. PICK z \in HtSizes, r \in Ranks : Sized(t, z) /\ Placed(t, l, M, z, r)
  BY DEF Holds
<1>2. PICK e \in Ranks : Ordered(t, l, M, e)
  BY DEF Holds
<1>3. M \subseteq HtNode /\ n \in HtNode
  BY DEF Holds
<1>4. /\ LinkFcn(l.prev) /\ LinkFcn(l.next) /\ LinkFcn(l.elePrev) /\ LinkFcn(l.eleNext)
      /\ l.index \in [HtNode -> Nat]
      /\ l.prev[n] \in NodeOrNone /\ l.next[n] \in NodeOrNone
      /\ l.elePrev[n] \in NodeOrNone /\ l.eleNext[n] \in NodeOrNone
  BY <1>3 DEF LinksTyped, LinkFcn
<1>5. /\ s.l.prev = Put(l.prev, l.next[n], l.prev[n])
      /\ s.l.next = Put(l.next, l.prev[n], l.next[n])
      /\ s.l.elePrev = Put(l.elePrev, l.eleNext[n], l.elePrev[n])
      /\ s.l.eleNext = Put(l.eleNext, l.elePrev[n], l.eleNext[n])
      /\ s.l.index = l.index
      /\ s.t = [buckets |-> [t.buckets EXCEPT ![l.index[n]] = IF @ = n THEN l.next[n] ELSE @],
                head |-> IF t.head = n THEN l.eleNext[n] ELSE t.head,
                count |-> (t.count - 1) % HtWord]
  BY DEF Removed
<1>6. LinkFcn(s.l.prev) /\ Sets(l.prev, l.next[n], l.prev[n], s.l.prev)
  BY <1>4, <1>5, SetsPut
<1>7. LinkFcn(s.l.next) /\ Sets(l.next, l.prev[n], l.next[n], s.l.next)
  BY <1>4, <1>5, SetsPut
<1>8. LinkFcn(s.l.elePrev) /\ Sets(l.elePrev, l.eleNext[n], l.elePrev[n], s.l.elePrev)
  BY <1>4, <1>5, SetsPut
<1>9. LinkFcn(s.l.eleNext) /\ Sets(l.eleNext, l.elePrev[n], l.eleNext[n], s.l.eleNext)
  BY <1>4, <1>5, SetsPut
<1>10. LinksTyped(s.l)
  BY <1>4, <1>5, <1>6, <1>7, <1>8, <1>9 DEF LinksTyped
<1>11. /\ Double(s.l.prev, s.l.next, M \ {n}, r)
       /\ \A x \in HtNode : x \notin M \ {n} => s.l.prev[x] = l.prev[x] /\ s.l.next[x] = l.next[x]
  <2>1. Double(l.prev, l.next, M, r)
    BY <1>1 DEF Placed
  <2>2. PICK p, q, p2, q2 : p = l.prev /\ q = l.next /\ p2 = s.l.prev /\ q2 = s.l.next
    OBVIOUS
  <2>3. Double(p, q, M, r) /\ Sets(p, q[n], p[n], p2) /\ Sets(q, p[n], q[n], q2)
    BY <1>6, <1>7, <2>1, <2>2
  <2>4. Double(p2, q2, M \ {n}, r)
    BY <1>3, <2>3, DoubleUnlink
  <2>5. ASSUME NEW x \in HtNode, x \notin M \ {n} PROVE p2[x] = p[x] /\ q2[x] = q[x]
    <3>1. x \notin M \/ x = n
      BY <2>5
    <3> QED BY <1>3, <2>3, <2>5, <3>1, UnlinkElsewhere, SMTT(30)
  <2> QED BY <2>2, <2>4, <2>5
<1>12. /\ Double(s.l.elePrev, s.l.eleNext, M \ {n}, e)
       /\ \A x \in HtNode : x \notin M \ {n} => s.l.elePrev[x] = l.elePrev[x] /\ s.l.eleNext[x] = l.eleNext[x]
  <2>1. Double(l.elePrev, l.eleNext, M, e)
    BY <1>2 DEF Ordered
  <2>2. PICK p, q, p2, q2 : p = l.elePrev /\ q = l.eleNext /\ p2 = s.l.elePrev /\ q2 = s.l.eleNext
    OBVIOUS
  <2>3. Double(p, q, M, e) /\ Sets(p, q[n], p[n], p2) /\ Sets(q, p[n], q[n], q2)
    BY <1>8, <1>9, <2>1, <2>2
  <2>4. Double(p2, q2, M \ {n}, e)
    BY <1>3, <2>3, DoubleUnlink
  <2>5. ASSUME NEW x \in HtNode, x \notin M \ {n} PROVE p2[x] = p[x] /\ q2[x] = q[x]
    <3>1. x \notin M \/ x = n
      BY <2>5
    <3> QED BY <1>3, <2>3, <2>5, <3>1, UnlinkElsewhere, SMTT(30)
  <2> QED BY <2>2, <2>4, <2>5
<1>13. SameLinks(l, s.l, HtNode \ (M \ {n}))
  BY <1>5, <1>11, <1>12 DEF SameLinks, Alike
<1>14. l.index[n] = Slot(z)[n] /\ Slot(z) \in [HtNode -> 0 .. z - 1] /\ l.index[n] \in 0 .. z - 1
  <2>1. l.index[n] = Slot(z)[n]
    BY <1>1 DEF Placed, Alike
  <2>2. Slot(z) \in [HtNode -> 0 .. z - 1]
    BY HtSlotIs
  <2> QED BY <1>3, <2>1, <2>2
<1>15. /\ t.buckets \in [0 .. z - 1 -> NodeOrNone] /\ t.head \in NodeOrNone
       /\ t.count \in Int
  BY <1>1, SizedIs
<1>16. /\ s.t.buckets \in [0 .. z - 1 -> NodeOrNone]
       /\ \A b \in 0 .. z - 1 : s.t.buckets[b] = IF b = Slot(z)[n] /\ t.buckets[b] = n THEN l.next[n] ELSE t.buckets[b]
  <2>1. PICK bk, i, v : bk = t.buckets /\ i = l.index[n] /\ v = l.next[n]
    OBVIOUS
  <2>2. /\ bk \in [0 .. z - 1 -> NodeOrNone] /\ i \in 0 .. z - 1 /\ v \in NodeOrNone
        /\ i = Slot(z)[n]
    BY <1>4, <1>14, <1>15, <2>1
  <2>3. s.t.buckets = [bk EXCEPT ![i] = IF @ = n THEN v ELSE @]
    BY <1>5, <2>1
  <2> QED BY <2>1, <2>2, <2>3
<1>17. Sized(s.t, z)
  <2>1. (t.count - 1) % HtWord \in 0 .. HtWord - 1
    BY <1>15, CountIs
  <2> QED BY <1>4, <1>5, <1>15, <1>16, <2>1 DEF Sized
<1>18. Bucketed(s.l.prev, s.l.next, s.t.buckets, Slot(z), 0 .. z - 1, M \ {n})
  <2>1. Double(l.prev, l.next, M, r) /\ Bucketed(l.prev, l.next, t.buckets, Slot(z), 0 .. z - 1, M)
    BY <1>1 DEF Placed
  <2>2. PICK p2, q2, bk2 : p2 = s.l.prev /\ q2 = s.l.next /\ bk2 = s.t.buckets
    OBVIOUS
  <2>3. PICK p, q, bk : p = l.prev /\ q = l.next /\ bk = t.buckets
    OBVIOUS
  <2>4. PICK B, sl : B = 0 .. z - 1 /\ sl = Slot(z)
    OBVIOUS
  <2>5. sl \in [HtNode -> B] /\ \A b \in B : bk2[b] = IF b = sl[n] /\ bk[b] = n THEN q[n] ELSE bk[b]
    BY <1>14, <1>16, <2>2, <2>3, <2>4
  <2>6. /\ Double(p, q, M, r) /\ Bucketed(p, q, bk, sl, B, M)
        /\ Sets(p, q[n], p[n], p2) /\ Sets(q, p[n], q[n], q2)
    BY <1>6, <1>7, <2>1, <2>2, <2>3, <2>4
  <2>7. Bucketed(p2, q2, bk2, sl, B, M \ {n})
    BY <1>3, <2>5, <2>6, BucketedUnlink
  <2> QED BY <2>2, <2>4, <2>7
<1>19. Alike(s.l.index, Slot(z), M \ {n})
  BY <1>1, <1>5 DEF Placed, Alike
<1>20. Headed(s.l.elePrev, s.t.head, M \ {n})
  <2>1. Double(l.elePrev, l.eleNext, M, e) /\ Headed(l.elePrev, t.head, M)
    BY <1>2 DEF Ordered
  <2>2. s.t.head = IF t.head = n THEN l.eleNext[n] ELSE t.head
    BY <1>5
  <2>3. PICK hd, hd2 : hd = t.head /\ hd2 = s.t.head
    OBVIOUS
  <2>4. Headed(s.l.elePrev, IF hd = n THEN l.eleNext[n] ELSE hd, M \ {n})
    BY <1>3, <1>8, <2>1, <2>3, HeadedUnlink
  <2> QED BY <2>2, <2>3, <2>4
<1>21. Placed(s.t, s.l, M \ {n}, z, r) /\ Ordered(s.t, s.l, M \ {n}, e)
  BY <1>11, <1>12, <1>18, <1>19, <1>20 DEF Placed, Ordered
<1>22. Holds(s.t, s.l, M \ {n})
  BY <1>3, <1>17, <1>21 DEF Holds
<1>23. Shorter(t, l, n, s.t)
  BY <1>5 DEF Shorter, HeadAfter, OneLess
<1>24. Skips(l, n, s.l)
  BY <1>8, <1>9 DEF Skips
<1> QED BY <1>10, <1>13, <1>22, <1>23, <1>24

LEMMA PushedPut ==
  ASSUME HtAssumption, NEW p, NEW q, LinkFcn(p), LinkFcn(q), NEW n \in HtNode,
         NEW first \in NodeOrNone, NEW p2, p2 = Put(Put(p, first, n), n, HtNull),
         NEW q2, q2 = Put(q, n, first)
  PROVE  LinkFcn(p2) /\ LinkFcn(q2) /\ Pushed(p, q, first, n, p2, q2)
<1>1. n \in NodeOrNone /\ HtNull \in NodeOrNone
  BY DEF NodeOrNone
<1>2. PICK g : g = Put(p, first, n)
  OBVIOUS
<1>3. LinkFcn(g) /\ Sets(p, first, n, g)
  BY <1>1, <1>2, SetsPut
<1>4. LinkFcn(p2) /\ Sets(g, n, HtNull, p2)
  BY <1>1, <1>2, <1>3, SetsPut
<1>5. LinkFcn(q2) /\ Sets(q, n, first, q2)
  BY <1>1, SetsPut
<1> QED BY <1>3, <1>4, <1>5 DEF Sets, Pushed

LEMMA InsertedHolds ==
  ASSUME HtAssumption, NEW t, NEW l, NEW M, LinksTyped(l), Holds(t, l, M), NEW n \in HtNode \ M,
         NEW s, s = Inserted([t |-> t, l |-> l], n)
  PROVE  /\ LinksTyped(s.l) /\ Holds(s.t, s.l, M \cup {n})
         /\ SameLinks(l, s.l, HtNode \ (M \cup {n}))
         /\ Longer(t, n, s.t)
         /\ Pushed(l.elePrev, l.eleNext, t.head, n, s.l.elePrev, s.l.eleNext)
<1>1. PICK z \in HtSizes, r \in Ranks : Sized(t, z) /\ Placed(t, l, M, z, r)
  BY DEF Holds
<1>2. PICK e \in Ranks : Ordered(t, l, M, e)
  BY DEF Holds
<1>3. M \subseteq HtNode
  BY DEF Holds
<1>4. /\ LinkFcn(l.prev) /\ LinkFcn(l.next) /\ LinkFcn(l.elePrev) /\ LinkFcn(l.eleNext)
      /\ l.index \in [HtNode -> Nat]
  BY DEF LinksTyped
<1>5. /\ t.buckets \in [0 .. z - 1 -> NodeOrNone] /\ t.head \in NodeOrNone
      /\ t.count \in Int
  BY <1>1, SizedIs
<1>6. PICK b : b = BucketOf(t, HtKey(n))
  OBVIOUS
<1>7. b = Slot(z)[n] /\ Slot(z) \in [HtNode -> 0 .. z - 1] /\ b \in 0 .. z - 1 /\ b \in Nat
  <2>1. b = HtHash(HtKey(n)) % z
    BY <1>1, <1>6, BucketOfIs
  <2>2. /\ Slot(z) \in [HtNode -> 0 .. z - 1]
        /\ Slot(z)[n] = HtHash(HtKey(n)) % z
        /\ z \in Nat
    BY HtSlotIs
  <2> QED BY <2>1, <2>2
<1>8. PICK first : first = t.buckets[b]
  OBVIOUS
<1>9. first \in NodeOrNone
  BY <1>5, <1>7, <1>8
<1>10. /\ s.l.prev = Put(Put(l.prev, first, n), n, HtNull)
       /\ s.l.next = Put(l.next, n, first)
       /\ s.l.elePrev = Put(Put(l.elePrev, t.head, n), n, HtNull)
       /\ s.l.eleNext = Put(l.eleNext, n, t.head)
       /\ s.l.index = Put(l.index, n, b)
       /\ s.t = [buckets |-> [t.buckets EXCEPT ![b] = n], head |-> n,
                 count |-> (t.count + 1) % HtWord]
  BY <1>6, <1>8 DEF Inserted
<1>11. LinkFcn(s.l.prev) /\ LinkFcn(s.l.next) /\ Pushed(l.prev, l.next, first, n, s.l.prev, s.l.next)
  BY <1>4, <1>9, <1>10, PushedPut
<1>12. LinkFcn(s.l.elePrev) /\ LinkFcn(s.l.eleNext)
       /\ Pushed(l.elePrev, l.eleNext, t.head, n, s.l.elePrev, s.l.eleNext)
  BY <1>4, <1>5, <1>10, PushedPut
<1>13. s.l.index \in [HtNode -> Nat] /\ \A x \in HtNode : s.l.index[x] = IF x = n THEN b ELSE l.index[x]
  <2>1. n \in NodeOrNone
    BY DEF NodeOrNone
  <2>2. PICK g : g = l.index
    OBVIOUS
  <2>3. g \in [HtNode -> Nat] /\ s.l.index = Put(g, n, b)
    BY <1>4, <1>10, <2>2
  <2>4. Put(g, n, b) \in [HtNode -> Nat] /\ \A x \in HtNode : Put(g, n, b)[x] = IF x = n THEN b ELSE g[x]
    BY <1>7, <2>1, <2>3 DEF Put, HtAssumption
  <2> QED BY <2>2, <2>3, <2>4
<1>14. LinksTyped(s.l)
  BY <1>11, <1>12, <1>13 DEF LinksTyped
<1>15. s.t.buckets \in [0 .. z - 1 -> NodeOrNone]
       /\ \A c \in 0 .. z - 1 : s.t.buckets[c] = IF c = Slot(z)[n] THEN n ELSE t.buckets[c]
  <2>1. s.t.buckets = [t.buckets EXCEPT ![b] = n] /\ n \in NodeOrNone
    BY <1>10 DEF NodeOrNone
  <2> QED BY <1>5, <1>7, <2>1, ZenonT(40)
<1>16. Sized(s.t, z)
  <2>0. PICK c : c = t.count + 1
    OBVIOUS
  <2>1. (t.count + 1) % HtWord \in 0 .. HtWord - 1
    <3>1. c \in Int
      BY <1>5, <2>0
    <3> QED BY <2>0, <3>1, CountIs
  <2> QED BY <1>10, <1>15, <2>1 DEF Sized, NodeOrNone
<1>17. /\ Headed(l.prev, first, M)
       /\ Bucketed(s.l.prev, s.l.next, s.t.buckets, Slot(z), 0 .. z - 1, M \cup {n})
  <2>1. Double(l.prev, l.next, M, r) /\ Bucketed(l.prev, l.next, t.buckets, Slot(z), 0 .. z - 1, M)
    BY <1>1 DEF Placed
  <2>2. PICK p2, q2, bk2 : p2 = s.l.prev /\ q2 = s.l.next /\ bk2 = s.t.buckets
    OBVIOUS
  <2>3. PICK p, q, bk : p = l.prev /\ q = l.next /\ bk = t.buckets
    OBVIOUS
  <2>4. PICK B, sl : B = 0 .. z - 1 /\ sl = Slot(z)
    OBVIOUS
  <2>5. sl \in [HtNode -> B] /\ \A c \in B : bk2[c] = IF c = sl[n] THEN n ELSE bk[c]
    BY <1>7, <1>15, <2>2, <2>3, <2>4
  <2>6. /\ Double(p, q, M, r) /\ Bucketed(p, q, bk, sl, B, M)
        /\ Pushed(p, q, bk[sl[n]], n, p2, q2) /\ first = bk[sl[n]]
    BY <1>7, <1>8, <1>11, <2>1, <2>2, <2>3, <2>4
  <2>7. Headed(p, bk[sl[n]], M) /\ Bucketed(p2, q2, bk2, sl, B, M \cup {n})
    BY <1>3, <2>5, <2>6, BucketedPush
  <2> QED BY <2>2, <2>3, <2>4, <2>6, <2>7
<1>18. PICK r2 \in Ranks : Double(s.l.prev, s.l.next, M \cup {n}, r2)
  <2>1. Double(l.prev, l.next, M, r) /\ r \in [HtNode -> Int]
    BY <1>1 DEF Placed, Ranks
  <2>2. \E r2 \in [HtNode -> Int] : Double(s.l.prev, s.l.next, M \cup {n}, r2)
    BY <1>3, <1>11, <1>17, <2>1, DoublePush
  <2> QED BY <2>2 DEF Ranks
<1>19. PICK e2 \in Ranks : Double(s.l.elePrev, s.l.eleNext, M \cup {n}, e2)
  <2>1. Double(l.elePrev, l.eleNext, M, e) /\ e \in [HtNode -> Int] /\ Headed(l.elePrev, t.head, M)
    BY <1>2 DEF Ordered, Ranks
  <2>2. \E e2 \in [HtNode -> Int] : Double(s.l.elePrev, s.l.eleNext, M \cup {n}, e2)
    BY <1>3, <1>12, <2>1, DoublePush
  <2> QED BY <2>2 DEF Ranks
<1>20. Headed(s.l.elePrev, s.t.head, M \cup {n})
  BY <1>10, <1>12 DEF Headed, Pushed
<1>21. Alike(s.l.index, Slot(z), M \cup {n})
  <2>1. Alike(l.index, Slot(z), M)
    BY <1>1 DEF Placed
  <2> QED BY <1>3, <1>7, <1>13, <2>1 DEF Alike
<1>22. SameLinks(l, s.l, HtNode \ (M \cup {n}))
  <2>1. /\ first \in M \cup {HtNull} /\ t.head \in M \cup {HtNull} /\ HtNull \notin HtNode
    BY <1>2, <1>17 DEF Ordered, Headed, HtAssumption
  <2> QED BY <1>11, <1>12, <1>13, <2>1 DEF SameLinks, Alike, Pushed
<1>23. Placed(s.t, s.l, M \cup {n}, z, r2) /\ Ordered(s.t, s.l, M \cup {n}, e2)
  BY <1>17, <1>18, <1>19, <1>20, <1>21 DEF Placed, Ordered
<1>24. Holds(s.t, s.l, M \cup {n})
  BY <1>3, <1>16, <1>23 DEF Holds
<1>25. Longer(t, n, s.t)
  BY <1>10 DEF OneMore, Longer
<1> QED BY <1>12, <1>14, <1>22, <1>24, <1>25

LEMMA SwappedPut ==
  ASSUME HtAssumption, NEW p, NEW q, LinkFcn(p), LinkFcn(q), NEW o \in HtNode, NEW n \in HtNode,
         NEW p2, p2 = Put(Put(p, q[o], n), n, p[o]), NEW q2, q2 = Put(Put(q, p[o], n), n, q[o])
  PROVE  LinkFcn(p2) /\ LinkFcn(q2) /\ Swapped(p, q, o, n, p2, q2)
<1>1. n \in NodeOrNone /\ p[o] \in NodeOrNone /\ q[o] \in NodeOrNone
  BY DEF NodeOrNone, LinkFcn
<1>2. PICK g, h : g = Put(p, q[o], n) /\ h = Put(q, p[o], n)
  OBVIOUS
<1>3. LinkFcn(g) /\ Sets(p, q[o], n, g)
  BY <1>1, <1>2, SetsPut
<1>4. LinkFcn(p2) /\ Sets(g, n, p[o], p2)
  BY <1>1, <1>2, <1>3, SetsPut
<1>5. LinkFcn(h) /\ Sets(q, p[o], n, h)
  BY <1>1, <1>2, SetsPut
<1>6. LinkFcn(q2) /\ Sets(h, n, q[o], q2)
  BY <1>1, <1>2, <1>5, SetsPut
<1> QED BY <1>3, <1>4, <1>5, <1>6 DEF Sets, Swapped

HeadInstead(t, l, o, n) == IF l.elePrev[o] = HtNull THEN n ELSE t.head

Instead(t, l, o, n, u) == u.head = HeadInstead(t, l, o, n) /\ u.count = t.count

LEMMA ReplacedHolds ==
  ASSUME HtAssumption, NEW t, NEW l, NEW M, LinksTyped(l), Holds(t, l, M), NEW o \in M,
         NEW n \in HtNode \ M, HtKey(n) = HtKey(o),
         NEW s, s = Replaced([t |-> t, l |-> l], o, n)
  PROVE  /\ LinksTyped(s.l) /\ Holds(s.t, s.l, (M \ {o}) \cup {n})
         /\ SameLinks(l, s.l, HtNode \ (M \cup {n}))
         /\ Instead(t, l, o, n, s.t)
         /\ Swapped(l.elePrev, l.eleNext, o, n, s.l.elePrev, s.l.eleNext)
<1>1. PICK z \in HtSizes, r \in Ranks : Sized(t, z) /\ Placed(t, l, M, z, r)
  BY DEF Holds
<1>2. PICK e \in Ranks : Ordered(t, l, M, e)
  BY DEF Holds
<1>3. M \subseteq HtNode /\ o \in HtNode
  BY DEF Holds
<1>4. /\ LinkFcn(l.prev) /\ LinkFcn(l.next) /\ LinkFcn(l.elePrev) /\ LinkFcn(l.eleNext)
      /\ l.index \in [HtNode -> Nat] /\ l.index[o] \in Nat
  BY <1>3 DEF LinksTyped
<1>5. /\ t.buckets \in [0 .. z - 1 -> NodeOrNone] /\ t.head \in NodeOrNone
      /\ t.count \in 0 .. HtWord - 1
  BY <1>1, SizedIs
<1>6. l.index[o] = Slot(z)[o] /\ Slot(z)[n] = Slot(z)[o] /\ Slot(z) \in [HtNode -> 0 .. z - 1]
      /\ l.index[o] \in 0 .. z - 1
  <2>1. l.index[o] = Slot(z)[o]
    BY <1>1 DEF Placed, Alike
  <2>2. /\ Slot(z) \in [HtNode -> 0 .. z - 1]
        /\ Slot(z)[n] = HtHash(HtKey(n)) % z /\ Slot(z)[o] = HtHash(HtKey(o)) % z
    BY <1>3, HtSlotIs
  <2> QED BY <1>3, <2>1, <2>2
<1>7. /\ s.l.prev = Put(Put(l.prev, l.next[o], n), n, l.prev[o])
      /\ s.l.next = Put(Put(l.next, l.prev[o], n), n, l.next[o])
      /\ s.l.elePrev = Put(Put(l.elePrev, l.eleNext[o], n), n, l.elePrev[o])
      /\ s.l.eleNext = Put(Put(l.eleNext, l.elePrev[o], n), n, l.eleNext[o])
      /\ s.l.index = Put(l.index, n, l.index[o])
      /\ s.t = [buckets |-> IF l.prev[o] = HtNull THEN [t.buckets EXCEPT ![l.index[o]] = n] ELSE t.buckets,
                head |-> IF l.elePrev[o] = HtNull THEN n ELSE t.head, count |-> t.count]
  BY DEF Replaced
<1>8. LinkFcn(s.l.prev) /\ LinkFcn(s.l.next) /\ Swapped(l.prev, l.next, o, n, s.l.prev, s.l.next)
  BY <1>3, <1>4, <1>7, SwappedPut
<1>9. LinkFcn(s.l.elePrev) /\ LinkFcn(s.l.eleNext)
      /\ Swapped(l.elePrev, l.eleNext, o, n, s.l.elePrev, s.l.eleNext)
  BY <1>3, <1>4, <1>7, SwappedPut
<1>10. s.l.index \in [HtNode -> Nat] /\ \A x \in HtNode : s.l.index[x] = IF x = n THEN l.index[o] ELSE l.index[x]
  <2>1. PICK g, v : g = l.index /\ v = l.index[o]
    OBVIOUS
  <2>2. g \in [HtNode -> Nat] /\ s.l.index = Put(g, n, v) /\ v \in Nat
    BY <1>4, <1>7, <2>1
  <2>3. Put(g, n, v) \in [HtNode -> Nat] /\ \A x \in HtNode : Put(g, n, v)[x] = IF x = n THEN v ELSE g[x]
    BY <2>2 DEF Put, HtAssumption
  <2> QED BY <2>1, <2>2, <2>3
<1>11. LinksTyped(s.l)
  BY <1>8, <1>9, <1>10 DEF LinksTyped
<1>12. s.t.buckets \in [0 .. z - 1 -> NodeOrNone]
       /\ \A b \in 0 .. z - 1 : s.t.buckets[b] = IF b = Slot(z)[o] /\ l.prev[o] = HtNull THEN n ELSE t.buckets[b]
  <2>1. PICK bk, i : bk = t.buckets /\ i = l.index[o]
    OBVIOUS
  <2>2. bk \in [0 .. z - 1 -> NodeOrNone] /\ i \in 0 .. z - 1 /\ i = Slot(z)[o] /\ n \in NodeOrNone
    BY <1>5, <1>6, <2>1 DEF NodeOrNone
  <2>3. s.t.buckets = IF l.prev[o] = HtNull THEN [bk EXCEPT ![i] = n] ELSE bk
    BY <1>7, <2>1
  <2> QED BY <2>1, <2>2, <2>3
<1>13. Sized(s.t, z)
  BY <1>5, <1>7, <1>12 DEF Sized, NodeOrNone
<1>14. Bucketed(s.l.prev, s.l.next, s.t.buckets, Slot(z), 0 .. z - 1, (M \ {o}) \cup {n})
  <2>1. Double(l.prev, l.next, M, r) /\ Bucketed(l.prev, l.next, t.buckets, Slot(z), 0 .. z - 1, M)
    BY <1>1 DEF Placed
  <2>2. PICK p2, q2, bk2 : p2 = s.l.prev /\ q2 = s.l.next /\ bk2 = s.t.buckets
    OBVIOUS
  <2>3. PICK p, q, bk : p = l.prev /\ q = l.next /\ bk = t.buckets
    OBVIOUS
  <2>4. PICK B, sl : B = 0 .. z - 1 /\ sl = Slot(z)
    OBVIOUS
  <2>5. sl \in [HtNode -> B] /\ sl[n] = sl[o]
        /\ \A b \in B : bk2[b] = IF b = sl[o] /\ p[o] = HtNull THEN n ELSE bk[b]
    BY <1>6, <1>12, <2>2, <2>3, <2>4
  <2>6. /\ Double(p, q, M, r) /\ Bucketed(p, q, bk, sl, B, M)
        /\ Swapped(p, q, o, n, p2, q2)
    BY <1>8, <2>1, <2>2, <2>3, <2>4
  <2>7. Bucketed(p2, q2, bk2, sl, B, (M \ {o}) \cup {n})
    BY <1>3, <2>5, <2>6, BucketedReplace
  <2> QED BY <2>2, <2>4, <2>7
<1>15. PICK r2 \in Ranks : Double(s.l.prev, s.l.next, (M \ {o}) \cup {n}, r2)
  <2>1. Double(l.prev, l.next, M, r) /\ r \in [HtNode -> Int]
    BY <1>1 DEF Placed, Ranks
  <2>2. \E r2 \in [HtNode -> Int] : Double(s.l.prev, s.l.next, (M \ {o}) \cup {n}, r2)
    BY <1>3, <1>8, <2>1, DoubleReplace
  <2> QED BY <2>2 DEF Ranks
<1>16. PICK e2 \in Ranks : Double(s.l.elePrev, s.l.eleNext, (M \ {o}) \cup {n}, e2)
  <2>1. Double(l.elePrev, l.eleNext, M, e) /\ e \in [HtNode -> Int]
    BY <1>2 DEF Ordered, Ranks
  <2>2. \E e2 \in [HtNode -> Int] : Double(s.l.elePrev, s.l.eleNext, (M \ {o}) \cup {n}, e2)
    BY <1>3, <1>9, <2>1, DoubleReplace
  <2> QED BY <2>2 DEF Ranks
<1>17. Headed(s.l.elePrev, s.t.head, (M \ {o}) \cup {n})
  <2>1. Double(l.elePrev, l.eleNext, M, e) /\ Headed(l.elePrev, t.head, M)
    BY <1>2 DEF Ordered
  <2>2. Headed(s.l.elePrev, IF l.elePrev[o] = HtNull THEN n ELSE t.head, (M \ {o}) \cup {n})
    BY <1>3, <1>9, <2>1, HeadedReplace
  <2>3. s.t.head = IF l.elePrev[o] = HtNull THEN n ELSE t.head
    BY <1>7
  <2> QED BY <2>2, <2>3
<1>18. Alike(s.l.index, Slot(z), (M \ {o}) \cup {n})
  <2>1. Alike(l.index, Slot(z), M)
    BY <1>1 DEF Placed
  <2> QED BY <1>3, <1>6, <1>10, <2>1 DEF Alike
<1>19. SameLinks(l, s.l, HtNode \ (M \cup {n}))
  <2>1. /\ l.prev[o] \in M \cup {HtNull} /\ l.next[o] \in M \cup {HtNull}
        /\ l.elePrev[o] \in M \cup {HtNull} /\ l.eleNext[o] \in M \cup {HtNull} /\ HtNull \notin HtNode
    BY <1>1, <1>2 DEF Placed, Ordered, Double, HtAssumption
  <2> QED BY <1>8, <1>9, <1>10, <2>1 DEF SameLinks, Alike, Swapped
<1>20. Placed(s.t, s.l, (M \ {o}) \cup {n}, z, r2) /\ Ordered(s.t, s.l, (M \ {o}) \cup {n}, e2)
  BY <1>14, <1>15, <1>16, <1>17, <1>18 DEF Placed, Ordered
<1>21. Holds(s.t, s.l, (M \ {o}) \cup {n})
  <2>1. (M \ {o}) \cup {n} \subseteq HtNode
    BY <1>3
  <2> QED BY <1>13, <1>20, <2>1 DEF Holds
<1>22. Instead(t, l, o, n, s.t)
  BY <1>7 DEF HeadInstead, Instead
<1> QED BY <1>9, <1>11, <1>19, <1>21, <1>22

\* A removed node's links are wiped, and no other's.
LEMMA WipedIs ==
  ASSUME HtAssumption, NEW l, LinksTyped(l), NEW n \in HtNode, NEW k, k = Wiped(l, n)
  PROVE  LinksTyped(k) /\ SameLinks(l, k, HtNode \ {n})
<1>1. /\ k.prev = Put(l.prev, n, HtNull) /\ k.next = Put(l.next, n, HtNull)
      /\ k.elePrev = Put(l.elePrev, n, HtNull) /\ k.eleNext = Put(l.eleNext, n, HtNull)
      /\ k.index = Put(l.index, n, 0)
  BY DEF Wiped
<1>2. /\ LinkFcn(l.prev) /\ LinkFcn(l.next) /\ LinkFcn(l.elePrev) /\ LinkFcn(l.eleNext)
      /\ l.index \in [HtNode -> Nat]
  BY DEF LinksTyped
<1>3. n \in NodeOrNone /\ HtNull \in NodeOrNone
  BY DEF NodeOrNone
<1>4. LinkFcn(k.prev) /\ Sets(l.prev, n, HtNull, k.prev)
  BY <1>1, <1>2, <1>3, SetsPut
<1>5. LinkFcn(k.next) /\ Sets(l.next, n, HtNull, k.next)
  BY <1>1, <1>2, <1>3, SetsPut
<1>6. LinkFcn(k.elePrev) /\ Sets(l.elePrev, n, HtNull, k.elePrev)
  BY <1>1, <1>2, <1>3, SetsPut
<1>7. LinkFcn(k.eleNext) /\ Sets(l.eleNext, n, HtNull, k.eleNext)
  BY <1>1, <1>2, <1>3, SetsPut
<1>8. k.index \in [HtNode -> Nat] /\ Sets(l.index, n, 0, k.index)
  <2>1. PICK g : g = l.index
    OBVIOUS
  <2>2. g \in [HtNode -> Nat] /\ k.index = Put(g, n, 0)
    BY <1>1, <1>2, <2>1
  <2>3. Put(g, n, 0) \in [HtNode -> Nat] /\ \A x \in HtNode : Put(g, n, 0)[x] = IF x = n THEN 0 ELSE g[x]
    BY <2>2 DEF Put, HtAssumption
  <2> QED BY <2>1, <2>2, <2>3 DEF Sets
<1> QED BY <1>4, <1>5, <1>6, <1>7, <1>8 DEF LinksTyped, SameLinks, Alike, Sets

LEMMA SameLinksThen ==
  ASSUME NEW l, NEW k, NEW j, NEW S, NEW T, SameLinks(l, k, S), SameLinks(k, j, T)
  PROVE  SameLinks(l, j, S \cap T)
  BY DEF SameLinks, Alike

LEMMA SameLinksOn ==
  ASSUME NEW l, NEW k, NEW S, NEW T, T \subseteq S, SameLinks(l, k, S)
  PROVE  SameLinks(l, k, T)
  BY DEF SameLinks, Alike

-----------------------------------------------------------------------------
(* The list of all elements, before the first rehash. *)

Lined(p, q, s) ==
  \A i \in 1 .. Len(s) : q[s[i]] = HtAt(s, i + 1) /\ p[s[i]] = HtAt(s, i - 1)

Walks(t, l, s) ==
  /\ s \in Seq(HtNode) /\ Once(s)
  /\ t.head = HtAt(s, 1) /\ t.count = Len(s)
  /\ Lined(l.elePrev, l.eleNext, s)

HasAlso(v, s, n) == ToSet(v) = ToSet(s) \cup {n}

LEMMA FrontIs ==
  ASSUME NEW T, NEW s \in Seq(T), Once(s), NEW n \in T \ ToSet(s), NEW v, v = <<n>> \o s
  PROVE  v \in Seq(T) /\ Once(v) /\ HasAlso(v, s, n)
<1>1. v \in Seq(T) /\ Len(v) = Len(s) + 1 /\ v[1] = n /\ 1 \in 1 .. Len(v)
  OBVIOUS
<1>2. PICK b : b = <<n>>
  OBVIOUS
<1>3. b \in Seq(T) /\ ToSet(b) = {n} /\ v = b \o s
  BY <1>2, HeldOne
<1>4. ToSet(b \o s) = ToSet(b) \cup ToSet(s)
  BY <1>3, HeldBoth
<1>5. ToSet(v) = ToSet(s) \cup {n}
  BY <1>3, <1>4
<1>6. Once(v)
  <2>1. \A i \in 1 .. Len(s) : v[1 + i] = s[i]
    OBVIOUS
  <2>2. \A x : x \in ToSet(s) <=> \E i \in 1 .. Len(s) : s[i] = x
    BY HeldIs
  <2>3. \A i \in 1 .. Len(v) : i # 1 => i - 1 \in 1 .. Len(s) /\ v[i] = s[i - 1] /\ v[i] # n
    <3> SUFFICES ASSUME NEW i \in 1 .. Len(v), i # 1
                 PROVE  i - 1 \in 1 .. Len(s) /\ v[i] = s[i - 1] /\ v[i] # n
      OBVIOUS
    <3>1. i - 1 \in 1 .. Len(s) /\ 1 + (i - 1) = i
      BY <1>1
    <3>2. v[i] = s[i - 1]
      BY <2>1, <3>1
    <3> QED BY <2>2, <3>1, <3>2
  <2> SUFFICES ASSUME NEW i \in 1 .. Len(v), NEW j \in 1 .. Len(v), v[i] = v[j] PROVE i = j
    BY DEF Once
  <2>4. (i = 1) <=> (j = 1)
    BY <1>1, <2>3
  <2>5. i # 1 => i - 1 = j - 1
    BY <2>3, <2>4 DEF Once
  <2> QED BY <2>4, <2>5
<1> QED BY <1>1, <1>5, <1>6 DEF HasAlso

LEMMA LinedInsert ==
  ASSUME HtAssumption, NEW s \in Seq(HtNode), Once(s), NEW n \in HtNode \ ToSet(s),
         NEW p, NEW q, Lined(p, q, s), NEW first, first = HtAt(s, 1),
         NEW p2, NEW q2, Pushed(p, q, first, n, p2, q2), NEW u, u = <<n>> \o s
  PROVE  Lined(p2, q2, u)
<1>1. /\ u \in Seq(HtNode) /\ Len(s) \in Nat /\ Len(u) = Len(s) + 1 /\ u[1] = n
      /\ \A i \in 1 .. Len(s) : u[i + 1] = s[i]
  OBVIOUS
<1>2. \A i \in 1 .. Len(u) : u[i] = IF i = 1 THEN n ELSE s[i - 1]
  <2> SUFFICES ASSUME NEW i \in 1 .. Len(u), i # 1 PROVE u[i] = s[i - 1]
    BY <1>1
  <2>1. i - 1 \in 1 .. Len(s) /\ (i - 1) + 1 = i
    BY <1>1
  <2> QED BY <1>1, <2>1
<1>3. \A x : x \in ToSet(s) <=> \E i \in 1 .. Len(s) : s[i] = x
  BY HeldIs
<1>4. \A i \in 1 .. Len(s) : s[i] \in HtNode /\ s[i] # n
  BY <1>3
<1>7. HtAt(u, 1) = n
  BY <1>1 DEF HtAt
<1>8. \A i \in 0 .. Len(s) + 1 : HtAt(u, i + 1) = IF i = 0 THEN n ELSE HtAt(s, i)
  <2> SUFFICES ASSUME NEW i \in 1 .. Len(s) + 1 PROVE HtAt(u, i + 1) = HtAt(s, i)
    BY <1>1, <1>7
  <2> QED BY <1>1 DEF HtAt
<1>9. ASSUME NEW i \in 1 .. Len(u) PROVE q2[u[i]] = HtAt(u, i + 1) /\ p2[u[i]] = HtAt(u, i - 1)
  <2>1. CASE i = 1
    <3>1. u[i] = n /\ q2[n] = HtAt(s, 1) /\ p2[n] = HtNull
      BY <1>1, <2>1 DEF Pushed
    <3>2. HtAt(u, i + 1) = HtAt(s, 1) /\ HtAt(u, i - 1) = HtNull
      BY <1>1, <1>8, <2>1 DEF HtAt
    <3> QED BY <3>1, <3>2
  <2>2. CASE i # 1
    <3>1. PICK j : j = i - 1
      OBVIOUS
    <3>2. j \in 1 .. Len(s) /\ i = j + 1 /\ u[i] = s[j] /\ s[j] # n /\ s[j] \in HtNode
      BY <1>1, <1>2, <1>4, <2>2, <3>1
    <3>3. q2[s[j]] = q[s[j]] /\ q[s[j]] = HtAt(s, j + 1) /\ p[s[j]] = HtAt(s, j - 1)
          /\ p2[s[j]] = IF s[j] = first THEN n ELSE p[s[j]]
      BY <3>2 DEF Pushed, Lined
    <3>4. HtAt(u, i + 1) = HtAt(s, j + 1)
      <4>1. i \in 0 .. Len(s) + 1 /\ i # 0
        BY <1>1, <2>2
      <4>2. HtAt(u, i + 1) = HtAt(s, i)
        BY <1>8, <4>1
      <4> QED BY <3>2, <4>2
    <3>5. CASE j = 1
      <4>1. s[j] = first
        BY <1>1, <3>2, <3>5 DEF HtAt
      <4>2. HtAt(u, i - 1) = n
        BY <1>7, <3>2, <3>5
      <4> QED BY <3>2, <3>3, <3>4, <4>1, <4>2
    <3>6. CASE j # 1
      <4>1. s[j] # first
        <5>1. 1 \in 1 .. Len(s) /\ first = s[1]
          BY <1>1, <3>2 DEF HtAt
        <5> QED BY <3>2, <3>6, <5>1 DEF Once
      <4>2. HtAt(u, i - 1) = HtAt(s, j - 1)
        <5>1. j - 1 \in 0 .. Len(s) + 1 /\ j - 1 # 0 /\ i - 1 = (j - 1) + 1
          BY <1>1, <3>2, <3>6
        <5> QED BY <1>8, <5>1
      <4> QED BY <3>2, <3>3, <3>4, <4>1, <4>2
    <3> QED BY <3>5, <3>6
  <2> QED BY <2>1, <2>2
<1> QED BY <1>9 DEF Lined

\* A sequence that has every element once, without one.
LeavesOut(s, j, u) == \A i \in 1 .. Len(u) : u[i] = IF i < j THEN s[i] ELSE s[i + 1]

LEMMA CutIs ==
  ASSUME NEW T, NEW s \in Seq(T), Once(s), NEW j \in 1 .. Len(s), NEW n, n = s[j],
         NEW u, u = Only(s, T \ {n})
  PROVE  /\ u \in Seq(T) /\ Len(u) = Len(s) - 1 /\ Once(u) /\ ToSet(u) = ToSet(s) \ {n}
         /\ LeavesOut(s, j, u)
<1>1. PICK a, c : a = [i \in 1 .. j - 1 |-> s[i]] /\ c = [i \in 1 .. Len(s) - j |-> s[i + j]]
  OBVIOUS
<1>2. /\ Len(s) \in Nat /\ a \in Seq(T) /\ c \in Seq(T) /\ n \in T
      /\ Len(a) = j - 1 /\ Len(c) = Len(s) - j
      /\ \A i \in 1 .. j - 1 : a[i] = s[i]
      /\ \A i \in 1 .. Len(s) - j : c[i] = s[i + j]
  BY <1>1
<1>3. PICK b : b = <<n>>
  OBVIOUS
<1>4. b \in Seq(T) /\ ToSet(b) = {n} /\ Len(b) = 1 /\ b[1] = n
  BY <1>2, <1>3, HeldOne
<1>5. Three(a, b, c) = s
  <2>1. PICK v, w : v = b \o c /\ w = a \o v
    OBVIOUS
  <2>a. /\ v \in Seq(T) /\ Len(v) = Len(b) + Len(c)
        /\ \A i \in 1 .. Len(b) : v[i] = b[i]
        /\ \A i \in 1 .. Len(c) : v[Len(b) + i] = c[i]
    <3>1. b \o c \in Seq(T) /\ Joined(b, c, b \o c)
      BY <1>2, <1>4, ConcatIs
    <3>2. v \in Seq(T) /\ Joined(b, c, v)
      BY ONLY <2>1, <3>1
    <3> QED BY <3>2 DEF Joined
  <2>2. v \in Seq(T) /\ Len(v) = Len(s) - j + 1 /\ v[1] = n /\ \A i \in 1 .. Len(s) - j : v[1 + i] = c[i]
    <3>1. 1 \in 1 .. Len(b) /\ Len(v) = Len(s) - j + 1
      BY <1>2, <1>4, <2>a
    <3>2. v[1] = n
      BY <1>4, <2>a, <3>1
    <3>3. ASSUME NEW i \in 1 .. Len(s) - j PROVE v[1 + i] = c[i]
      <4>1. i \in 1 .. Len(c) /\ Len(b) + i = 1 + i
        BY <1>2, <1>4
      <4> QED BY <2>a, <4>1
    <3> QED BY <2>a, <3>1, <3>2, <3>3
  <2>3. /\ w \in Seq(T) /\ Len(w) = Len(s)
        /\ \A i \in 1 .. j - 1 : w[i] = a[i]
        /\ \A i \in 1 .. Len(v) : w[(j - 1) + i] = v[i]
    <3>1. /\ w \in Seq(T) /\ Len(w) = Len(a) + Len(v)
          /\ \A i \in 1 .. Len(a) : w[i] = a[i]
          /\ \A i \in 1 .. Len(v) : w[Len(a) + i] = v[i]
      <4>1. a \o v \in Seq(T) /\ Joined(a, v, a \o v)
        BY <1>2, <2>2, ConcatIs
      <4>2. w \in Seq(T) /\ Joined(a, v, w)
        BY ONLY <2>1, <4>1
      <4> QED BY <4>2 DEF Joined
    <3>2. Len(w) = Len(s) /\ 1 .. Len(a) = 1 .. j - 1 /\ Len(a) = j - 1
      BY <1>2, <2>2, <3>1, SMTT(30)
    <3>3. \A i \in 1 .. j - 1 : w[i] = a[i]
      BY <3>1, <3>2
    <3>4. \A i \in 1 .. Len(v) : w[(j - 1) + i] = v[i]
      BY <3>1, <3>2
    <3> QED BY <3>1, <3>2, <3>3, <3>4
  <2>4. ASSUME NEW i \in 1 .. Len(s) PROVE w[i] = s[i]
    <3>1. CASE i < j
      BY <1>2, <2>3, <3>1
    <3>2. CASE i = j
      <4>1. 1 \in 1 .. Len(v) /\ (j - 1) + 1 = j
        BY <1>2, <2>2
      <4> QED BY <2>2, <2>3, <3>2, <4>1
    <3>3. CASE i > j
      <4>1. PICK k : k = i - j
        OBVIOUS
      <4>2. k \in 1 .. Len(s) - j /\ 1 + k \in 1 .. Len(v) /\ (j - 1) + (1 + k) = i /\ k + j = i
        BY <1>2, <2>2, <3>3, <4>1
      <4>3. w[i] = v[1 + k]
        BY <2>3, <4>2
      <4> QED BY <1>2, <2>2, <4>2, <4>3
    <3> QED BY <1>2, <3>1, <3>2, <3>3
  <2>5. w = s
    BY <2>3, <2>4, SeqAlike
  <2> QED BY <2>1, <2>5 DEF Three
<1>6. Apart(a, b) /\ Apart(c, b)
  <2>1. \A i \in 1 .. j - 1 : a[i] # n
    <3> TAKE i \in 1 .. j - 1
    <3>1. i \in 1 .. Len(s) /\ i # j
      BY <1>2
    <3> QED BY <1>2, <3>1 DEF Once
  <2>2. \A i \in 1 .. Len(s) - j : c[i] # n
    <3> TAKE i \in 1 .. Len(s) - j
    <3>1. i + j \in 1 .. Len(s) /\ i + j # j
      BY <1>2
    <3> QED BY <1>2, <3>1 DEF Once
  <2>3. n \notin ToSet(a)
    <3>1. \A y : y \in ToSet(a) <=> \E i \in 1 .. Len(a) : a[i] = y
      BY <1>2, HeldIs
    <3> QED BY <1>2, <2>1, <3>1
  <2>4. n \notin ToSet(c)
    <3>1. \A y : y \in ToSet(c) <=> \E i \in 1 .. Len(c) : c[i] = y
      BY <1>2, HeldIs
    <3> QED BY <1>2, <2>2, <3>1
  <2> QED BY <1>4, <2>3, <2>4 DEF Apart
<1>7. OnlyBut(Three(a, b, c), T, b) = Both(a, c)
  BY <1>2, <1>4, <1>6, OnlyDrops
<1>8. u = a \o c
  BY <1>4, <1>5, <1>7 DEF OnlyBut, Both
<1>9. /\ u \in Seq(T) /\ Len(u) = Len(s) - 1
      /\ \A i \in 1 .. j - 1 : u[i] = a[i]
      /\ \A i \in 1 .. Len(s) - j : u[(j - 1) + i] = c[i]
  <2>1. a \o c \in Seq(T) /\ Joined(a, c, a \o c)
    BY <1>2, ConcatIs
  <2>2. u \in Seq(T) /\ Joined(a, c, u)
    BY ONLY <1>8, <2>1
  <2>3. /\ Len(u) = Len(a) + Len(c)
        /\ \A i \in 1 .. Len(a) : u[i] = a[i]
        /\ \A i \in 1 .. Len(c) : u[Len(a) + i] = c[i]
    BY <2>2 DEF Joined
  <2>4. Len(a) = j - 1 /\ Len(c) = Len(s) - j /\ Len(s) \in Nat
    BY <1>2
  <2>5. Len(u) = Len(s) - 1
    <3>1. Len(u) = Len(a) + Len(c)
      BY <2>3
    <3> QED BY ONLY j \in 1 .. Len(s), <2>4, <3>1
  <2> QED BY ONLY <2>2, <2>3, <2>4, <2>5
<1>10. ASSUME NEW i \in 1 .. Len(u) PROVE u[i] = IF i < j THEN s[i] ELSE s[i + 1]
  <2>1. CASE i < j
    <3>1. i \in 1 .. j - 1
      BY <2>1
    <3> QED BY <1>2, <1>9, <2>1, <3>1
  <2>2. CASE ~ (i < j)
    <3>1. PICK k : k = i - j + 1
      OBVIOUS
    <3>2. k \in 1 .. Len(s) - j /\ (j - 1) + k = i /\ k + j = i + 1
      BY <1>2, <1>9, <2>2, <3>1
    <3>3. u[i] = c[k]
      BY <1>9, <3>2
    <3> QED BY <1>2, <2>2, <3>2, <3>3
  <2> QED BY <2>1, <2>2
<1>11. Once(u)
  <2> SUFFICES ASSUME NEW i \in 1 .. Len(u), NEW k \in 1 .. Len(u), u[i] = u[k] PROVE i = k
    BY DEF Once
  <2>1. PICK x, y : x = (IF i < j THEN i ELSE i + 1) /\ y = IF k < j THEN k ELSE k + 1
    OBVIOUS
  <2>2. x \in 1 .. Len(s) /\ y \in 1 .. Len(s)
    BY <1>2, <1>9, <2>1
  <2>3. s[x] = s[y]
    BY <1>10, <2>1
  <2>4. x = y
    BY <2>2, <2>3 DEF Once
  <2> QED BY <1>2, <1>9, <2>1, <2>4
<1>12. ToSet(u) = ToSet(s) \ {n}
  <2>1. ToSet(u) = ToSet(s) \cap (T \ {n})
    BY OnlySet
  <2>2. ToSet(s) \subseteq T
    BY HeldIs
  <2> QED BY <2>1, <2>2
<1>13. LeavesOut(s, j, u)
  BY <1>10 DEF LeavesOut
<1> QED BY <1>9, <1>11, <1>12, <1>13

HeadWithout(s, n, q) == IF HtAt(s, 1) = n THEN q[n] ELSE HtAt(s, 1)

LEMMA LinedRemove ==
  ASSUME HtAssumption, NEW s \in Seq(HtNode), Once(s), NEW j \in 1 .. Len(s), NEW n, n = s[j],
         NEW p, NEW q, Lined(p, q, s), NEW u, u = Only(s, HtNode \ {n}),
         NEW p2, NEW q2, Sets(p, q[n], p[n], p2), Sets(q, p[n], q[n], q2)
  PROVE  Lined(p2, q2, u) /\ HtAt(u, 1) = HeadWithout(s, n, q)
<1>1. /\ u \in Seq(HtNode) /\ Len(u) = Len(s) - 1
      /\ \A i \in 1 .. Len(u) : u[i] = IF i < j THEN s[i] ELSE s[i + 1]
  <2>1. u \in Seq(HtNode) /\ Len(u) = Len(s) - 1
    BY CutIs
  <2>2. LeavesOut(s, j, u)
    BY CutIs
  <2> QED BY <2>1, <2>2 DEF LeavesOut
<1>2. /\ Len(s) \in Nat /\ HtNull \notin HtNode
      /\ \A i \in 1 .. Len(s) : s[i] \in HtNode
      /\ \A i, k \in 1 .. Len(s) : s[i] = s[k] => i = k
  BY DEF Once, HtAssumption
<1>3. /\ q[n] = HtAt(s, j + 1) /\ p[n] = HtAt(s, j - 1)
  BY DEF Lined
<1>4. \A i \in Int : HtAt(u, i) = IF i < j THEN HtAt(s, i) ELSE HtAt(s, i + 1)
  <2> TAKE i \in Int
  <2>1. CASE i < j
    <3>1. i \in 1 .. Len(u) <=> i \in 1 .. Len(s)
      BY <1>1, <1>2, <2>1
    <3> QED BY <1>1, <2>1, <3>1 DEF HtAt
  <2>2. CASE ~ (i < j)
    <3>1. i \in 1 .. Len(u) <=> i + 1 \in 1 .. Len(s)
      <4>1. Len(u) = Len(s) - 1 /\ Len(s) \in Nat
        BY <1>1, <1>2
      <4> QED BY <2>2, <4>1
    <3> QED BY <1>1, <2>2, <3>1 DEF HtAt
  <2> QED BY <2>1, <2>2
<1>5. \A i \in 1 .. Len(s), k \in Int : s[i] = HtAt(s, k) <=> i = k
  BY <1>2 DEF HtAt
<1>6. ASSUME NEW i \in 1 .. Len(s), i # j
      PROVE  /\ q2[s[i]] = (IF i + 1 = j THEN HtAt(s, j + 1) ELSE HtAt(s, i + 1))
             /\ p2[s[i]] = (IF i - 1 = j THEN HtAt(s, j - 1) ELSE HtAt(s, i - 1))
  <2>1. q[s[i]] = HtAt(s, i + 1) /\ p[s[i]] = HtAt(s, i - 1)
    BY DEF Lined
  <2>2. /\ q2[s[i]] = (IF s[i] = p[n] THEN q[n] ELSE q[s[i]])
        /\ p2[s[i]] = (IF s[i] = q[n] THEN p[n] ELSE p[s[i]])
    BY <1>2 DEF Sets
  <2>3. (s[i] = p[n] <=> i + 1 = j) /\ (s[i] = q[n] <=> i - 1 = j)
    <3>1. j - 1 \in Int /\ j + 1 \in Int /\ (i = j - 1 <=> i + 1 = j) /\ (i = j + 1 <=> i - 1 = j)
      BY SMTT(30)
    <3> QED BY <1>3, <1>5, <3>1
  <2> QED BY <1>3, <2>1, <2>2, <2>3
<1>7. ASSUME NEW i \in 1 .. Len(u) PROVE q2[u[i]] = HtAt(u, i + 1) /\ p2[u[i]] = HtAt(u, i - 1)
  <2>1. CASE i < j
    <3>0. u[i] = s[i]
      BY <1>1, <2>1
    <3>1. u[i] = s[i] /\ i \in 1 .. Len(s) /\ i # j /\ i - 1 # j
      <4>1. Len(u) = Len(s) - 1 /\ Len(s) \in Nat
        BY <1>1, <1>2
      <4> QED BY <2>1, <3>0, <4>1
    <3>2. HtAt(u, i - 1) = HtAt(s, i - 1)
      <4>1. i - 1 \in Int /\ i - 1 < j
        BY <2>1
      <4> QED BY <1>4, <4>1
    <3>3. HtAt(u, i + 1) = IF i + 1 = j THEN HtAt(s, j + 1) ELSE HtAt(s, i + 1)
      <4>1. i + 1 \in Int /\ (i + 1 < j <=> i + 1 # j)
        BY <2>1
      <4> QED BY <1>4, <4>1
    <3> QED BY <1>6, <3>1, <3>2, <3>3
  <2>2. CASE ~ (i < j)
    <3>1. PICK k : k = i + 1
      OBVIOUS
    <3>a. u[i] = s[k]
      BY <1>1, <2>2, <3>1
    <3>2. u[i] = s[k] /\ k \in 1 .. Len(s) /\ k # j /\ k + 1 # j /\ k - 1 = i
      <4>1. Len(u) = Len(s) - 1 /\ Len(s) \in Nat
        BY <1>1, <1>2
      <4> QED BY <2>2, <3>1, <3>a, <4>1
    <3>3. HtAt(u, i + 1) = HtAt(s, k + 1)
      <4>1. i + 1 \in Int /\ ~ (i + 1 < j)
        BY <2>2
      <4> QED BY <1>4, <3>1, <4>1
    <3>4. HtAt(u, i - 1) = IF k - 1 = j THEN HtAt(s, j - 1) ELSE HtAt(s, k - 1)
      <4>1. i - 1 \in Int /\ (i - 1 < j <=> i = j) /\ (i - 1) + 1 = i
        BY <2>2
      <4> QED BY <1>4, <3>2, <4>1
    <3> QED BY <1>6, <3>2, <3>3, <3>4
  <2> QED BY <2>1, <2>2
<1>8. HtAt(u, 1) = HeadWithout(s, n, q)
  <2>1. HtAt(s, 1) = n <=> j = 1
    BY <1>5
  <2>2. HtAt(u, 1) = IF 1 < j THEN HtAt(s, 1) ELSE HtAt(s, 1 + 1)
    <3>1. 1 \in Int
      OBVIOUS
    <3> QED BY <1>4, <3>1
  <2> QED BY <1>3, <2>1, <2>2 DEF HeadWithout
<1> QED BY <1>7, <1>8 DEF Lined

HasInstead(u, s, o, n) == ToSet(u) = (ToSet(s) \ {o}) \cup {n}

\* n takes the place of o in the sequence s.
Exchanged(v, s, o, n) == v = [i \in DOMAIN s |-> IF s[i] = o THEN n ELSE s[i]]

LEMMA ExchangedIs ==
  ASSUME NEW T, NEW s \in Seq(T), Once(s), NEW j \in 1 .. Len(s), NEW o, o = s[j],
         NEW n \in T \ ToSet(s), NEW v, Exchanged(v, s, o, n)
  PROVE  /\ v \in Seq(T) /\ Len(v) = Len(s) /\ Once(v) /\ HasInstead(v, s, o, n)
         /\ \A i \in 1 .. Len(s) : v[i] = IF i = j THEN n ELSE s[i]
<1>1. /\ Len(s) \in Nat /\ DOMAIN s = 1 .. Len(s)
      /\ \A i \in 1 .. Len(s) : s[i] \in T
      /\ \A i, k \in 1 .. Len(s) : s[i] = s[k] => i = k
  BY DEF Once
<1>2. \A x : x \in ToSet(s) <=> \E i \in 1 .. Len(s) : s[i] = x
  BY HeldIs
<1>3. v \in Seq(T) /\ Len(v) = Len(s)
  BY <1>1 DEF Exchanged
<1>4. \A i \in 1 .. Len(s) : v[i] = IF i = j THEN n ELSE s[i]
  BY <1>1 DEF Exchanged
<1>5. \A i \in 1 .. Len(s) : s[i] # n
  BY <1>2
<1>6. Once(v)
  BY <1>1, <1>3, <1>4, <1>5 DEF Once
<1>7. \A x : x \in ToSet(v) <=> \E i \in 1 .. Len(s) : v[i] = x
  <2>1. \A x : x \in ToSet(v) <=> \E i \in 1 .. Len(v) : v[i] = x
    BY ONLY <1>3, HeldIs
  <2> QED BY <1>3, <2>1
<1>8. ASSUME NEW x \in ToSet(v) PROVE x = n \/ (x \in ToSet(s) /\ x # o)
  <2>1. PICK i \in 1 .. Len(s) : v[i] = x
    BY <1>7
  <2>2. CASE i = j
    BY <1>4, <2>1, <2>2
  <2>3. CASE i # j
    <3>1. x = s[i] /\ x # s[j]
      BY <1>1, <1>4, <2>1, <2>3
    <3> QED BY <1>2, <3>1
  <2> QED BY <2>2, <2>3
<1>9. n \in ToSet(v)
  BY <1>4, <1>7
<1>10. ASSUME NEW x \in ToSet(s), x # o PROVE x \in ToSet(v)
  <2>1. PICK i \in 1 .. Len(s) : s[i] = x
    BY <1>2
  <2>2. v[i] = x
    BY <1>4, <1>10, <2>1
  <2> QED BY <1>7, <2>2
<1>11. HasInstead(v, s, o, n)
  BY <1>8, <1>9, <1>10 DEF HasInstead
<1> QED BY <1>3, <1>4, <1>6, <1>11

HeadFor(s, o, n, p) == IF p[o] = HtNull THEN n ELSE HtAt(s, 1)

BeginsWith(u, s, o, n, p) == HtAt(u, 1) = HeadFor(s, o, n, p)

LEMMA LinedReplace ==
  ASSUME HtAssumption, NEW s \in Seq(HtNode), Once(s), NEW j \in 1 .. Len(s), NEW o, o = s[j],
         NEW n \in HtNode \ ToSet(s), NEW p, NEW q, Lined(p, q, s),
         NEW u, Exchanged(u, s, o, n),
         NEW p2, NEW q2, Swapped(p, q, o, n, p2, q2)
  PROVE  /\ u \in Seq(HtNode) /\ Len(u) = Len(s) /\ Once(u)
         /\ HasInstead(u, s, o, n)
         /\ Lined(p2, q2, u) /\ BeginsWith(u, s, o, n, p)
<1>1. /\ Len(s) \in Nat /\ HtNull \notin HtNode /\ DOMAIN s = 1 .. Len(s)
      /\ \A i \in 1 .. Len(s) : s[i] \in HtNode
      /\ \A i, k \in 1 .. Len(s) : s[i] = s[k] => i = k
  BY DEF Once, HtAssumption
<1>2. \A x : x \in ToSet(s) <=> \E i \in 1 .. Len(s) : s[i] = x
  BY HeldIs
<1>3. /\ u \in Seq(HtNode) /\ Len(u) = Len(s) /\ Once(u)
      /\ \A i \in 1 .. Len(s) : u[i] = IF i = j THEN n ELSE s[i]
  BY ExchangedIs
<1>4. \A i \in 1 .. Len(s) : s[i] # n
  BY <1>2
<1>6. HasInstead(u, s, o, n)
  BY ExchangedIs
<1>7. /\ q[o] = HtAt(s, j + 1) /\ p[o] = HtAt(s, j - 1)
  BY DEF Lined
<1>8. \A i \in Int : HtAt(u, i) = IF i = j THEN n ELSE HtAt(s, i)
  BY <1>1, <1>3 DEF HtAt
<1>9. \A i \in 1 .. Len(s), k \in Int : s[i] = HtAt(s, k) <=> i = k
  BY <1>1 DEF HtAt
<1>10. ASSUME NEW i \in 1 .. Len(s) PROVE q2[u[i]] = HtAt(u, i + 1) /\ p2[u[i]] = HtAt(u, i - 1)
  <2>0. HtAt(u, i + 1) = (IF i + 1 = j THEN n ELSE HtAt(s, i + 1))
        /\ HtAt(u, i - 1) = (IF i - 1 = j THEN n ELSE HtAt(s, i - 1))
    <3>1. i + 1 \in Int /\ i - 1 \in Int
      OBVIOUS
    <3> QED BY <1>8, <3>1
  <2>1. CASE i = j
    <3>1. u[i] = n /\ q2[n] = q[o] /\ p2[n] = p[o] /\ i + 1 # j /\ i - 1 # j
      BY <1>3, <2>1 DEF Swapped
    <3> QED BY <1>7, <2>0, <2>1, <3>1
  <2>2. CASE i # j
    <3>1. u[i] = s[i] /\ s[i] # n /\ s[i] \in HtNode
      BY <1>1, <1>3, <1>4, <2>2
    <3>2. q[s[i]] = HtAt(s, i + 1) /\ p[s[i]] = HtAt(s, i - 1)
      BY DEF Lined
    <3>3. /\ q2[s[i]] = (IF s[i] = p[o] THEN n ELSE q[s[i]])
          /\ p2[s[i]] = (IF s[i] = q[o] THEN n ELSE p[s[i]])
      BY <3>1 DEF Swapped
    <3>4. (s[i] = p[o] <=> i + 1 = j) /\ (s[i] = q[o] <=> i - 1 = j)
      <4>1. j - 1 \in Int /\ j + 1 \in Int /\ (i = j - 1 <=> i + 1 = j) /\ (i = j + 1 <=> i - 1 = j)
        OBVIOUS
      <4> QED BY <1>7, <1>9, <4>1
    <3> QED BY <2>0, <3>1, <3>2, <3>3, <3>4
  <2> QED BY <2>1, <2>2
<1>11. BeginsWith(u, s, o, n, p)
  <2>1. p[o] = HtNull <=> j = 1
    BY <1>1, <1>7 DEF HtAt
  <2>2. HtAt(u, 1) = IF 1 = j THEN n ELSE HtAt(s, 1)
    BY <1>8
  <2> QED BY <2>1, <2>2 DEF HeadFor, BeginsWith
<1>12. Lined(p2, q2, u)
  BY <1>3, <1>10 DEF Lined
<1> QED BY <1>3, <1>6, <1>11, <1>12

-----------------------------------------------------------------------------
(* A rehash. *)

MovedStep(s, size, w, o, i) ==
  IF i = 0 THEN [t |-> s.t, tb |-> InitTable(size), l |-> s.l] ELSE Moved(o[i - 1], w[i])

MovedFcn(s, size, w) == CHOOSE o : o = [i \in 0 .. Len(w) |-> MovedStep(s, size, w, o, i)]

\* The recursive function there is in Rehashed exists.
LEMMA RehashedIs ==
  ASSUME NEW s, NEW size, NEW w, w = WalkFrom(s.t.head, s.l.eleNext), Len(w) \in Nat
  PROVE  /\ \A i \in 0 .. Len(w) : MovedFcn(s, size, w)[i] = MovedStep(s, size, w, MovedFcn(s, size, w), i)
         /\ Rehashed(s, size) =
              LET m == MovedFcn(s, size, w)[Len(w)] IN [t |-> [m.t EXCEPT !.buckets = m.tb.buckets], l |-> m.l]
<1> DEFINE St(o, i) == MovedStep(s, size, w, o, i)
<1> DEFINE G == {m \in Nat : \E o : o = [i \in 0 .. m |-> St(o, i)]}
<1>1. 0 \in G
  <2> DEFINE o == [i \in 0 .. 0 |-> [t |-> s.t, tb |-> InitTable(size), l |-> s.l]]
  <2>1. o = [i \in 0 .. 0 |-> St(o, i)]
    BY DEF MovedStep
  <2> HIDE DEF o
  <2> QED BY <2>1
<1>2. ASSUME NEW m \in G \cap Nat PROVE m + 1 \in G
  <2>1. PICK o : o = [i \in 0 .. m |-> St(o, i)]
    OBVIOUS
  <2> DEFINE p == [i \in 0 .. m + 1 |-> IF i = m + 1 THEN St(o, m + 1) ELSE o[i]]
  <2>2. \A i \in 0 .. m + 1 : St(p, i) = p[i]
    <3> SUFFICES ASSUME NEW i \in 0 .. m + 1 PROVE St(p, i) = p[i]
      OBVIOUS
    <3>1. i # 0 => p[i - 1] = o[i - 1]
      OBVIOUS
    <3>2. CASE i = m + 1
      BY <3>1, <3>2 DEF MovedStep
    <3>3. CASE i # m + 1
      <4>1. p[i] = o[i] /\ i \in 0 .. m
        BY <3>3
      <4>2. o[i] = St(o, i)
        BY <2>1, <4>1
      <4> QED BY <3>1, <4>1, <4>2 DEF MovedStep
    <3> QED BY <3>2, <3>3
  <2>3. p = [i \in 0 .. m + 1 |-> St(p, i)]
    BY <2>2
  <2> HIDE DEF p
  <2> QED BY <2>3
<1> HIDE DEF G
<1>3. Nat \subseteq G
  BY <1>1, <1>2, NatSetInduction
<1>4. \E o : o = [i \in 0 .. Len(w) |-> St(o, i)]
  BY <1>3 DEF G
<1>5. MovedFcn(s, size, w) = [i \in 0 .. Len(w) |-> MovedStep(s, size, w, MovedFcn(s, size, w), i)]
  BY <1>4 DEF MovedFcn
<1>6. Rehashed(s, size) =
        LET m == MovedFcn(s, size, w)[Len(w)] IN [t |-> [m.t EXCEPT !.buckets = m.tb.buckets], l |-> m.l]
  BY DEF Rehashed, MovedFcn, MovedStep
<1> QED BY <1>5, <1>6

LEMMA InitHolds ==
  ASSUME HtAssumption, NEW size \in HtSizes, NEW l
  PROVE  Holds(InitTable(size), l, {})
<1>1. PICK t : t = InitTable(size)
  OBVIOUS
<1>2. t = [buckets |-> [b \in 0 .. size - 1 |-> HtNull], head |-> HtNull, count |-> 0]
  BY <1>1 DEF InitTable
<1>3. HtWord \in Nat /\ HtWord > 0
  <2>1. Cardinality(HtNode) \in Nat
    BY FS_CardinalityType DEF HtAssumption
  <2> QED BY <2>1 DEF HtAssumption
<1>4. Sized(t, size)
  BY <1>2, <1>3 DEF Sized, NodeOrNone
<1>5. PICK r \in Ranks : TRUE
  <2>1. [n \in HtNode |-> 0] \in Ranks
    BY DEF Ranks
  <2> QED BY <2>1
<1>6. Placed(t, l, {}, size, r)
  BY <1>2 DEF Placed, Double, Bucketed, Alike
<1>7. Ordered(t, l, {}, r)
  BY <1>2 DEF Ordered, Double, Headed
<1> QED BY <1>1, <1>4, <1>6, <1>7 DEF Holds

Firsts(w, i) == {w[j] : j \in 1 .. i}

\* After i elements have been moved.
Moving(m, l, w, M, i) ==
  /\ LinksTyped(m.l)
  /\ Holds(m.t, m.l, M \ Firsts(w, i)) /\ Holds(m.tb, m.l, Firsts(w, i))
  /\ m.t.head = HtAt(w, i + 1)
  /\ \A j \in 1 .. Len(w) : i < j => m.l.eleNext[w[j]] = HtAt(w, j + 1)
  /\ SameLinks(l, m.l, HtNode \ M)

LEMMA MovedKeeps ==
  ASSUME HtAssumption, NEW M, M \subseteq HtNode, NEW w \in Seq(M), Once(w), NEW i \in Nat, i + 1 \in 1 .. Len(w),
         NEW l, NEW m, Moving(m, l, w, M, i), NEW k, k = Moved(m, w[i + 1])
  PROVE  Moving(k, l, w, M, i + 1)
<1>1. PICK n, F : n = w[i + 1] /\ F = Firsts(w, i)
  OBVIOUS
<1>2. PICK W : W = M \ F
  OBVIOUS
<1>3. /\ Len(w) \in Nat /\ \A j \in 1 .. Len(w) : w[j] \in M /\ w[j] \in HtNode
      /\ \A j, h \in 1 .. Len(w) : w[j] = w[h] => j = h
  BY DEF Once
<1>4. /\ n \in W /\ n \in HtNode /\ F \subseteq M /\ n \notin F
      /\ Firsts(w, i + 1) = F \cup {n} /\ M \ (F \cup {n}) = W \ {n}
  <2>1. n \in M /\ n \in HtNode
    BY <1>1, <1>3
  <2>2. F \subseteq M
    BY <1>1, <1>3 DEF Firsts
  <2>3. n \notin F
    BY <1>1, <1>3 DEF Firsts
  <2>4. Firsts(w, i + 1) = F \cup {n}
    <3>1. \A j \in 1 .. i + 1 : j \in 1 .. i \/ j = i + 1
      OBVIOUS
    <3>2. i + 1 \in 1 .. i + 1 /\ \A j \in 1 .. i : j \in 1 .. i + 1
      OBVIOUS
    <3> QED BY <1>1, <3>1, <3>2 DEF Firsts
  <2> QED BY <1>2, <2>1, <2>2, <2>3, <2>4
<1>5. /\ LinksTyped(m.l) /\ Holds(m.t, m.l, W) /\ Holds(m.tb, m.l, F)
      /\ m.t.head = HtAt(w, i + 1)
      /\ SameLinks(l, m.l, HtNode \ M)
  BY <1>1, <1>2 DEF Moving
<1>6. \A j \in 1 .. Len(w) : i < j => m.l.eleNext[w[j]] = HtAt(w, j + 1)
  BY DEF Moving
<1>7. m.t.head = n
  BY <1>1, <1>5 DEF HtAt
<1>8. PICK out : out = Removed([t |-> m.t, l |-> m.l], n)
  OBVIOUS
<1>9. PICK in : in = Inserted([t |-> m.tb, l |-> out.l], n)
  OBVIOUS
<1>10. k.t = out.t /\ k.tb = in.t /\ k.l = in.l
  BY <1>1, <1>8, <1>9 DEF Moved
<1>11. PICK mt, ml, mb : mt = m.t /\ ml = m.l /\ mb = m.tb
  OBVIOUS
<1>12. LinksTyped(ml) /\ Holds(mt, ml, W) /\ Holds(mb, ml, F)
  BY <1>5, <1>11
<1>13. /\ LinksTyped(out.l) /\ Holds(out.t, out.l, W \ {n})
       /\ SameLinks(ml, out.l, HtNode \ (W \ {n}))
       /\ Shorter(mt, ml, n, out.t)
       /\ Skips(ml, n, out.l)
  <2>1. out = Removed([t |-> mt, l |-> ml], n)
    BY <1>8, <1>11
  <2>a. n \in W
    BY <1>4
  <2>2. LinksTyped(out.l) /\ Holds(out.t, out.l, W \ {n})
    BY <1>12, <2>1, <2>a, RemovedHolds
  <2>3. SameLinks(ml, out.l, HtNode \ (W \ {n}))
    BY ONLY HtAssumption, <1>12, <2>1, <2>a, RemovedHolds
  <2>4. Shorter(mt, ml, n, out.t)
    BY ONLY HtAssumption, <1>12, <2>1, <2>a, RemovedHolds
  <2>5. Skips(ml, n, out.l)
    BY ONLY HtAssumption, <1>12, <2>1, <2>a, RemovedHolds
  <2> QED BY <2>2, <2>3, <2>4, <2>5
<1>14. PICK ol : ol = out.l
  OBVIOUS
<1>15. LinksTyped(ol) /\ Holds(mb, ol, F)
  <2>1. F \subseteq HtNode \ (W \ {n})
    BY <1>2, <1>3, <1>4
  <2>2. SameLinks(ml, ol, F)
    BY <1>13, <1>14, <2>1, SameLinksOn
  <2> QED BY <1>12, <1>13, <1>14, <2>2, HoldsAlike
<1>16. /\ LinksTyped(in.l) /\ Holds(in.t, in.l, F \cup {n})
       /\ SameLinks(ol, in.l, HtNode \ (F \cup {n}))
  <2>1. in = Inserted([t |-> mb, l |-> ol], n) /\ n \in HtNode \ F
    BY <1>4, <1>9, <1>11, <1>14
  <2> QED BY <1>15, <2>1, InsertedHolds
<1>17. Holds(out.t, in.l, W \ {n})
  <2>1. W \ {n} \subseteq HtNode \ (F \cup {n})
    BY <1>2
  <2>2. SameLinks(ol, in.l, W \ {n})
    BY <1>16, <2>1, SameLinksOn
  <2> QED BY <1>13, <1>14, <2>2, HoldsAlike
<1>18. k.t.head = HtAt(w, (i + 1) + 1)
  <2>1. ml.eleNext[n] = HtAt(w, (i + 1) + 1)
    BY <1>1, <1>6, <1>11
  <2> QED BY <1>7, <1>10, <1>11, <1>13, <2>1 DEF Shorter, HeadAfter
<1>19. ml.elePrev[n] = HtNull
  <2>1. PICK e \in Ranks : Ordered(mt, ml, W, e)
    BY <1>12 DEF Holds
  <2> QED BY <1>4, <1>7, <1>11, <2>1 DEF Ordered, Headed, HtAssumption
<1>20. ASSUME NEW j \in 1 .. Len(w), i + 1 < j PROVE k.l.eleNext[w[j]] = HtAt(w, j + 1)
  <2>1. w[j] \in HtNode /\ w[j] \notin F \cup {n} /\ w[j] # HtNull
    <3>1. w[j] # n
      BY <1>1, <1>3, <1>20
    <3>2. w[j] \notin F
      <4> SUFFICES ASSUME w[j] \in F PROVE FALSE
        OBVIOUS
      <4>1. PICK h \in 1 .. i : w[j] = w[h]
        BY <1>1 DEF Firsts
      <4>2. h \in 1 .. Len(w)
        BY <1>3
      <4> QED BY <1>3, <1>20, <4>1, <4>2
    <3> QED BY <1>3, <3>1, <3>2 DEF HtAssumption
  <2>2. in.l.eleNext[w[j]] = ol.eleNext[w[j]]
    BY <1>16, <2>1 DEF SameLinks, Alike
  <2>3. out.l.eleNext[w[j]] = ml.eleNext[w[j]]
    BY <1>13, <1>19, <2>1 DEF Skips, Sets
  <2>4. i < j
    BY <1>20
  <2> QED BY <1>6, <1>10, <1>11, <1>14, <2>2, <2>3, <2>4
<1>21. SameLinks(l, k.l, HtNode \ M)
  <2>1. HtNode \ M \subseteq HtNode \ (W \ {n}) /\ HtNode \ M \subseteq HtNode \ (F \cup {n})
    BY <1>2, <1>4
  <2>2. SameLinks(ml, ol, HtNode \ M)
    BY <1>13, <1>14, <2>1, SameLinksOn
  <2>3. SameLinks(ol, in.l, HtNode \ M)
    BY <1>16, <2>1, SameLinksOn
  <2> QED BY <1>5, <1>10, <1>11, <2>2, <2>3 DEF SameLinks, Alike
<1> QED BY <1>4, <1>10, <1>16, <1>17, <1>18, <1>20, <1>21 DEF Moving

\* Where the elements lead from the head.
LEMMA ElementsWalk ==
  ASSUME HtAssumption, NEW t, NEW l, NEW M, Holds(t, l, M)
  PROVE  \E w \in Seq(M) : Leads(t.head, l.eleNext, w)
<1>1. PICK e \in Ranks : Ordered(t, l, M, e)
  BY DEF Holds
<1>2. M \subseteq HtNode
  BY DEF Holds
<1>3. PICK q, hd : q = l.eleNext /\ hd = t.head
  OBVIOUS
<1>4. \A n \in M : e[n] \in Int /\ (q[n] = HtNull \/ (q[n] \in M /\ e[n] < e[q[n]]))
  BY <1>1, <1>3 DEF Ordered, Double
<1>5. hd \in M \cup {HtNull}
  BY <1>1, <1>3 DEF Ordered, Headed
<1>6. \E w \in Seq(M) : Leads(hd, q, w)
  BY <1>2, <1>4, <1>5, WalkEnds
<1> QED BY <1>3, <1>6

StaysEmpty(t, u) == u.head = HtNull /\ u.count = t.count

LEMMA RehashedHolds ==
  ASSUME HtAssumption, NEW t, NEW l, NEW M, LinksTyped(l), Holds(t, l, M), NEW size \in HtSizes,
         NEW w \in Seq(M), Leads(t.head, l.eleNext, w),
         NEW s, s = Rehashed([t |-> t, l |-> l], size)
  PROVE  /\ LinksTyped(s.l) /\ Holds(s.t, s.l, ToSet(w))
         /\ SameLinks(l, s.l, HtNode \ M)
         /\ w = <<>> => StaysEmpty(t, s.t)
<1>1. PICK u : u = [t |-> t, l |-> l]
  OBVIOUS
<1>2. u.t = t /\ u.l = l
  BY <1>1
<1>3. /\ Len(w) \in Nat /\ Once(w) /\ t.head = HtAt(w, 1) /\ M \subseteq HtNode
      /\ \A i \in 1 .. Len(w) : l.eleNext[w[i]] = HtAt(w, i + 1)
  BY DEF Leads, Holds
<1>4. WalkFrom(u.t.head, u.l.eleNext) = w
  <2>1. WalkFrom(t.head, l.eleNext) = w
    BY WalkIs
  <2> QED BY <1>2, <2>1
<1>5. PICK f : f = MovedFcn(u, size, w)
  OBVIOUS
<1>6. /\ \A i \in 0 .. Len(w) : f[i] = MovedStep(u, size, w, f, i)
      /\ s = [t |-> [f[Len(w)].t EXCEPT !.buckets = f[Len(w)].tb.buckets], l |-> f[Len(w)].l]
  <2>1. /\ \A i \in 0 .. Len(w) : MovedFcn(u, size, w)[i] = MovedStep(u, size, w, MovedFcn(u, size, w), i)
        /\ Rehashed(u, size) =
             LET m == MovedFcn(u, size, w)[Len(w)] IN [t |-> [m.t EXCEPT !.buckets = m.tb.buckets], l |-> m.l]
    BY <1>3, <1>4, RehashedIs
  <2> QED BY <1>1, <1>5, <2>1
<1>7. f[0] = [t |-> t, tb |-> InitTable(size), l |-> l]
  <2>1. 0 \in 0 .. Len(w)
    BY <1>3
  <2> QED BY <1>2, <1>6, <2>1 DEF MovedStep
<1>8. Moving(f[0], l, w, M, 0)
  <2>1. PICK m : m = f[0]
    OBVIOUS
  <2>2. m.t = t /\ m.tb = InitTable(size) /\ m.l = l
    BY <1>7, <2>1
  <2>3. PICK F : F = Firsts(w, 0)
    OBVIOUS
  <2>4. F = {} /\ M \ F = M
    BY <2>3 DEF Firsts
  <2>5. Holds(m.tb, m.l, {})
    BY <2>2, InitHolds
  <2>6. Holds(m.t, m.l, M) /\ LinksTyped(m.l)
    BY <2>2
  <2>7. SameLinks(l, m.l, HtNode \ M)
    BY <2>2 DEF SameLinks, Alike
  <2>8. m.t.head = HtAt(w, 0 + 1) /\ \A j \in 1 .. Len(w) : 0 < j => m.l.eleNext[w[j]] = HtAt(w, j + 1)
    BY <1>3, <2>2
  <2> QED BY <2>1, <2>3, <2>4, <2>5, <2>6, <2>7, <2>8 DEF Moving
<1>9. \A i \in Nat : i <= Len(w) => Moving(f[i], l, w, M, i)
  <2> DEFINE G == {i \in Nat : i <= Len(w) => Moving(f[i], l, w, M, i)}
  <2>1. 0 \in G
    BY <1>8
  <2>2. ASSUME NEW i \in G \cap Nat PROVE i + 1 \in G
    <3>1. SUFFICES ASSUME i + 1 <= Len(w) PROVE Moving(f[i + 1], l, w, M, i + 1)
      OBVIOUS
    <3>2. i + 1 \in 1 .. Len(w) /\ i + 1 \in 0 .. Len(w) /\ i + 1 # 0 /\ (i + 1) - 1 = i /\ i <= Len(w)
      BY <1>3, <3>1
    <3>3. PICK m, k : m = f[i] /\ k = f[i + 1]
      OBVIOUS
    <3>4. Moving(m, l, w, M, i)
      BY <3>2, <3>3
    <3>5. k = Moved(m, w[i + 1])
      <4>1. f[i + 1] = MovedStep(u, size, w, f, i + 1)
        BY <1>6, <3>2
      <4> QED BY <3>2, <3>3, <4>1 DEF MovedStep
    <3>6. Moving(k, l, w, M, i + 1)
      BY <1>3, <3>2, <3>4, <3>5, MovedKeeps
    <3> QED BY <3>3, <3>6
  <2> HIDE DEF G
  <2>3. Nat \subseteq G
    BY <2>1, <2>2, NatSetInduction
  <2> QED BY <2>3 DEF G
<1>10. PICK m : m = f[Len(w)]
  OBVIOUS
<1>11. Moving(m, l, w, M, Len(w))
  BY <1>3, <1>9, <1>10
<1>12. s.l = m.l /\ s.t = [m.t EXCEPT !.buckets = m.tb.buckets]
  BY <1>6, <1>10
<1>13. Firsts(w, Len(w)) = ToSet(w)
  <2>1. \A x : x \in ToSet(w) <=> \E i \in 1 .. Len(w) : w[i] = x
    BY HeldIs
  <2> QED BY <2>1 DEF Firsts
<1>14. LinksTyped(s.l) /\ SameLinks(l, s.l, HtNode \ M) /\ m.t.head = HtNull
  <2>1. Len(w) + 1 \notin 1 .. Len(w)
    BY <1>3
  <2> QED BY <1>11, <1>12, <2>1 DEF Moving, HtAt
<1>15. PICK W : W = ToSet(w)
  OBVIOUS
<1>16. Holds(m.tb, m.l, W) /\ \E V : Holds(m.t, m.l, V)
  BY <1>11, <1>13, <1>15 DEF Moving
<1>17. PICK z \in HtSizes, r \in Ranks : Sized(m.tb, z) /\ Placed(m.tb, m.l, W, z, r)
  BY <1>16 DEF Holds
<1>18. PICK e \in Ranks : Ordered(m.tb, m.l, W, e)
  BY <1>16 DEF Holds
<1>19. PICK y \in HtSizes : Sized(m.t, y)
  BY <1>16 DEF Holds
<1>20. s.t = [buckets |-> m.tb.buckets, head |-> m.t.head, count |-> m.t.count]
  BY <1>12, <1>19 DEF Sized
<1>21. Sized(s.t, z)
  BY <1>17, <1>19, <1>20 DEF Sized
<1>22. Placed(s.t, s.l, W, z, r)
  BY <1>12, <1>17, <1>20 DEF Placed
<1>23. Ordered(s.t, s.l, W, e)
  BY <1>12, <1>14, <1>18, <1>20 DEF Ordered, Headed
<1>24. Holds(s.t, s.l, W)
  BY <1>16, <1>21, <1>22, <1>23 DEF Holds
<1>25. w = <<>> => StaysEmpty(t, s.t)
  <2>1. w = <<>> => Len(w) = 0
    OBVIOUS
  <2>2. w = <<>> => m.t = t
    BY <1>7, <1>10, <2>1
  <2> QED BY <1>14, <1>20, <2>2 DEF StaysEmpty
<1> QED BY <1>14, <1>15, <1>24, <1>25

-----------------------------------------------------------------------------
(* A table with what was put in it. *)

Keeps(t, l, s, k, M) ==
  /\ M \subseteq ToSet(s) /\ Holds(t, l, M)
  /\ k < 2 => M = ToSet(s)
  /\ k = 0 => Walks(t, l, s)

TableIs(t, l, s, k) == \E M : Keeps(t, l, s, k, M)

LEMMA LinedAlike ==
  ASSUME NEW s \in Seq(HtNode), NEW p, NEW q, NEW p2, NEW q2, Lined(p, q, s),
         Alike(p, p2, ToSet(s)), Alike(q, q2, ToSet(s))
  PROVE  Lined(p2, q2, s)
<1>1. \A x : x \in ToSet(s) <=> \E i \in 1 .. Len(s) : s[i] = x
  BY HeldIs
<1> QED BY <1>1 DEF Lined, Alike

LEMMA TableAlike ==
  ASSUME HtAssumption, NEW t, NEW l, NEW k, NEW s \in Seq(HtNode), NEW m,
         TableIs(t, l, s, m), SameLinks(l, k, ToSet(s))
  PROVE  TableIs(t, k, s, m)
<1>1. PICK M : /\ M \subseteq ToSet(s) /\ Holds(t, l, M)
               /\ m < 2 => M = ToSet(s)
               /\ m = 0 => Walks(t, l, s)
  BY DEF TableIs, Keeps
<1>2. Holds(t, k, M)
  <2>1. SameLinks(l, k, M)
    BY <1>1, SameLinksOn
  <2> QED BY <1>1, <2>1, HoldsAlike
<1>3. m = 0 => Walks(t, k, s)
  <2>1. Lined(l.elePrev, l.eleNext, s) => Lined(k.elePrev, k.eleNext, s)
    BY LinedAlike DEF SameLinks
  <2> QED BY <1>1, <2>1 DEF Walks
<1> QED BY <1>1, <1>2, <1>3 DEF TableIs, Keeps

LEMMA WalksLeads ==
  ASSUME NEW t, NEW l, NEW s, Walks(t, l, s)
  PROVE  Leads(t.head, l.eleNext, s)
  BY DEF Walks, Leads, Lined

LEMMA CountFits ==
  ASSUME HtAssumption, NEW s \in Seq(HtNode), Once(s)
  PROVE  Len(s) % HtWord = Len(s)
<1>1. Len(s) \in Nat /\ Len(s) <= Cardinality(HtNode) /\ Cardinality(HtNode) \in Nat
      /\ HtWord \in Nat /\ Cardinality(HtNode) < HtWord
  BY OnceShort, FS_CardinalityType DEF HtAssumption
<1>2. PICK n : n = Len(s)
  OBVIOUS
<1>3. n \in Nat /\ n < HtWord /\ HtWord \in Nat
  BY <1>1, <1>2
<1>4. n % HtWord = n
  BY ONLY <1>3
<1> QED BY <1>2, <1>4

\* A sequence of different nodes.
Lists(v) == v \in Seq(HtNode) /\ Once(v)

LEMMA InsertTable ==
  ASSUME HtAssumption, NEW t, NEW l, NEW s \in Seq(HtNode), Once(s), NEW k, LinksTyped(l),
         TableIs(t, l, s, k), NEW n \in HtNode \ ToSet(s),
         NEW u, u = Inserted([t |-> t, l |-> l], n), NEW v, v = <<n>> \o s
  PROVE  /\ LinksTyped(u.l) /\ Lists(v) /\ HasAlso(v, s, n)
         /\ TableIs(u.t, u.l, v, k)
         /\ SameLinks(l, u.l, HtNode \ (ToSet(s) \cup {n}))
<1>1. PICK M : /\ M \subseteq ToSet(s) /\ Holds(t, l, M)
               /\ k < 2 => M = ToSet(s)
               /\ k = 0 => Walks(t, l, s)
  BY DEF TableIs, Keeps
<1>2. n \in HtNode \ M
  BY <1>1
<1>3. /\ LinksTyped(u.l) /\ Holds(u.t, u.l, M \cup {n})
      /\ SameLinks(l, u.l, HtNode \ (M \cup {n}))
      /\ u.t.head = n /\ u.t.count = OneMore(t.count)
      /\ Pushed(l.elePrev, l.eleNext, t.head, n, u.l.elePrev, u.l.eleNext)
  <2>1. LinksTyped(u.l) /\ Holds(u.t, u.l, M \cup {n})
    BY <1>1, <1>2, InsertedHolds
  <2>2. SameLinks(l, u.l, HtNode \ (M \cup {n}))
    BY <1>1, <1>2, InsertedHolds
  <2>3. Longer(t, n, u.t)
    BY <1>1, <1>2, InsertedHolds
  <2>4. Pushed(l.elePrev, l.eleNext, t.head, n, u.l.elePrev, u.l.eleNext)
    BY <1>1, <1>2, InsertedHolds
  <2> QED BY <2>1, <2>2, <2>3, <2>4 DEF Longer
<1>4. HtNode \ (ToSet(s) \cup {n}) \subseteq HtNode \ (M \cup {n})
  BY <1>1
<1>5. SameLinks(l, u.l, HtNode \ (ToSet(s) \cup {n}))
  BY <1>3, <1>4, SameLinksOn
<1>6. v \in Seq(HtNode) /\ Once(v) /\ Len(v) = Len(s) + 1 /\ ToSet(v) = ToSet(s) \cup {n} /\ HtAt(v, 1) = n
  <2>1. v \in Seq(HtNode) /\ Once(v) /\ Len(v) = Len(s) + 1 /\ ToSet(v) = ToSet(s) \cup {n} /\ v[1] = n
    <3>0. v \in Seq(HtNode) /\ Once(v)
      BY FrontIs
    <3>a. HasAlso(v, s, n)
      BY FrontIs
    <3>1. ToSet(v) = ToSet(s) \cup {n}
      BY <3>a DEF HasAlso
    <3>2. Len(v) = Len(s) + 1 /\ v[1] = n
      OBVIOUS
    <3> QED BY <3>0, <3>1, <3>2
  <2>2. HtAt(v, 1) = v[1]
    BY ONLY <2>1 DEF HtAt
  <2> QED BY <2>1, <2>2
<1>7. k = 0 => Walks(u.t, u.l, v)
  <2>1. SUFFICES ASSUME k = 0 PROVE Walks(u.t, u.l, v)
    OBVIOUS
  <2>2. t.head = HtAt(s, 1) /\ t.count = Len(s) /\ Lined(l.elePrev, l.eleNext, s)
    BY <1>1, <2>1 DEF Walks
  <2>3. PICK p, q, p2, q2, hd : p = l.elePrev /\ q = l.eleNext /\ p2 = u.l.elePrev /\ q2 = u.l.eleNext /\ hd = t.head
    OBVIOUS
  <2>4. Lined(p, q, s) /\ Pushed(p, q, hd, n, p2, q2) /\ hd = HtAt(s, 1)
    BY <1>3, <2>2, <2>3
  <2>5. Lined(p2, q2, v)
    BY <2>4, LinedInsert
  <2>6. u.t.count = Len(v)
    <3>1. Len(v) % HtWord = Len(v)
      BY <1>6, CountFits
    <3> QED BY <1>3, <1>6, <2>2, <3>1 DEF OneMore
  <2> QED BY <1>3, <1>6, <2>3, <2>5, <2>6 DEF Walks
<1>8. /\ M \cup {n} \subseteq ToSet(v)
      /\ k < 2 => M \cup {n} = ToSet(v)
  BY <1>1, <1>6
<1>9. TableIs(u.t, u.l, v, k)
  BY <1>3, <1>7, <1>8 DEF TableIs, Keeps
<1>10. HasAlso(v, s, n)
  BY <1>6 DEF HasAlso
<1>11. Lists(v)
  BY <1>6 DEF Lists
<1> QED BY <1>3, <1>5, <1>9, <1>10, <1>11

LEMMA RemoveTable ==
  ASSUME HtAssumption, NEW t, NEW l, NEW s \in Seq(HtNode), Once(s), NEW k, LinksTyped(l),
         NEW M, Keeps(t, l, s, k, M),
         NEW n \in M, NEW u, u = Removed([t |-> t, l |-> l], n), NEW j, j = Wiped(u.l, n),
         NEW v, v = Only(s, HtNode \ {n})
  PROVE  /\ LinksTyped(j) /\ Lists(v)
         /\ TableIs(u.t, j, v, k)
         /\ SameLinks(l, j, HtNode \ ToSet(s))
<1>0. /\ M \subseteq ToSet(s) /\ Holds(t, l, M)
      /\ k < 2 => M = ToSet(s)
      /\ k = 0 => Walks(t, l, s)
  BY DEF Keeps
<1>1. n \in HtNode /\ n \in ToSet(s) /\ ToSet(s) \subseteq HtNode
  BY <1>0, HeldIs
<1>2. LinksTyped(u.l) /\ Holds(u.t, u.l, M \ {n})
  BY <1>0, RemovedHolds
<1>3. SameLinks(l, u.l, HtNode \ (M \ {n}))
  BY <1>0, RemovedHolds
<1>4. Shorter(t, l, n, u.t)
  BY <1>0, RemovedHolds
<1>5. Skips(l, n, u.l)
  BY <1>0, RemovedHolds
<1>6. LinksTyped(j) /\ SameLinks(u.l, j, HtNode \ {n})
  BY <1>0, <1>1, <1>2, WipedIs
<1>7. Holds(u.t, j, M \ {n})
  <2>1. M \ {n} \subseteq HtNode \ {n}
    BY <1>0, <1>1
  <2>2. SameLinks(u.l, j, M \ {n})
    BY <1>0, <1>6, <2>1, SameLinksOn
  <2> QED BY <1>2, <2>2, HoldsAlike
<1>8. SameLinks(l, j, HtNode \ ToSet(s))
  <2>1. HtNode \ ToSet(s) \subseteq HtNode \ {n} /\ HtNode \ ToSet(s) \subseteq HtNode \ (M \ {n})
    BY <1>0, <1>1
  <2>2. SameLinks(l, u.l, HtNode \ ToSet(s)) /\ SameLinks(u.l, j, HtNode \ ToSet(s))
    BY <1>0, <1>3, <1>6, <2>1, SameLinksOn
  <2> QED BY ONLY <2>2 DEF SameLinks, Alike
<1>9. PICK i \in 1 .. Len(s) : n = s[i]
  <2>1. \A x : x \in ToSet(s) <=> \E i \in 1 .. Len(s) : s[i] = x
    BY <1>0, HeldIs
  <2> QED BY <1>1, <2>1
<1>10. v \in Seq(HtNode) /\ Len(v) = Len(s) - 1 /\ Once(v) /\ ToSet(v) = ToSet(s) \ {n}
  <2>1. v \in Seq(HtNode) /\ Once(v)
    BY <1>0, <1>9, CutIs
  <2>2. ToSet(v) = ToSet(s) \ {n}
    BY <1>0, <1>9, CutIs
  <2>3. Len(v) = Len(s) - 1
    BY <1>0, <1>9, CutIs
  <2> QED BY <2>1, <2>2, <2>3
<1>11. k = 0 => Walks(u.t, j, v)
  <2>1. SUFFICES ASSUME k = 0 PROVE Walks(u.t, j, v)
    OBVIOUS
  <2>2. t.head = HtAt(s, 1) /\ t.count = Len(s) /\ Lined(l.elePrev, l.eleNext, s)
    BY <1>0, <2>1 DEF Walks
  <2>3. PICK p, q, p2, q2 : p = l.elePrev /\ q = l.eleNext /\ p2 = u.l.elePrev /\ q2 = u.l.eleNext
    OBVIOUS
  <2>4. Lined(p, q, s) /\ Sets(p, q[n], p[n], p2) /\ Sets(q, p[n], q[n], q2)
    BY <1>0, <1>5, <2>2, <2>3 DEF Skips
  <2>5. Lined(p2, q2, v)
    BY <1>0, <1>9, <2>4, LinedRemove, ZenonT(30)
  <2>6. HtAt(v, 1) = HeadWithout(s, n, q)
    BY <1>0, <1>9, <2>4, LinedRemove, ZenonT(30)
  <2>7. u.t.head = HtAt(v, 1)
    BY <1>0, <1>4, <2>2, <2>3, <2>6 DEF Shorter, HeadAfter, HeadWithout
  <2>8. u.t.count = Len(v)
    <3>1. Len(v) % HtWord = Len(v)
      BY <1>0, <1>10, CountFits
    <3> QED BY <1>4, <1>10, <2>2, <3>1 DEF Shorter, OneLess
  <2>9. Lined(j.elePrev, j.eleNext, v)
    <3>1. ToSet(v) \subseteq HtNode \ {n}
      BY <1>0, <1>1, <1>10
    <3>2. SameLinks(u.l, j, ToSet(v))
      BY <1>0, <1>6, <3>1, SameLinksOn
    <3>3. PICK p3, q3 : p3 = j.elePrev /\ q3 = j.eleNext
      OBVIOUS
    <3>4. Alike(p2, p3, ToSet(v)) /\ Alike(q2, q3, ToSet(v))
      BY <1>0, <2>3, <3>2, <3>3 DEF SameLinks
    <3>5. Lined(p3, q3, v)
      BY <1>0, <1>10, <2>5, <3>4, LinedAlike
    <3> QED BY <3>3, <3>5
  <2> QED BY <1>10, <2>7, <2>8, <2>9 DEF Walks
<1>12. /\ M \ {n} \subseteq ToSet(v)
       /\ k < 2 => M \ {n} = ToSet(v)
  BY <1>0, <1>10
<1>13. TableIs(u.t, j, v, k)
  BY <1>0, <1>7, <1>11, <1>12 DEF TableIs, Keeps
<1>14. Lists(v)
  BY <1>10 DEF Lists
<1> QED BY <1>6, <1>8, <1>13, <1>14

LEMMA ReplaceTable ==
  ASSUME HtAssumption, NEW t, NEW l, NEW s \in Seq(HtNode), Once(s), NEW k, LinksTyped(l),
         NEW M, Keeps(t, l, s, k, M),
         NEW o \in M, NEW n \in HtNode \ ToSet(s), HtKey(n) = HtKey(o),
         NEW u, u = Replaced([t |-> t, l |-> l], o, n), NEW j, j = Wiped(u.l, o),
         NEW v, Exchanged(v, s, o, n)
  PROVE  /\ LinksTyped(j) /\ Lists(v) /\ HasInstead(v, s, o, n)
         /\ TableIs(u.t, j, v, k)
         /\ SameLinks(l, j, HtNode \ (ToSet(s) \cup {n}))
<1>0. /\ M \subseteq ToSet(s) /\ Holds(t, l, M)
      /\ k < 2 => M = ToSet(s)
      /\ k = 0 => Walks(t, l, s)
  BY DEF Keeps
<1>1. o \in HtNode /\ o \in ToSet(s) /\ ToSet(s) \subseteq HtNode /\ n \in HtNode \ M /\ n # o
  BY <1>0, HeldIs
<1>2. LinksTyped(u.l) /\ Holds(u.t, u.l, (M \ {o}) \cup {n})
  BY <1>0, <1>1, ReplacedHolds
<1>3. SameLinks(l, u.l, HtNode \ (M \cup {n}))
  BY <1>0, <1>1, ReplacedHolds
<1>4. Instead(t, l, o, n, u.t)
  BY <1>0, <1>1, ReplacedHolds
<1>5. Swapped(l.elePrev, l.eleNext, o, n, u.l.elePrev, u.l.eleNext)
  BY <1>0, <1>1, ReplacedHolds
<1>6. LinksTyped(j) /\ SameLinks(u.l, j, HtNode \ {o})
  BY <1>0, <1>1, <1>2, WipedIs
<1>7. PICK W : W = (M \ {o}) \cup {n}
  OBVIOUS
<1>8. Holds(u.t, j, W)
  <2>1. W \subseteq HtNode \ {o}
    BY <1>0, <1>1, <1>7
  <2>2. SameLinks(u.l, j, W)
    BY <1>0, <1>6, <2>1, SameLinksOn
  <2> QED BY <1>2, <1>7, <2>2, HoldsAlike
<1>9. SameLinks(l, j, HtNode \ (ToSet(s) \cup {n}))
  <2>1. PICK S : S = HtNode \ (ToSet(s) \cup {n})
    OBVIOUS
  <2>2. S \subseteq HtNode \ {o} /\ S \subseteq HtNode \ (M \cup {n})
    BY <1>0, <1>1, <2>1
  <2>3. SameLinks(l, u.l, S) /\ SameLinks(u.l, j, S)
    BY <1>0, <1>3, <1>6, <2>2, SameLinksOn
  <2>4. SameLinks(l, j, S)
    BY ONLY <2>3 DEF SameLinks, Alike
  <2> QED BY <2>1, <2>4
<1>10. PICK i \in 1 .. Len(s) : o = s[i]
  <2>1. \A x : x \in ToSet(s) <=> \E i \in 1 .. Len(s) : s[i] = x
    BY <1>0, HeldIs
  <2> QED BY <1>1, <2>1
<1>11. \A p, q, p2, q2 : Lined(p, q, s) /\ Swapped(p, q, o, n, p2, q2) =>
         /\ Lined(p2, q2, v) /\ HtAt(v, 1) = HeadFor(s, o, n, p)
  <2> SUFFICES ASSUME NEW p, NEW q, NEW p2, NEW q2, Lined(p, q, s), Swapped(p, q, o, n, p2, q2)
               PROVE  Lined(p2, q2, v) /\ HtAt(v, 1) = HeadFor(s, o, n, p)
    OBVIOUS
  <2>1. Lined(p2, q2, v)
    BY <1>0, <1>10, LinedReplace, ZenonT(30)
  <2>2. BeginsWith(v, s, o, n, p)
    BY <1>0, <1>10, LinedReplace, ZenonT(30)
  <2> QED BY <2>1, <2>2 DEF BeginsWith
<1>12. v \in Seq(HtNode) /\ Len(v) = Len(s) /\ Once(v) /\ HasInstead(v, s, o, n)
  <2>1. v \in Seq(HtNode) /\ Len(v) = Len(s) /\ Once(v)
    BY <1>10, ExchangedIs
  <2>2. HasInstead(v, s, o, n)
    BY <1>10, ExchangedIs
  <2> QED BY <2>1, <2>2
<1>13. k = 0 => Walks(u.t, j, v)
  <2>1. SUFFICES ASSUME k = 0 PROVE Walks(u.t, j, v)
    OBVIOUS
  <2>2. t.head = HtAt(s, 1) /\ t.count = Len(s) /\ Lined(l.elePrev, l.eleNext, s)
    BY <1>0, <2>1 DEF Walks
  <2>3. Lined(u.l.elePrev, u.l.eleNext, v) /\ HtAt(v, 1) = HeadFor(s, o, n, l.elePrev)
    BY <1>0, <1>5, <1>11, <2>2
  <2>4. u.t.head = HtAt(v, 1) /\ u.t.count = Len(v)
    BY <1>0, <1>4, <1>12, <2>2, <2>3 DEF Instead, HeadInstead, HeadFor
  <2>5. Lined(j.elePrev, j.eleNext, v)
    <3>1. ToSet(v) \subseteq HtNode \ {o}
      BY <1>0, <1>1, <1>12 DEF HasInstead
    <3>2. SameLinks(u.l, j, ToSet(v))
      BY <1>0, <1>6, <3>1, SameLinksOn
    <3>3. PICK p2, q2, p3, q3 : p2 = u.l.elePrev /\ q2 = u.l.eleNext /\ p3 = j.elePrev /\ q3 = j.eleNext
      OBVIOUS
    <3>4. Alike(p2, p3, ToSet(v)) /\ Alike(q2, q3, ToSet(v)) /\ Lined(p2, q2, v)
      BY <1>0, <2>3, <3>2, <3>3 DEF SameLinks
    <3>5. Lined(p3, q3, v)
      BY <1>0, <1>12, <3>4, LinedAlike
    <3> QED BY <3>3, <3>5
  <2> QED BY <1>12, <2>4, <2>5 DEF Walks
<1>14. W \subseteq ToSet(v) /\ (k < 2 => W = ToSet(v))
  BY <1>0, <1>7, <1>12 DEF HasInstead
<1>15. TableIs(u.t, j, v, k)
  BY <1>0, <1>8, <1>13, <1>14 DEF TableIs, Keeps
<1>16. Lists(v)
  BY <1>12 DEF Lists
<1> QED BY <1>6, <1>9, <1>12, <1>15, <1>16

LEMMA RehashTable ==
  ASSUME HtAssumption, NEW t, NEW l, NEW s \in Seq(HtNode), Once(s), NEW k \in Nat, LinksTyped(l),
         TableIs(t, l, s, k), NEW size \in HtSizes,
         NEW u, u = Rehashed([t |-> t, l |-> l], size), NEW y, y = IF s = <<>> THEN k ELSE k + 1
  PROVE  /\ LinksTyped(u.l) /\ TableIs(u.t, u.l, s, y) /\ y \in Nat
         /\ SameLinks(l, u.l, HtNode \ ToSet(s))
<1>1. PICK M : /\ M \subseteq ToSet(s) /\ Holds(t, l, M)
               /\ k < 2 => M = ToSet(s)
               /\ k = 0 => Walks(t, l, s)
  BY DEF TableIs, Keeps
<1>2. PICK w \in Seq(M) : Leads(t.head, l.eleNext, w)
  BY <1>1, ElementsWalk
<1>3. LinksTyped(u.l) /\ Holds(u.t, u.l, ToSet(w))
  BY <1>1, <1>2, RehashedHolds
<1>4. SameLinks(l, u.l, HtNode \ M)
  BY <1>1, <1>2, RehashedHolds
<1>5. w = <<>> => StaysEmpty(t, u.t)
  BY <1>1, <1>2, RehashedHolds
<1>6. SameLinks(l, u.l, HtNode \ ToSet(s))
  <2>1. HtNode \ ToSet(s) \subseteq HtNode \ M
    BY <1>1
  <2> QED BY <1>4, <2>1, SameLinksOn
<1>7. ToSet(w) \subseteq M
  BY HeldIs
<1>8. k = 0 => w = s
  <2>1. SUFFICES ASSUME k = 0 PROVE w = s
    OBVIOUS
  <2>2. PICK q, hd : q = l.eleNext /\ hd = t.head
    OBVIOUS
  <2>3. Leads(hd, q, s) /\ Leads(hd, q, w)
    BY <1>1, <1>2, <2>1, <2>2, WalksLeads
  <2>4. WalkFrom(hd, q) = s /\ WalkFrom(hd, q) = w
    BY <2>3, WalkIs
  <2> QED BY <2>4
<1>9. y \in Nat
  OBVIOUS
<1>10. y < 2 => ToSet(w) = ToSet(s)
  <2>1. CASE s = <<>>
    <3>1. ToSet(s) = {}
      BY <2>1, HeldEmpty
    <3> QED BY <1>1, <1>7, <3>1
  <2>2. CASE s # <<>>
    BY <1>8, <2>2
  <2> QED BY <2>1, <2>2
<1>11. y = 0 => Walks(u.t, u.l, s)
  <2>1. SUFFICES ASSUME y = 0 PROVE Walks(u.t, u.l, s)
    OBVIOUS
  <2>2. k = 0 /\ s = <<>>
    BY <2>1
  <2>3. w = <<>> /\ Len(s) = 0 /\ t.count = Len(s)
    BY <1>1, <1>8, <2>2 DEF Walks
  <2>4. u.t.head = HtNull /\ u.t.count = Len(s)
    BY <1>5, <2>3 DEF StaysEmpty
  <2>5. HtAt(s, 1) = HtNull /\ Lined(u.l.elePrev, u.l.eleNext, s)
    BY <2>3 DEF HtAt, Lined
  <2> QED BY <2>4, <2>5 DEF Walks
<1>12. TableIs(u.t, u.l, s, y)
  <2>1. ToSet(w) \subseteq ToSet(s)
    BY <1>1, <1>7
  <2> QED BY <1>3, <1>10, <1>11, <2>1 DEF TableIs, Keeps
<1> QED BY <1>3, <1>6, <1>9, <1>12

-----------------------------------------------------------------------------
(* The inductive invariant: the links make of each table two lists, by     *)
(* bucket and by insertion, of what was put in it, and of nothing of       *)
(* another table.                                                          *)

InvOf(ts, l, ms, rs) ==
  /\ LinksTyped(l)
  /\ ts = [h \in HtId |-> ts[h]]
  /\ ms \in [HtId -> Seq(HtNode)] /\ rs \in [HtId -> Nat]
  /\ \A h \in HtId : Once(ms[h])
  /\ \A h, g \in HtId : h # g => Apart(ms[h], ms[g])
  /\ \A h \in HtId : TableIs(ts[h], l, ms[h], rs[h])

HtInv == InvOf(table, htLinks, members, rehashed)

\* One table changes, and no link of a node of another one.
Turns(f, h, v, g) == g = [f EXCEPT ![h] = v]
Misses(ms, h, X) == \A g \in HtId : g # h => ToSet(ms[g]) \cap X = {}

LEMMA OneTableChanges ==
  ASSUME HtAssumption, NEW ts, NEW l, NEW ms, NEW rs, InvOf(ts, l, ms, rs), NEW h \in HtId,
         NEW t, NEW k, NEW s \in Seq(HtNode), NEW r \in Nat,
         LinksTyped(k), Once(s), TableIs(t, k, s, r),
         NEW X, ToSet(s) \subseteq X, SameLinks(l, k, HtNode \ X), Misses(ms, h, X),
         NEW ts2, NEW ms2, NEW rs2, Turns(ts, h, t, ts2), Turns(ms, h, s, ms2), Turns(rs, h, r, rs2)
  PROVE  InvOf(ts2, k, ms2, rs2)
<1>0. /\ ts2 = [ts EXCEPT ![h] = t] /\ ms2 = [ms EXCEPT ![h] = s] /\ rs2 = [rs EXCEPT ![h] = r]
      /\ \A g \in HtId : g # h => ToSet(ms[g]) \cap X = {}
  BY DEF Turns, Misses
<1>1. /\ ts = [g \in HtId |-> ts[g]]
      /\ ms \in [HtId -> Seq(HtNode)] /\ rs \in [HtId -> Nat]
      /\ \A g \in HtId : Once(ms[g])
      /\ \A g, f \in HtId : g # f => Apart(ms[g], ms[f])
      /\ \A g \in HtId : TableIs(ts[g], l, ms[g], rs[g])
  BY DEF InvOf
<1>2. /\ ts2 = [g \in HtId |-> ts2[g]]
      /\ ms2 \in [HtId -> Seq(HtNode)] /\ rs2 \in [HtId -> Nat]
  BY <1>0, <1>1
<1>3. /\ ts2[h] = t /\ ms2[h] = s /\ rs2[h] = r
      /\ \A g \in HtId : g # h => ts2[g] = ts[g] /\ ms2[g] = ms[g] /\ rs2[g] = rs[g]
  BY <1>0, <1>1
<1>4. \A g \in HtId : Once(ms2[g])
  BY <1>1, <1>3
<1>5. \A g, f \in HtId : g # f => Apart(ms2[g], ms2[f])
  <2>1. \A g \in HtId : g # h => Apart(s, ms[g]) /\ Apart(ms[g], s)
    BY <1>0 DEF Apart
  <2> QED BY <1>1, <1>3, <2>1
<1>6. \A g \in HtId : TableIs(ts2[g], k, ms2[g], rs2[g])
  <2> SUFFICES ASSUME NEW g \in HtId PROVE TableIs(ts2[g], k, ms2[g], rs2[g])
    OBVIOUS
  <2>1. CASE g = h
    BY <1>3, <2>1
  <2>2. CASE g # h
    <3>1. PICK tg, mg, rg : tg = ts[g] /\ mg = ms[g] /\ rg = rs[g]
      OBVIOUS
    <3>2. TableIs(tg, l, mg, rg) /\ mg \in Seq(HtNode) /\ ToSet(mg) \cap X = {}
      BY <1>0, <1>1, <2>2, <3>1
    <3>3. ToSet(mg) \subseteq HtNode \ X
      <4>1. ToSet(mg) \subseteq HtNode
        BY <3>2, HeldIs
      <4> QED BY <3>2, <4>1
    <3>4. SameLinks(l, k, ToSet(mg))
      BY <3>3, SameLinksOn
    <3>5. TableIs(tg, k, mg, rg)
      BY <3>2, <3>4, TableAlike
    <3> QED BY <1>3, <2>2, <3>1, <3>5
  <2> QED BY <2>1, <2>2
<1> QED BY <1>2, <1>4, <1>5, <1>6 DEF InvOf

LEMMA HtInitInv ==
  HtInit => HtInv
<1> SUFFICES ASSUME HtInit PROVE HtInv
  OBVIOUS
<1>0. HtAssumption
  BY HtAssumption DEF HtAssumption
<1>1. PICK z : z = CHOOSE x \in HtSizes : \A y \in HtSizes : x <= y
  OBVIOUS
<1>2. z \in HtSizes
  <2>1. \E x \in HtSizes : \A y \in HtSizes : x <= y
    <3>1. HtSizes \subseteq Nat /\ HtSizes # {}
      BY <1>0 DEF HtAssumption
    <3> QED BY <3>1, NatMin
  <2> QED BY <1>1, <2>1
<1>3. /\ table = [h \in HtId |-> InitTable(z)]
      /\ members = [h \in HtId |-> <<>>] /\ rehashed = [h \in HtId |-> 0]
  BY <1>1 DEF HtInit
<1>4. LinksTyped(htLinks)
  BY DEF HtInit, LinksTyped, LinkFcn, NodeOrNone
<1>5. <<>> \in Seq(HtNode) /\ ToSet(<<>>) = {} /\ Once(<<>>)
  BY HeldEmpty
<1>6. TableIs(InitTable(z), htLinks, <<>>, 0)
  <2>1. PICK t, e : t = InitTable(z) /\ e = <<>>
    OBVIOUS
  <2>2. Holds(t, htLinks, {})
    BY <1>0, <1>2, <2>1, InitHolds
  <2>3. t.head = HtNull /\ t.count = 0
    BY <2>1 DEF InitTable
  <2>4. Len(e) = 0 /\ e \in Seq(HtNode) /\ Once(e) /\ ToSet(e) = {}
    BY <1>5, <2>1
  <2>5. Walks(t, htLinks, e)
    BY <2>3, <2>4 DEF Walks, HtAt, Lined
  <2>6. TableIs(t, htLinks, e, 0)
    BY <2>2, <2>4, <2>5 DEF TableIs, Keeps
  <2> QED BY <2>1, <2>6
<1>7. /\ table = [h \in HtId |-> table[h]]
      /\ members \in [HtId -> Seq(HtNode)] /\ rehashed \in [HtId -> Nat]
      /\ \A h \in HtId : Once(members[h])
      /\ \A h \in HtId : TableIs(table[h], htLinks, members[h], rehashed[h])
  BY <1>3, <1>5, <1>6
<1>8. \A h, g \in HtId : h # g => Apart(members[h], members[g])
  BY <1>3, <1>5 DEF Apart
<1> QED BY <1>4, <1>7, <1>8 DEF HtInv, InvOf

LEMMA HtInsertKeeps ==
  ASSUME HtAssumption, HtInv, NEW h \in HtId, NEW n \in HtNode, HtInsertNode(h, n)
  PROVE  HtInv'
<1>1. CASE GetNode(table[h], htLinks, HtKey(n)) = HtNull
  <2>1. /\ table' = [table EXCEPT ![h] = Inserted(State(h), n).t] /\ htLinks' = Inserted(State(h), n).l
        /\ members' = [members EXCEPT ![h] = <<n>> \o members[h]] /\ rehashed' = rehashed /\ Outside(n)
    BY <1>1 DEF HtInsertNode, Becomes, HtInv, InvOf
  <2>2. PICK t, l, s, k : t = table[h] /\ l = htLinks /\ s = members[h] /\ k = rehashed[h]
    OBVIOUS
  <2>3. PICK u, v : u = Inserted([t |-> t, l |-> l], n) /\ v = <<n>> \o s
    OBVIOUS
  <2>4. /\ LinksTyped(l) /\ s \in Seq(HtNode) /\ k \in Nat /\ Once(s) /\ TableIs(t, l, s, k)
        /\ rehashed = [rehashed EXCEPT ![h] = k]
    BY <2>2 DEF HtInv, InvOf
  <2>5. n \in HtNode \ ToSet(s)
    BY <2>1, <2>2 DEF Outside
  <2>6. LinksTyped(u.l) /\ v \in Seq(HtNode) /\ Once(v) /\ TableIs(u.t, u.l, v, k)
    <3>1. LinksTyped(u.l)
      BY <2>3, <2>4, <2>5, InsertTable
    <3>2. TableIs(u.t, u.l, v, k)
      BY <2>3, <2>4, <2>5, InsertTable
    <3>3. Lists(v)
      BY <2>3, <2>4, <2>5, InsertTable
    <3> QED BY <3>1, <3>2, <3>3 DEF Lists
  <2>7. SameLinks(l, u.l, HtNode \ (ToSet(s) \cup {n})) /\ ToSet(v) \subseteq ToSet(s) \cup {n}
    <3>1. SameLinks(l, u.l, HtNode \ (ToSet(s) \cup {n}))
      BY <2>3, <2>4, <2>5, InsertTable
    <3>2. HasAlso(v, s, n)
      BY <2>3, <2>4, <2>5, InsertTable
    <3> QED BY <3>1, <3>2 DEF HasAlso
  <2>8. PICK X : X = ToSet(s) \cup {n}
    OBVIOUS
  <2>9. Misses(members, h, X)
    BY <2>1, <2>2, <2>8 DEF HtInv, InvOf, Apart, Outside, Misses
  <2>10. /\ table' = [table EXCEPT ![h] = u.t] /\ htLinks' = u.l
         /\ members' = [members EXCEPT ![h] = v] /\ rehashed' = [rehashed EXCEPT ![h] = k]
    BY <2>1, <2>2, <2>3, <2>4 DEF State
  <2>11. InvOf(table, l, members, rehashed)
    BY <2>2 DEF HtInv
  <2>12. SameLinks(l, u.l, HtNode \ X) /\ ToSet(v) \subseteq X
    BY <2>7, <2>8
  <2>13. PICK ul, ut : ul = u.l /\ ut = u.t
    OBVIOUS
  <2>14. Turns(table, h, ut, table') /\ Turns(members, h, v, members') /\ Turns(rehashed, h, k, rehashed')
    BY <2>10, <2>13 DEF Turns
  <2>15. LinksTyped(ul) /\ TableIs(ut, ul, v, k) /\ SameLinks(l, ul, HtNode \ X)
    BY <2>6, <2>12, <2>13
  <2>16. InvOf(table', ul, members', rehashed')
    BY <2>4, <2>6, <2>9, <2>11, <2>12, <2>14, <2>15, OneTableChanges, ZenonT(30)
  <2> QED BY <2>10, <2>13, <2>16 DEF HtInv
<1>2. CASE GetNode(table[h], htLinks, HtKey(n)) # HtNull
  BY <1>2 DEF HtInsertNode, HtInv
<1> QED BY <1>1, <1>2

LEMMA HtRemoveKeeps ==
  ASSUME HtAssumption, HtInv, NEW h \in HtId, NEW k \in HtKeys, HtRemoveKey(h, k)
  PROVE  HtInv'
<1>1. PICK t, l, s, r : t = table[h] /\ l = htLinks /\ s = members[h] /\ r = rehashed[h]
  OBVIOUS
<1>2. PICK n : n = GetNode(t, l, k)
  OBVIOUS
<1>3. CASE n = HtNull
  BY <1>1, <1>2, <1>3 DEF HtRemoveKey, HtInv
<1>4. CASE n # HtNull
  <2>1. PICK u, v : u = Removed([t |-> t, l |-> l], n) /\ v = Only(s, HtNode \ {n})
    OBVIOUS
  <2>2. PICK j : j = Wiped(u.l, n)
    OBVIOUS
  <2>3. /\ LinksTyped(l) /\ s \in Seq(HtNode) /\ r \in Nat /\ Once(s) /\ TableIs(t, l, s, r)
        /\ rehashed = [rehashed EXCEPT ![h] = r]
        /\ members = [g \in HtId |-> members[g]]
    BY <1>1 DEF HtInv, InvOf
  <2>4. /\ table' = [table EXCEPT ![h] = u.t] /\ htLinks' = j
        /\ members' = [members EXCEPT ![h] = v] /\ rehashed' = [rehashed EXCEPT ![h] = r]
    <3>1. u = [t |-> u.t, l |-> u.l]
      BY <2>1 DEF Removed
    <3>2. [u EXCEPT !.l = j].t = u.t /\ [u EXCEPT !.l = j].l = j
      BY <3>1
    <3>3. n = GetNode(table[h], htLinks, k) /\ u = Removed(State(h), n) /\ [u EXCEPT !.l = Wiped(@, n)] = [u EXCEPT !.l = j]
      BY <1>1, <1>2, <2>1, <2>2, <3>1 DEF State
    <3>4. /\ Becomes(h, [u EXCEPT !.l = Wiped(@, n)])
          /\ members' = [members EXCEPT ![h] = Only(@, HtNode \ {n})] /\ rehashed' = rehashed
      BY <1>4, <3>3 DEF HtRemoveKey
    <3> QED BY <1>1, <2>1, <2>3, <3>2, <3>3, <3>4 DEF Becomes
  <2>5. PICK M : Keeps(t, l, s, r, M)
    BY <2>3 DEF TableIs
  <2>6. n \in M
    <3>1. Holds(t, l, M)
      BY <2>5 DEF Keeps
    <3> QED BY <1>2, <1>4, <3>1, GetNodeFinds
  <2>7. LinksTyped(j) /\ v \in Seq(HtNode) /\ Once(v)
    <3>1. LinksTyped(j)
      BY <2>1, <2>2, <2>3, <2>5, <2>6, RemoveTable, ZenonT(30)
    <3>2. Lists(v)
      BY <2>1, <2>2, <2>3, <2>5, <2>6, RemoveTable, ZenonT(30)
    <3> QED BY <3>1, <3>2 DEF Lists
  <2>8. TableIs(u.t, j, v, r)
    BY <2>1, <2>2, <2>3, <2>5, <2>6, RemoveTable
  <2>9. SameLinks(l, j, HtNode \ ToSet(s))
    BY <2>1, <2>2, <2>3, <2>5, <2>6, RemoveTable
  <2>10. ToSet(v) \subseteq ToSet(s)
    <3>1. ToSet(v) = ToSet(s) \cap (HtNode \ {n})
      BY <2>1, <2>3, OnlySet
    <3> QED BY <3>1
  <2>11. PICK X : X = ToSet(s)
    OBVIOUS
  <2>12. Misses(members, h, X)
    BY <1>1, <2>11 DEF HtInv, InvOf, Apart, Misses
  <2>13. InvOf(table, l, members, rehashed)
    BY <1>1 DEF HtInv
  <2>14. SameLinks(l, j, HtNode \ X) /\ ToSet(v) \subseteq X
    BY <2>9, <2>10, <2>11
  <2>15. PICK ut : ut = u.t
    OBVIOUS
  <2>16. Turns(table, h, ut, table') /\ Turns(members, h, v, members') /\ Turns(rehashed, h, r, rehashed')
    BY <2>4, <2>15 DEF Turns
  <2>17. TableIs(ut, j, v, r)
    BY <2>8, <2>15
  <2>18. InvOf(table', j, members', rehashed')
    BY <2>3, <2>7, <2>12, <2>13, <2>14, <2>16, <2>17, OneTableChanges, ZenonT(30)
  <2> QED BY <2>4, <2>18 DEF HtInv
<1> QED BY <1>3, <1>4

LEMMA HtReplaceKeeps ==
  ASSUME HtAssumption, HtInv, NEW h \in HtId, NEW k \in HtKeys, NEW n \in HtNode, HtReplaceNode(h, k, n)
  PROVE  HtInv'
<1>1. PICK t, l, s, r : t = table[h] /\ l = htLinks /\ s = members[h] /\ r = rehashed[h]
  OBVIOUS
<1>2. PICK o : o = GetNode(t, l, k)
  OBVIOUS
<1>3. o # HtNull /\ Outside(n) /\ HtKey(n) = k
  BY <1>1, <1>2 DEF HtReplaceNode
<1>4. PICK u, v : u = Replaced([t |-> t, l |-> l], o, n) /\ v = [i \in DOMAIN s |-> IF s[i] = o THEN n ELSE s[i]]
  OBVIOUS
<1>5. PICK j : j = Wiped(u.l, o)
  OBVIOUS
<1>6. /\ LinksTyped(l) /\ s \in Seq(HtNode) /\ r \in Nat /\ Once(s) /\ TableIs(t, l, s, r)
      /\ rehashed = [rehashed EXCEPT ![h] = r]
      /\ members = [g \in HtId |-> members[g]]
  BY <1>1 DEF HtInv, InvOf
<1>7. /\ table' = [table EXCEPT ![h] = u.t] /\ htLinks' = j
      /\ members' = [members EXCEPT ![h] = v] /\ rehashed' = [rehashed EXCEPT ![h] = r]
  <2>1. u = [t |-> u.t, l |-> u.l]
    BY <1>4 DEF Replaced
  <2>2. [u EXCEPT !.l = j].t = u.t /\ [u EXCEPT !.l = j].l = j
    BY <2>1
  <2>3. o = GetNode(table[h], htLinks, k) /\ u = Replaced(State(h), o, n) /\ [u EXCEPT !.l = Wiped(@, o)] = [u EXCEPT !.l = j]
    BY <1>1, <1>2, <1>4, <1>5, <2>1 DEF State
  <2>4. /\ Becomes(h, [u EXCEPT !.l = Wiped(@, o)])
        /\ members' = [members EXCEPT ![h] = [i \in DOMAIN @ |-> IF @[i] = o THEN n ELSE @[i]]]
        /\ rehashed' = rehashed
    BY <2>3 DEF HtReplaceNode
  <2> QED BY <1>1, <1>4, <1>6, <2>2, <2>3, <2>4 DEF Becomes
<1>8. PICK M : Keeps(t, l, s, r, M)
  BY <1>6 DEF TableIs
<1>9. o \in M /\ HtKey(n) = HtKey(o)
  <2>1. Holds(t, l, M)
    BY <1>8 DEF Keeps
  <2> QED BY <1>2, <1>3, <2>1, GetNodeFinds
<1>10. n \in HtNode \ ToSet(s)
  BY <1>1, <1>3 DEF Outside
<1>23. u = Replaced([t |-> t, l |-> l], o, n) /\ Exchanged(v, s, o, n)
  BY <1>4 DEF Exchanged
<1>11. LinksTyped(j) /\ v \in Seq(HtNode) /\ Once(v)
  <2>1. LinksTyped(j)
    BY <1>5, <1>6, <1>8, <1>9, <1>10, <1>23, ReplaceTable, ZenonT(30)
  <2>2. Lists(v)
    BY <1>5, <1>6, <1>8, <1>9, <1>10, <1>23, ReplaceTable, ZenonT(30)
  <2> QED BY <2>1, <2>2 DEF Lists
<1>12. TableIs(u.t, j, v, r)
  BY <1>5, <1>6, <1>8, <1>9, <1>10, <1>23, ReplaceTable, ZenonT(30)
<1>13. SameLinks(l, j, HtNode \ (ToSet(s) \cup {n}))
  BY <1>5, <1>6, <1>8, <1>9, <1>10, <1>23, ReplaceTable, ZenonT(30)
<1>14. HasInstead(v, s, o, n)
  BY <1>5, <1>6, <1>8, <1>9, <1>10, <1>23, ReplaceTable, ZenonT(30)
<1>15. PICK X : X = ToSet(s) \cup {n}
  OBVIOUS
<1>16. Misses(members, h, X)
  BY <1>1, <1>3, <1>15 DEF HtInv, InvOf, Apart, Outside, Misses
<1>17. InvOf(table, l, members, rehashed)
  BY <1>1 DEF HtInv
<1>18. SameLinks(l, j, HtNode \ X) /\ ToSet(v) \subseteq X
  BY <1>13, <1>14, <1>15 DEF HasInstead
<1>19. PICK ut : ut = u.t
  OBVIOUS
<1>20. Turns(table, h, ut, table') /\ Turns(members, h, v, members') /\ Turns(rehashed, h, r, rehashed')
  BY <1>7, <1>19 DEF Turns
<1>21. TableIs(ut, j, v, r)
  BY <1>12, <1>19
<1>22. InvOf(table', j, members', rehashed')
  BY <1>6, <1>11, <1>16, <1>17, <1>18, <1>20, <1>21, OneTableChanges, ZenonT(30)
<1> QED BY <1>7, <1>22 DEF HtInv

LEMMA HtRehashKeeps ==
  ASSUME HtAssumption, HtInv, NEW h \in HtId, NEW size \in HtSizes, HtRehash(h, size)
  PROVE  HtInv'
<1>1. PICK t, l, s, k : t = table[h] /\ l = htLinks /\ s = members[h] /\ k = rehashed[h]
  OBVIOUS
<1>2. PICK u, y : u = Rehashed([t |-> t, l |-> l], size) /\ y = IF s = <<>> THEN k ELSE k + 1
  OBVIOUS
<1>3. /\ LinksTyped(l) /\ s \in Seq(HtNode) /\ k \in Nat /\ Once(s) /\ TableIs(t, l, s, k)
      /\ members = [members EXCEPT ![h] = s]
      /\ rehashed = [g \in HtId |-> rehashed[g]]
  BY <1>1 DEF HtInv, InvOf
<1>4. /\ table' = [table EXCEPT ![h] = u.t] /\ htLinks' = u.l
      /\ members' = [members EXCEPT ![h] = s] /\ rehashed' = [rehashed EXCEPT ![h] = y]
  <2>1. Becomes(h, u) /\ members' = members
        /\ rehashed' = [rehashed EXCEPT ![h] = IF members[h] = <<>> THEN @ ELSE @ + 1]
    BY <1>1, <1>2 DEF HtRehash, State
  <2> QED BY <1>1, <1>2, <1>3, <2>1 DEF Becomes
<1>5. LinksTyped(u.l) /\ TableIs(u.t, u.l, s, y) /\ y \in Nat
  BY <1>2, <1>3, RehashTable, ZenonT(60)
<1>6. SameLinks(l, u.l, HtNode \ ToSet(s))
  BY <1>2, <1>3, RehashTable, ZenonT(60)
<1>7. PICK X : X = ToSet(s)
  OBVIOUS
<1>8. Misses(members, h, X)
  BY <1>1, <1>7 DEF HtInv, InvOf, Apart, Misses
<1>9. InvOf(table, l, members, rehashed)
  BY <1>1 DEF HtInv
<1>10. SameLinks(l, u.l, HtNode \ X) /\ ToSet(s) \subseteq X
  BY <1>6, <1>7
<1>11. PICK ut, ul : ut = u.t /\ ul = u.l
  OBVIOUS
<1>12. Turns(table, h, ut, table') /\ Turns(members, h, s, members') /\ Turns(rehashed, h, y, rehashed')
  BY <1>4, <1>11 DEF Turns
<1>13. LinksTyped(ul) /\ TableIs(ut, ul, s, y) /\ SameLinks(l, ul, HtNode \ X)
  BY <1>5, <1>10, <1>11
<1>14. InvOf(table', ul, members', rehashed')
  BY <1>3, <1>5, <1>8, <1>9, <1>10, <1>12, <1>13, OneTableChanges, ZenonT(30)
<1> QED BY <1>4, <1>11, <1>14 DEF HtInv

LEMMA HtSwapKeeps ==
  ASSUME HtInv, NEW one \in HtId, NEW two \in HtId \ {one}, HtSwap(one, two)
  PROVE  HtInv'
<1>1. /\ table' = [table EXCEPT ![one] = table[two], ![two] = table[one]]
      /\ members' = [members EXCEPT ![one] = members[two], ![two] = members[one]]
      /\ rehashed' = [rehashed EXCEPT ![one] = rehashed[two], ![two] = rehashed[one]]
      /\ htLinks' = htLinks
  BY DEF HtSwap
<1>2. PICK f : f = [h \in HtId |-> IF h = one THEN two ELSE IF h = two THEN one ELSE h]
  OBVIOUS
<1>3. f \in [HtId -> HtId] /\ \A h, g \in HtId : h # g => f[h] # f[g]
  BY <1>2
<1>4. /\ table = [h \in HtId |-> table[h]] /\ LinksTyped(htLinks)
      /\ members \in [HtId -> Seq(HtNode)] /\ rehashed \in [HtId -> Nat]
      /\ \A h \in HtId : Once(members[h])
      /\ \A h, g \in HtId : h # g => Apart(members[h], members[g])
      /\ \A h \in HtId : TableIs(table[h], htLinks, members[h], rehashed[h])
  BY DEF HtInv, InvOf
<1>5. \A h \in HtId : table'[h] = table[f[h]] /\ members'[h] = members[f[h]] /\ rehashed'[h] = rehashed[f[h]]
  BY <1>1, <1>2, <1>4
<1>6. /\ table' = [h \in HtId |-> table'[h]]
      /\ members' \in [HtId -> Seq(HtNode)] /\ rehashed' \in [HtId -> Nat]
  BY <1>1, <1>4
<1>7. /\ \A h \in HtId : Once(members'[h])
      /\ \A h, g \in HtId : h # g => Apart(members'[h], members'[g])
      /\ \A h \in HtId : TableIs(table'[h], htLinks', members'[h], rehashed'[h])
  BY <1>1, <1>3, <1>4, <1>5
<1> QED BY <1>1, <1>4, <1>6, <1>7 DEF HtInv, InvOf

LEMMA HtInvAgrees ==
  HtInv => HtAgrees
<1> SUFFICES ASSUME HtInv PROVE HtAgrees
  OBVIOUS
<1>0. HtAssumption
  BY HtAssumption DEF HtAssumption
<1>1. /\ LinksTyped(htLinks)
      /\ \A h \in HtId : members[h] \in Seq(HtNode) /\ rehashed[h] \in Nat
      /\ \A h \in HtId : TableIs(table[h], htLinks, members[h], rehashed[h])
  BY DEF HtInv, InvOf
<1>2. HtTypeOK
  <2>1. ASSUME NEW h \in HtId
        PROVE  /\ DOMAIN table[h].buckets \in {0 .. z - 1 : z \in HtSizes}
               /\ table[h].head \in HtNode \cup {HtNull}
               /\ table[h].count \in 0 .. HtWord - 1
    <3>1. PICK t : t = table[h]
      OBVIOUS
    <3>2. \E M : Holds(t, htLinks, M)
      BY <1>1, <3>1 DEF TableIs, Keeps
    <3>3. PICK z \in HtSizes : Sized(t, z)
      BY <3>2 DEF Holds
    <3>4. t.buckets \in [0 .. z - 1 -> NodeOrNone] /\ t.head \in NodeOrNone /\ t.count \in 0 .. HtWord - 1
      BY <3>3 DEF Sized
    <3>5. DOMAIN t.buckets \in {0 .. y - 1 : y \in HtSizes}
      BY <3>4
    <3> QED BY <3>1, <3>4, <3>5 DEF NodeOrNone
  <2>2. \A n \in HtNode : htLinks.next[n] \in HtNode \cup {HtNull}
    BY <1>1 DEF LinksTyped, LinkFcn, NodeOrNone
  <2> QED BY <2>1, <2>2 DEF HtTypeOK
<1>3. HtFinds
  <2> SUFFICES ASSUME NEW h \in HtId, rehashed[h] < 2, NEW k \in HtKeys, NEW n, n = GetNode(table[h], htLinks, k)
               PROVE  IF n = HtNull THEN \A m \in ToSet(members[h]) : HtKey(m) # k
                                    ELSE n \in ToSet(members[h]) /\ HtKey(n) = k
    BY DEF HtFinds
  <2>1. PICK M : Holds(table[h], htLinks, M) /\ M = ToSet(members[h])
    BY <1>1 DEF TableIs, Keeps
  <2>2. IF n = HtNull THEN \A m \in M : HtKey(m) # k ELSE n \in M /\ HtKey(n) = k
    BY <1>0, <2>1, GetNodeFinds
  <2> QED BY <2>1, <2>2
<1>4. HtIterates
  <2> SUFFICES ASSUME NEW h \in HtId, rehashed[h] = 0, NEW walk, walk = WalkFrom(table[h].head, htLinks.eleNext)
               PROVE  /\ walk = members[h]
                      /\ table[h].count = Len(walk)
                      /\ \A i \in DOMAIN walk :
                           htLinks.elePrev[walk[i]] = IF i = 1 THEN HtNull ELSE walk[i - 1]
    BY DEF HtIterates
  <2>1. PICK t, s : t = table[h] /\ s = members[h]
    OBVIOUS
  <2>2. Walks(t, htLinks, s)
    BY <1>1, <2>1 DEF TableIs, Keeps
  <2>3. Leads(t.head, htLinks.eleNext, s)
    BY <2>2, WalksLeads
  <2>4. walk = s
    <3>1. PICK hd, q : hd = t.head /\ q = htLinks.eleNext
      OBVIOUS
    <3>2. WalkFrom(hd, q) = s
      BY <1>0, <2>3, <3>1, WalkIs
    <3> QED BY <2>1, <3>1, <3>2
  <2>5. t.count = Len(s)
    BY <2>2 DEF Walks
  <2>6. ASSUME NEW i \in DOMAIN s PROVE htLinks.elePrev[s[i]] = IF i = 1 THEN HtNull ELSE s[i - 1]
    <3>1. s \in Seq(HtNode) /\ Len(s) \in Nat /\ i \in 1 .. Len(s)
      BY <2>2 DEF Walks
    <3>2. htLinks.elePrev[s[i]] = HtAt(s, i - 1)
      BY <2>2, <3>1 DEF Walks, Lined
    <3> QED BY <3>1, <3>2 DEF HtAt
  <2> QED BY <2>1, <2>4, <2>5, <2>6
<1> QED BY <1>2, <1>3, <1>4 DEF HtAgrees

LEMMA HtStepKeeps ==
  HtInv /\ [HtNext]_htVars => HtInv'
<1> SUFFICES ASSUME HtInv, [HtNext]_htVars PROVE HtInv'
  OBVIOUS
<1>0. HtAssumption
  BY HtAssumption DEF HtAssumption
<1>1. CASE UNCHANGED htVars
  BY <1>1 DEF htVars, HtInv
<1>2. CASE HtNext
  <2>1. PICK h \in HtId :
          \/ \E n \in HtNode : HtInsertNode(h, n)
          \/ \E k \in HtKeys : HtRemoveKey(h, k)
          \/ \E k \in HtKeys, n \in HtNode : HtReplaceNode(h, k, n)
          \/ \E size \in HtSizes : HtRehash(h, size)
          \/ \E g \in HtId \ {h} : HtSwap(h, g)
    BY <1>2 DEF HtNext
  <2>2. CASE \E n \in HtNode : HtInsertNode(h, n)
    BY <1>0, <2>2, HtInsertKeeps
  <2>3. CASE \E k \in HtKeys : HtRemoveKey(h, k)
    BY <1>0, <2>3, HtRemoveKeeps
  <2>4. CASE \E k \in HtKeys, n \in HtNode : HtReplaceNode(h, k, n)
    BY <1>0, <2>4, HtReplaceKeeps
  <2>5. CASE \E size \in HtSizes : HtRehash(h, size)
    BY <1>0, <2>5, HtRehashKeeps
  <2>6. CASE \E g \in HtId \ {h} : HtSwap(h, g)
    BY <2>6, HtSwapKeeps
  <2> QED BY <2>1, <2>2, <2>3, <2>4, <2>5, <2>6
<1> QED BY <1>1, <1>2

\* Through every order of insertions, removals, replacements, swaps and rehashes
\* of any number of tables, a search finds what was put in and not taken out,
\* until a second rehash; and until a first one walking the elements gives every
\* member once, newest first, as many as count says (hashtable.c:75-110, 205-232).
THEOREM HtIsKept == HtSpec => []HtAgrees
<1>1. HtInit => HtInv
  BY HtInitInv
<1>2. HtInv /\ [HtNext]_htVars => HtInv'
  BY HtStepKeeps
<1>3. HtInv => HtAgrees
  BY HtInvAgrees
<1> QED BY <1>1, <1>2, <1>3, PTL DEF HtSpec
=============================================================================
