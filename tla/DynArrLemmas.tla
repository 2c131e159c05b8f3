---------------------------- MODULE DynArrLemmas ----------------------------
(***************************************************************************)
(* What the operators of DynArr preserve, for every set of values: the     *)
(* facts that every module with a dynamic array in it builds on.           *)
(***************************************************************************)
EXTENDS DynArr, TLAPS

\* The elements in use were all written: what NoJunkInUse says of one array.
Filled(x) == \A i \in 0 .. x.len - 1 : x.buf[i] \in Val

\* dynarrInitZero starts from a well-formed array.
LEMMA InitZeroOK == IsDynArr(InitZero) /\ Filled(InitZero)
  BY DEF IsDynArr, InitZero, Filled

\* dynarrReserve keeps the elements and their number, whatever it is asked for.
LEMMA ReserveOK ==
  ASSUME NEW x, IsDynArr(x), NEW n \in Nat
  PROVE  /\ IsDynArr(Reserve(x, n))
         /\ Reserve(x, n).len = x.len
         /\ Reserve(x, n).cap >= n
         /\ Reserve(x, n).cap >= x.cap
         /\ \A i \in 0 .. x.cap - 1 : Reserve(x, n).buf[i] = x.buf[i]
<1>1. CASE x.cap >= n
  BY <1>1 DEF IsDynArr, Reserve
<1>2. CASE ~(x.cap >= n)
  <2> DEFINE nb == [i \in 0 .. n - 1 |-> IF i < x.cap THEN x.buf[i] ELSE Junk]
  <2>1. Reserve(x, n) = [buf |-> nb, len |-> x.len, cap |-> n]
    BY <1>2 DEF Reserve
  <2>2. /\ \A i \in 0 .. n - 1 : nb[i] \in Val \cup {Junk}
        /\ \A i \in 0 .. x.cap - 1 : nb[i] = x.buf[i]
        /\ DOMAIN nb = 0 .. n - 1
    BY <1>2 DEF IsDynArr
  <2> HIDE DEF nb
  <2> QED BY <1>2, <2>1, <2>2 DEF IsDynArr
<1> QED BY <1>1, <1>2

\* dynarrResize downwards keeps a prefix and the buffer.
LEMMA ResizeOK ==
  ASSUME NEW x, IsDynArr(x), NEW n \in 0 .. x.len
  PROVE  /\ IsDynArr(Resize(x, n))
         /\ Resize(x, n) = [buf |-> x.buf, len |-> n, cap |-> x.cap]
         /\ Filled(x) => Filled(Resize(x, n))
<1>1. Reserve(x, n) = x
  BY DEF IsDynArr, Reserve
<1>2. Resize(x, n) = [x EXCEPT !.len = n]
  BY <1>1 DEF Resize
<1>3. Resize(x, n) = [buf |-> x.buf, len |-> n, cap |-> x.cap]
  BY <1>2 DEF IsDynArr
<1> QED BY <1>3 DEF IsDynArr, Filled

\* dynarrInsert: well formed again, one element longer, never smaller.
LEMMA InsertOK ==
  ASSUME NEW x, IsDynArr(x), NEW idx \in Nat, NEW v \in Val
  PROVE  /\ IsDynArr(Insert(x, idx, v))
         /\ Insert(x, idx, v).len = x.len + 1
         /\ Insert(x, idx, v).cap >= x.cap
         /\ Filled(x) => Filled(Insert(x, idx, v))
         /\ idx = x.len => /\ Insert(x, idx, v).buf[x.len] = v
                           /\ \A i \in 0 .. x.len - 1 : Insert(x, idx, v).buf[i] = x.buf[i]
<1> DEFINE rr  == Reserve(x, x.len + 1)
           pos == IF idx < x.len THEN idx ELSE x.len
           nb  == [i \in 0 .. rr.cap - 1 |->
                     IF i = pos THEN v
                     ELSE IF pos < i /\ i <= x.len THEN x.buf[i - 1] ELSE rr.buf[i]]
<1>1. Insert(x, idx, v) = [buf |-> nb, len |-> x.len + 1, cap |-> rr.cap]
  BY DEF Insert
<1>2. x.len \in Nat /\ x.cap \in Nat /\ x.len <= x.cap /\ pos \in 0 .. x.len
  BY DEF IsDynArr
<1>3. /\ IsDynArr(rr) /\ rr.cap >= x.len + 1 /\ rr.cap >= x.cap
      /\ \A i \in 0 .. x.cap - 1 : rr.buf[i] = x.buf[i]
  <2>1. x.len + 1 \in Nat
    BY <1>2
  <2> QED BY ONLY IsDynArr(x), <2>1, ReserveOK DEF rr
<1>4. rr.cap \in Nat /\ \A i \in 0 .. rr.cap - 1 : rr.buf[i] \in Val \cup {Junk}
  BY <1>3 DEF IsDynArr
<1>5. \A i \in 0 .. x.cap - 1 : x.buf[i] \in Val \cup {Junk}
  BY DEF IsDynArr
<1> HIDE DEF rr, pos
<1>6. DOMAIN nb = 0 .. rr.cap - 1 /\ \A i \in 0 .. rr.cap - 1 : nb[i] \in Val \cup {Junk}
  BY <1>2, <1>3, <1>4, <1>5
<1>7. ASSUME Filled(x), NEW i \in 0 .. x.len PROVE nb[i] \in Val
  <2>1. i \in 0 .. rr.cap - 1
    BY <1>2, <1>3, <1>4
  <2>2. CASE i < pos
    BY <1>2, <1>3, <1>7, <2>1, <2>2 DEF Filled
  <2>3. CASE i > pos
    BY <1>2, <1>3, <1>7, <2>1, <2>3 DEF Filled
  <2> QED BY <1>2, <2>1, <2>2, <2>3
<1>8. ASSUME idx = x.len
      PROVE  nb[x.len] = v /\ \A i \in 0 .. x.len - 1 : nb[i] = x.buf[i]
  <2>1. pos = x.len
    BY <1>2, <1>8 DEF pos
  <2> QED BY <2>1, <1>2, <1>3, <1>4
<1> HIDE DEF nb
<1> QED BY <1>1, <1>2, <1>3, <1>4, <1>6, <1>7, <1>8 DEF IsDynArr, Filled

\* dynarrRemoveIdx: well formed again, in the same buffer.
LEMMA RemoveOK ==
  ASSUME NEW x, IsDynArr(x), NEW idx \in Nat
  PROVE  /\ IsDynArr(RemoveIdx(x, idx))
         /\ RemoveIdx(x, idx).cap = x.cap
         /\ Filled(x) => Filled(RemoveIdx(x, idx))
<1> DEFINE nb == [i \in 0 .. x.cap - 1 |->
                    IF idx <= i /\ i + 1 < x.len THEN x.buf[i + 1] ELSE x.buf[i]]
<1>1. CASE idx >= x.len
  BY <1>1 DEF RemoveIdx
<1>2. CASE ~(idx >= x.len)
  <2>1. RemoveIdx(x, idx) = [buf |-> nb, len |-> x.len - 1, cap |-> x.cap]
    BY <1>2 DEF RemoveIdx
  <2>2. DOMAIN nb = 0 .. x.cap - 1 /\ \A i \in 0 .. x.cap - 1 : nb[i] \in Val \cup {Junk}
    BY DEF IsDynArr
  <2>3. Filled(x) => \A i \in 0 .. x.len - 2 : nb[i] \in Val
    BY DEF IsDynArr, Filled
  <2> HIDE DEF nb
  <2> QED BY <1>2, <2>1, <2>2, <2>3 DEF IsDynArr, Filled
<1> QED BY <1>1, <1>2

\* dynarrCopyAppend: well formed again, longer by what was appended.
LEMMA CopyAppendOK ==
  ASSUME NEW x, IsDynArr(x), NEW q \in Seq(Val)
  PROVE  /\ IsDynArr(CopyAppend(x, q))
         /\ CopyAppend(x, q).len = x.len + Len(q)
         /\ CopyAppend(x, q).cap >= x.cap
         /\ Filled(x) => Filled(CopyAppend(x, q))
<1> DEFINE rr == Reserve(x, x.len + Len(q))
           nb == [i \in 0 .. rr.cap - 1 |->
                    IF x.len <= i /\ i < x.len + Len(q) THEN q[i - x.len + 1] ELSE rr.buf[i]]
<1>1. CopyAppend(x, q) = [buf |-> nb, len |-> x.len + Len(q), cap |-> rr.cap]
  BY DEF CopyAppend
<1>2. /\ x.len \in Nat /\ x.cap \in Nat /\ x.len <= x.cap /\ Len(q) \in Nat
      /\ \A k \in 1 .. Len(q) : q[k] \in Val
  BY DEF IsDynArr
<1>3. /\ IsDynArr(rr) /\ rr.cap >= x.len + Len(q) /\ rr.cap >= x.cap
      /\ \A i \in 0 .. x.cap - 1 : rr.buf[i] = x.buf[i]
  <2>1. x.len + Len(q) \in Nat
    BY <1>2
  <2> QED BY ONLY IsDynArr(x), <2>1, ReserveOK DEF rr
<1>4. rr.cap \in Nat /\ \A i \in 0 .. rr.cap - 1 : rr.buf[i] \in Val \cup {Junk}
  BY <1>3 DEF IsDynArr
<1> HIDE DEF rr
<1>5. DOMAIN nb = 0 .. rr.cap - 1 /\ \A i \in 0 .. rr.cap - 1 : nb[i] \in Val \cup {Junk}
  BY <1>2, <1>4
<1>6. ASSUME Filled(x), NEW i \in 0 .. x.len + Len(q) - 1 PROVE nb[i] \in Val
  <2>1. CASE i < x.len
    <3>1. i \in 0 .. x.len - 1 /\ i \in 0 .. x.cap - 1 /\ i \in 0 .. rr.cap - 1 /\ ~(x.len <= i)
      BY <1>2, <1>3, <1>4, <2>1
    <3> QED BY <1>3, <1>6, <3>1 DEF Filled
  <2>2. CASE x.len <= i
    <3>1. i \in 0 .. rr.cap - 1 /\ i - x.len + 1 \in 1 .. Len(q)
      BY <1>2, <1>3, <1>4, <2>2, SMTT(40)
    <3> QED BY <1>2, <2>2, <3>1
  <2> QED BY <1>2, <2>1, <2>2
<1> HIDE DEF nb
<1> QED BY <1>1, <1>2, <1>3, <1>4, <1>5, <1>6 DEF IsDynArr, Filled

\* The contents of a filled array are a list of values.
LEMMA ContentsType ==
  ASSUME NEW x, IsDynArr(x), Filled(x)
  PROVE  Contents(x) \in Seq(Val) /\ Len(Contents(x)) = x.len
<1>1. x.len \in Nat
  BY DEF IsDynArr
<1>2. \A i \in 1 .. x.len : x.buf[i - 1] \in Val
  BY <1>1 DEF Filled
<1>3. Contents(x) \in [1 .. x.len -> Val]
  BY <1>1, <1>2 DEF Contents
<1> QED BY <1>1, <1>3

=============================================================================
