--------------------------- MODULE SelectionLemmas ---------------------------
(***************************************************************************)
(* What Only selects.  The lemmas are proved by induction over the length  *)
(* of a sequence, which is stated of sets of numbers and of sequences.     *)
(***************************************************************************)
EXTENDS Selection, SequencesExt, SequenceTheorems, WellFoundedInduction, NaturalsInduction, TLAPS

-----------------------------------------------------------------------------
(* Induction over the natural numbers, for sets. *)

LEMMA NatMin ==
  ASSUME NEW S, S \subseteq Nat, S # {}
  PROVE  \E m \in S : \A y \in S : m <= y
<1> DEFINE R == {ss \in Nat \X Nat : ss[1] < ss[2]}
<1>1. IsWellFoundedOn(R, Nat)
  BY NatLessThanWellFounded DEF OpToRel
<1>2. PICK x \in S : \A y \in S : <<y, x>> \notin R
  BY <1>1, WFMin
<1>3. \A y \in S : ~ (y < x)
  <2> SUFFICES ASSUME NEW y \in S, y < x PROVE <<y, x>> \in R
    BY <1>2
  <2>1. <<y, x>>[1] = y /\ <<y, x>>[2] = x
    OBVIOUS
  <2> QED BY <2>1
<1> QED BY <1>3

LEMMA NatSetInduction ==
  ASSUME NEW S, 0 \in S, \A k \in S \cap Nat : k + 1 \in S
  PROVE  Nat \subseteq S
<1> SUFFICES ASSUME Nat \ S # {} PROVE FALSE
  OBVIOUS
<1>1. PICK m \in Nat \ S : \A y \in Nat \ S : m <= y
  <2>1. Nat \ S \subseteq Nat
    OBVIOUS
  <2> QED BY <2>1, NatMin
<1>2. m # 0 /\ m - 1 \in Nat /\ (m - 1) + 1 = m
  OBVIOUS
<1>3. m - 1 \in S \cap Nat
  BY <1>1, <1>2
<1> QED BY <1>2, <1>3

-----------------------------------------------------------------------------
(* Only. *)

OnlyStep(s, S, o, k) ==
  IF k = 0 THEN <<>>
  ELSE IF s[k] \in S THEN Append(o[k - 1], s[k]) ELSE o[k - 1]

OnlyFcn(s, S) == CHOOSE o : o = [k \in 0 .. Len(s) |-> OnlyStep(s, S, o, k)]

\* The recursive function there is in Only exists.
LEMMA OnlyIsFcn ==
  ASSUME NEW S, NEW T, NEW s \in Seq(T)
  PROVE  /\ Only(s, S) = OnlyFcn(s, S)[Len(s)]
         /\ \A k \in 0 .. Len(s) : OnlyFcn(s, S)[k] = OnlyStep(s, S, OnlyFcn(s, S), k)
<1> DEFINE G == {m \in Nat : \E o : o = [k \in 0 .. m |-> OnlyStep(s, S, o, k)]}
<1>1. 0 \in G
  <2> DEFINE o == [k \in 0 .. 0 |-> <<>>]
  <2>1. o = [k \in 0 .. 0 |-> OnlyStep(s, S, o, k)]
    BY DEF OnlyStep
  <2> HIDE DEF o
  <2> QED BY <2>1
<1>2. ASSUME NEW n_ \in G \cap Nat PROVE n_ + 1 \in G
  <2>1. PICK o : o = [k \in 0 .. n_ |-> OnlyStep(s, S, o, k)]
    OBVIOUS
  <2> DEFINE p == [k \in 0 .. n_ + 1 |-> IF k = n_ + 1 THEN OnlyStep(s, S, o, n_ + 1) ELSE o[k]]
  <2>2. \A k \in 0 .. n_ + 1 : OnlyStep(s, S, p, k) = p[k]
    <3> SUFFICES ASSUME NEW k \in 0 .. n_ + 1 PROVE OnlyStep(s, S, p, k) = p[k]
      OBVIOUS
    <3>1. k # 0 => p[k - 1] = o[k - 1]
      OBVIOUS
    <3>2. CASE k = n_ + 1
      BY <3>1, <3>2 DEF OnlyStep
    <3>3. CASE k # n_ + 1
      <4>1. p[k] = o[k] /\ k \in 0 .. n_
        BY <3>3
      <4>2. o[k] = OnlyStep(s, S, o, k)
        BY <2>1, <4>1
      <4> QED BY <3>1, <4>1, <4>2 DEF OnlyStep
    <3> QED BY <3>2, <3>3
  <2>3. p = [k \in 0 .. n_ + 1 |-> OnlyStep(s, S, p, k)]
    BY <2>2
  <2> HIDE DEF p
  <2> QED BY <2>3
<1> HIDE DEF G
<1>3. Nat \subseteq G
  BY <1>1, <1>2, NatSetInduction
<1>4. Len(s) \in Nat
  OBVIOUS
<1>5. \E o : o = [k \in 0 .. Len(s) |-> OnlyStep(s, S, o, k)]
  BY <1>3, <1>4 DEF G
<1>6. OnlyFcn(s, S) = [k \in 0 .. Len(s) |-> OnlyStep(s, S, OnlyFcn(s, S), k)]
  BY <1>5 DEF OnlyFcn
<1>7. Only(s, S) = OnlyFcn(s, S)[Len(s)]
  BY DEF Only, OnlyFcn, OnlyStep
<1> QED BY <1>6, <1>7

LEMMA OnlyEmpty ==
  ASSUME NEW S
  PROVE  Only(<<>>, S) = <<>>
<1> DEFINE e == <<>>
<1>1. e \in Seq({}) /\ Len(e) = 0 /\ 0 \in 0 .. Len(e)
  BY EmptySeq
<1> HIDE DEF e
<1>2. /\ Only(e, S) = OnlyFcn(e, S)[Len(e)]
      /\ \A k \in 0 .. Len(e) : OnlyFcn(e, S)[k] = OnlyStep(e, S, OnlyFcn(e, S), k)
  BY <1>1, OnlyIsFcn
<1>3. Only(e, S) = <<>>
  BY <1>1, <1>2 DEF OnlyStep
<1> QED BY <1>3 DEF e

LEMMA OnlyAppend ==
  ASSUME NEW S, NEW T, NEW s \in Seq(T), NEW x \in T
  PROVE  Only(Append(s, x), S) = IF x \in S THEN Append(Only(s, S), x) ELSE Only(s, S)
<1> DEFINE t == Append(s, x)
           o == OnlyFcn(s, S)
           p == OnlyFcn(t, S)
<1>1. /\ t \in Seq(T) /\ Len(t) = Len(s) + 1 /\ Len(s) \in Nat
      /\ \A k \in 1 .. Len(s) : t[k] = s[k]
      /\ t[Len(s) + 1] = x
  OBVIOUS
<1>2. /\ Only(s, S) = o[Len(s)]
      /\ \A k \in 0 .. Len(s) : o[k] = OnlyStep(s, S, o, k)
  BY OnlyIsFcn
<1>3. /\ Only(t, S) = p[Len(t)]
      /\ \A k \in 0 .. Len(t) : p[k] = OnlyStep(t, S, p, k)
  BY <1>1, OnlyIsFcn
<1> HIDE DEF t, o, p
<1> DEFINE G == {k \in Nat : k <= Len(s) => p[k] = o[k]}
<1>4. 0 \in G
  BY <1>1, <1>2, <1>3 DEF OnlyStep
<1>5. ASSUME NEW k \in G \cap Nat PROVE k + 1 \in G
  <2> SUFFICES ASSUME k + 1 <= Len(s) PROVE p[k + 1] = o[k + 1]
    OBVIOUS
  <2>1. p[k] = o[k] /\ k + 1 \in 1 .. Len(s) /\ k + 1 \in 0 .. Len(s) /\ k + 1 \in 0 .. Len(t)
        /\ k + 1 # 0 /\ (k + 1) - 1 = k
    BY <1>1
  <2>2. o[k + 1] = IF s[k + 1] \in S THEN Append(o[k], s[k + 1]) ELSE o[k]
    BY <1>2, <2>1 DEF OnlyStep
  <2>3. p[k + 1] = IF t[k + 1] \in S THEN Append(p[k], t[k + 1]) ELSE p[k]
    BY <1>3, <2>1 DEF OnlyStep
  <2> QED BY <1>1, <2>1, <2>2, <2>3
<1> HIDE DEF G
<1>6. Nat \subseteq G
  BY <1>4, <1>5, NatSetInduction
<1>7. p[Len(s)] = o[Len(s)]
  BY <1>1, <1>6 DEF G
<1>8. p[Len(t)] = IF t[Len(t)] \in S THEN Append(p[Len(t) - 1], t[Len(t)]) ELSE p[Len(t) - 1]
  BY <1>1, <1>3 DEF OnlyStep
<1>9. Only(t, S) = IF x \in S THEN Append(Only(s, S), x) ELSE Only(s, S)
  BY <1>1, <1>2, <1>3, <1>7, <1>8
<1> QED BY <1>9 DEF t

\* What holds of the empty sequence and of one more element holds of all.
LEMMA SeqSetInduction ==
  ASSUME NEW T, NEW G, <<>> \in G, \A s \in G \cap Seq(T) : \A x \in T : Append(s, x) \in G
  PROVE  Seq(T) \subseteq G
<1> DEFINE H == {n_ \in Nat : \A s \in Seq(T) : Len(s) = n_ => s \in G}
<1>1. 0 \in H
  BY EmptySeq
<1>2. ASSUME NEW k \in H \cap Nat PROVE k + 1 \in H
  <2> SUFFICES ASSUME NEW s \in Seq(T), Len(s) = k + 1 PROVE s \in G
    OBVIOUS
  <2>1. PICK t \in Seq(T), x \in T : s = Append(t, x)
    <3>1. s # <<>>
      OBVIOUS
    <3> QED BY <3>1, SequenceEmptyOrAppend
  <2>2. Len(t) = k
    BY <2>1
  <2> QED BY <2>1, <2>2
<1> HIDE DEF H
<1>3. Nat \subseteq H
  BY <1>1, <1>2, NatSetInduction
<1>4. \A s \in Seq(T) : Len(s) \in Nat
  OBVIOUS
<1> QED BY <1>3, <1>4 DEF H

LEMMA OnlyType ==
  ASSUME NEW S, NEW T, NEW s \in Seq(T)
  PROVE  Only(s, S) \in Seq(S)
<1> DEFINE G == {t \in Seq(T) : Only(t, S) \in Seq(S)}
<1>1. <<>> \in G
  BY EmptySeq, OnlyEmpty
<1>2. ASSUME NEW t \in G \cap Seq(T), NEW x \in T PROVE Append(t, x) \in G
  <2>1. Append(t, x) \in Seq(T)
    OBVIOUS
  <2>2. x \in S => Append(Only(t, S), x) \in Seq(S)
    OBVIOUS
  <2>3. Only(Append(t, x), S) \in Seq(S)
    BY <2>2, OnlyAppend, SMTT(40)
  <2> QED BY <2>1, <2>3
<1> HIDE DEF G
<1>3. Seq(T) \subseteq G
  BY <1>1, <1>2, SeqSetInduction
<1> QED BY <1>3 DEF G

LEMMA OnlyConcat ==
  ASSUME NEW S, NEW T, NEW s \in Seq(T), NEW t \in Seq(T)
  PROVE  Only(s \o t, S) = Only(s, S) \o Only(t, S)
<1> DEFINE G == {u \in Seq(T) : Only(s \o u, S) = Only(s, S) \o Only(u, S)}
<1>0. Only(s, S) \in Seq(S)
  BY OnlyType
<1>1. <<>> \in G
  <2>1. <<>> \in Seq(T) /\ s \o <<>> = s
    BY EmptySeq, ConcatEmptySeq
  <2>2. Only(s, S) \o <<>> = Only(s, S)
    BY <1>0, ConcatEmptySeq
  <2> QED BY <2>1, <2>2, OnlyEmpty
<1>2. ASSUME NEW u \in G \cap Seq(T), NEW x \in T PROVE Append(u, x) \in G
  <2>1. Append(u, x) \in Seq(T) /\ s \o u \in Seq(T) /\ Append(u, x) = u \o <<x>>
        /\ <<x>> \in Seq(T) /\ Append(s \o u, x) = (s \o u) \o <<x>>
    BY ConcatProperties, AppendIsConcat
  <2>2. s \o Append(u, x) = Append(s \o u, x)
    BY <2>1, ConcatAssociative
  <2>3. Only(s \o Append(u, x), S)
          = IF x \in S THEN Append(Only(s \o u, S), x) ELSE Only(s \o u, S)
    <3> DEFINE v == s \o u
    <3>1. v \in Seq(T)
      BY <2>1
    <3> HIDE DEF v
    <3>2. Only(Append(v, x), S) = IF x \in S THEN Append(Only(v, S), x) ELSE Only(v, S)
      BY <3>1, OnlyAppend
    <3> QED BY <2>2, <3>2 DEF v
  <2>4. Only(Append(u, x), S) = IF x \in S THEN Append(Only(u, S), x) ELSE Only(u, S)
    BY OnlyAppend
  <2>5. Only(u, S) \in Seq(S) /\ Only(s \o u, S) = Only(s, S) \o Only(u, S)
    BY OnlyType
  <2>6. ASSUME x \in S PROVE Append(Only(s, S) \o Only(u, S), x) = Only(s, S) \o Append(Only(u, S), x)
    <3> DEFINE a == Only(s, S)
               b == Only(u, S)
    <3>1. a \in Seq(S) /\ b \in Seq(S) /\ <<x>> \in Seq(S)
      BY <1>0, <2>5, <2>6
    <3> HIDE DEF a, b
    <3>2. a \o b \in Seq(S) /\ Append(a \o b, x) = (a \o b) \o <<x>> /\ Append(b, x) = b \o <<x>>
      BY <2>6, <3>1, ConcatProperties, AppendIsConcat
    <3>3. Append(a \o b, x) = a \o Append(b, x)
      BY <3>1, <3>2, ConcatAssociative, SMTT(40)
    <3> QED BY <3>3 DEF a, b
  <2>7. Only(s \o Append(u, x), S) = Only(s, S) \o Only(Append(u, x), S)
    BY <2>3, <2>4, <2>5, <2>6
  <2> QED BY <2>1, <2>7
<1> HIDE DEF G
<1>3. Seq(T) \subseteq G
  BY <1>1, <1>2, SeqSetInduction
<1> QED BY <1>3 DEF G

LEMMA OnlySingle ==
  ASSUME NEW S, NEW x
  PROVE  Only(<<x>>, S) = IF x \in S THEN <<x>> ELSE <<>>
<1> DEFINE e == <<>>
<1>1. e \in Seq({x}) /\ x \in {x} /\ Append(e, x) = <<x>>
  OBVIOUS
<1>2. Only(e, S) = <<>>
  BY OnlyEmpty
<1>3. x \in S => Append(e, x) = <<x>>
  OBVIOUS
<1> HIDE DEF e
<1>4. Only(Append(e, x), S) = IF x \in S THEN Append(Only(e, S), x) ELSE Only(e, S)
  BY <1>1, OnlyAppend
<1>5. e = <<>>
  BY DEF e
<1> QED BY <1>1, <1>2, <1>4, <1>5

\* What is in S of a sequence with one more element at an end.
LEMMA OnlyFront ==
  ASSUME NEW S, NEW T, NEW s \in Seq(T), s # <<>>
  PROVE  Only(s, S) = IF Head(s) \in S THEN <<Head(s)>> \o Only(Tail(s), S) ELSE Only(Tail(s), S)
<1>1. Head(s) \in T /\ Tail(s) \in Seq(T) /\ <<Head(s)>> \in Seq(T)
  OBVIOUS
<1>2. <<Head(s)>> \o Tail(s) = s
  BY HeadTailProperties
<1>3. Only(<<Head(s)>> \o Tail(s), S) = Only(<<Head(s)>>, S) \o Only(Tail(s), S)
  BY <1>1, OnlyConcat
<1>4. Only(<<Head(s)>>, S) = IF Head(s) \in S THEN <<Head(s)>> ELSE <<>>
  BY OnlySingle
<1>5. Only(Tail(s), S) \in Seq(S)
  BY <1>1, OnlyType
<1>6. <<>> \o Only(Tail(s), S) = Only(Tail(s), S)
  BY <1>5, ConcatEmptySeq
<1> QED BY <1>2, <1>3, <1>4, <1>6

LEMMA OnlyLen ==
  ASSUME NEW S, NEW T, NEW s \in Seq(T)
  PROVE  Len(Only(s, S)) \in Nat
<1>1. Only(s, S) \in Seq(S)
  BY OnlyType
<1> QED BY <1>1

\* All of a sequence, or nothing.
LEMMA OnlyAll ==
  ASSUME NEW S, NEW s \in Seq(S)
  PROVE  Only(s, S) = s
<1> DEFINE G == {u \in Seq(S) : Only(u, S) = u}
<1>1. <<>> \in G
  BY EmptySeq, OnlyEmpty
<1>2. ASSUME NEW u \in G \cap Seq(S), NEW x \in S PROVE Append(u, x) \in G
  <2>1. Append(u, x) \in Seq(S)
    OBVIOUS
  <2>2. Only(Append(u, x), S) = Append(Only(u, S), x)
    BY OnlyAppend
  <2> QED BY <2>1, <2>2
<1> HIDE DEF G
<1>3. Seq(S) \subseteq G
  BY <1>1, <1>2, SeqSetInduction
<1> QED BY <1>3 DEF G

LEMMA OnlyNone ==
  ASSUME NEW S, NEW T, S \cap T = {}, NEW s \in Seq(T)
  PROVE  Only(s, S) = <<>>
<1> DEFINE G == {u \in Seq(T) : Only(u, S) = <<>>}
<1>1. <<>> \in G
  BY EmptySeq, OnlyEmpty
<1>2. ASSUME NEW u \in G \cap Seq(T), NEW x \in T PROVE Append(u, x) \in G
  <2>1. Append(u, x) \in Seq(T) /\ x \notin S
    OBVIOUS
  <2>2. Only(Append(u, x), S) = Only(u, S)
    BY <2>1, OnlyAppend
  <2> QED BY <2>1, <2>2
<1> HIDE DEF G
<1>3. Seq(T) \subseteq G
  BY <1>1, <1>2, SeqSetInduction
<1> QED BY <1>3 DEF G

\* Selecting twice.
LEMMA OnlyOnly ==
  ASSUME NEW R, NEW S, NEW T, NEW s \in Seq(T)
  PROVE  Only(Only(s, S), R) = Only(s, S \cap R)
<1> DEFINE G == {u \in Seq(T) : Only(Only(u, S), R) = Only(u, S \cap R)}
<1>1. <<>> \in G
  BY EmptySeq, OnlyEmpty
<1>2. ASSUME NEW u \in G \cap Seq(T), NEW x \in T PROVE Append(u, x) \in G
  <2>1. Append(u, x) \in Seq(T)
    OBVIOUS
  <2>2. PICK o : o = Only(u, S)
    OBVIOUS
  <2>3. o \in Seq(S) /\ Only(o, R) = Only(u, S \cap R)
    BY <2>2, OnlyType
  <2>4. Only(Append(u, x), S) = IF x \in S THEN Append(o, x) ELSE o
    BY <2>2, OnlyAppend
  <2>5. Only(Append(u, x), S \cap R) = IF x \in S \cap R THEN Append(Only(o, R), x) ELSE Only(o, R)
    BY <2>3, OnlyAppend
  <2>6. ASSUME x \in S
        PROVE  Only(Append(o, x), R) = IF x \in R THEN Append(Only(o, R), x) ELSE Only(o, R)
    <3>1. o \in Seq(S) /\ x \in S
      BY <2>3, <2>6
    <3>2. \A u_ \in Seq(S) : \A y \in S :
            Only(Append(u_, y), R) = IF y \in R THEN Append(Only(u_, R), y) ELSE Only(u_, R)
      BY OnlyAppend, Zenon
    <3> QED BY ONLY <3>1, <3>2, Zenon
  <2>7. Only(Only(Append(u, x), S), R) = Only(Append(u, x), S \cap R)
    BY <2>4, <2>5, <2>6
  <2> QED BY <2>1, <2>7
<1> HIDE DEF G
<1>3. Seq(T) \subseteq G
  BY <1>1, <1>2, SeqSetInduction
<1> QED BY <1>3 DEF G
-----------------------------------------------------------------------------
(* What sequences without repetition hold. *)

Once(s) == \A i, j \in 1 .. Len(s) : s[i] = s[j] => i = j

LEMMA HeldIs ==
  ASSUME NEW T, NEW s \in Seq(T)
  PROVE  /\ ToSet(s) \subseteq T
         /\ \A x : x \in ToSet(s) <=> \E i \in 1 .. Len(s) : s[i] = x
         /\ s \in Seq(ToSet(s))
<1>1. DOMAIN s = 1 .. Len(s) /\ \A i \in 1 .. Len(s) : s[i] \in T
  OBVIOUS
<1>2. ToSet(s) = {s[i] : i \in 1 .. Len(s)}
  BY <1>1 DEF ToSet
<1>3. s \in Seq(ToSet(s))
  BY <1>2
<1> QED BY <1>1, <1>2, <1>3

LEMMA HeldEmpty == ToSet(<<>>) = {} /\ Once(<<>>) /\ \A T : <<>> \in Seq(T)
  BY EmptySeq DEF ToSet, Once

LEMMA HeldOne ==
  ASSUME NEW x
  PROVE  ToSet(<<x>>) = {x} /\ Once(<<x>>) /\ <<x>> # <<>>
BY DEF ToSet, Once

LEMMA HeldAppend ==
  ASSUME NEW T, NEW s \in Seq(T), NEW x \in T
  PROVE  /\ s \o <<x>> \in Seq(T) /\ ToSet(s \o <<x>>) = ToSet(s) \cup {x}
         /\ Append(s, x) = s \o <<x>>
         /\ Once(s) /\ x \notin ToSet(s) => Once(s \o <<x>>)
<1>1. PICK p : p = s \o <<x>>
  OBVIOUS
<1>2. /\ p \in Seq(T) /\ Len(p) = Len(s) + 1 /\ Len(s) \in Nat
      /\ \A i \in 1 .. Len(s) : p[i] = s[i]
      /\ p[Len(s) + 1] = x
  BY <1>1
<1>3. Append(s, x) = s \o <<x>>
  OBVIOUS
<1>4. \A y : y \in ToSet(s) <=> \E i \in 1 .. Len(s) : s[i] = y
  BY HeldIs
<1>5. \A y : y \in ToSet(p) <=> \E i \in 1 .. Len(s) + 1 : p[i] = y
  BY <1>2, HeldIs
<1>6. \A y : y \in ToSet(p) <=> y \in ToSet(s) \/ y = x
  BY <1>2, <1>4, <1>5
<1>7. Once(s) /\ x \notin ToSet(s) => Once(p)
  BY <1>2, <1>4 DEF Once
<1> QED BY <1>1, <1>2, <1>3, <1>6, <1>7

LEMMA HeldTail ==
  ASSUME NEW T, NEW s \in Seq(T), s # <<>>
  PROVE  /\ Tail(s) \in Seq(T) /\ Head(s) \in T /\ Head(s) \in ToSet(s)
         /\ ToSet(s) = {Head(s)} \cup ToSet(Tail(s))
         /\ Once(s) => Once(Tail(s)) /\ Head(s) \notin ToSet(Tail(s))
         /\ s = <<Head(s)>> \o Tail(s)
<1>1. PICK r : r = Tail(s)
  OBVIOUS
<1>2. /\ r \in Seq(T) /\ Len(s) \in Nat \ {0} /\ Len(r) = Len(s) - 1
      /\ \A i \in 1 .. Len(r) : r[i] = s[i + 1]
      /\ Head(s) = s[1] /\ s[1] \in T
  BY <1>1
<1>3. s = <<Head(s)>> \o Tail(s)
  BY HeadTailProperties
<1>4. \A y : y \in ToSet(s) <=> \E i \in 1 .. Len(s) : s[i] = y
  BY HeldIs
<1>5. \A y : y \in ToSet(r) <=> \E i \in 1 .. Len(r) : r[i] = y
  BY <1>2, HeldIs
<1>6. \A y : y \in ToSet(s) <=> y = s[1] \/ y \in ToSet(r)
  <2> TAKE y
  <2>1. ASSUME y \in ToSet(s), y # s[1] PROVE y \in ToSet(r)
    <3>1. PICK i \in 1 .. Len(s) : s[i] = y
      BY <1>4, <2>1
    <3>2. i # 1
      BY <2>1, <3>1
    <3>3. i - 1 \in 1 .. Len(r) /\ r[i - 1] = s[(i - 1) + 1] /\ (i - 1) + 1 = i
      BY <1>2, <3>2
    <3> QED BY <1>5, <3>1, <3>3
  <2>2. s[1] \in ToSet(s)
    BY <1>2, <1>4
  <2>3. ASSUME y \in ToSet(r) PROVE y \in ToSet(s)
    <3>1. PICK i \in 1 .. Len(r) : r[i] = y
      BY <1>5, <2>3
    <3>2. i + 1 \in 1 .. Len(s) /\ s[i + 1] = y
      BY <1>2, <3>1
    <3> QED BY <1>4, <3>2
  <2> QED BY <2>1, <2>2, <2>3
<1>7. ASSUME Once(s) PROVE Once(r) /\ s[1] \notin ToSet(r)
  <2>1. Once(r)
    BY <1>2, <1>7 DEF Once
  <2>2. \A i \in 1 .. Len(r) : r[i] # s[1]
    BY <1>2, <1>7 DEF Once
  <2> QED BY <1>5, <2>1, <2>2
<1> QED BY <1>1, <1>2, <1>3, <1>6, <1>7

LEMMA HeldBoth ==
  ASSUME NEW T, NEW s \in Seq(T), NEW t \in Seq(T)
  PROVE  s \o t \in Seq(T) /\ ToSet(s \o t) = ToSet(s) \cup ToSet(t)
<1>1. PICK p : p = s \o t
  OBVIOUS
<1>2. /\ p \in Seq(T) /\ Len(p) = Len(s) + Len(t) /\ Len(s) \in Nat /\ Len(t) \in Nat
      /\ \A i \in 1 .. Len(s) : p[i] = s[i]
      /\ \A i \in 1 .. Len(t) : p[Len(s) + i] = t[i]
  BY <1>1
<1>3. /\ \A y : y \in ToSet(s) <=> \E i \in 1 .. Len(s) : s[i] = y
      /\ \A y : y \in ToSet(t) <=> \E i \in 1 .. Len(t) : t[i] = y
      /\ \A y : y \in ToSet(p) <=> \E i \in 1 .. Len(p) : p[i] = y
  BY <1>2, HeldIs
<1>4. ASSUME NEW y PROVE y \in ToSet(p) <=> y \in ToSet(s) \/ y \in ToSet(t)
  <2>1. ASSUME y \in ToSet(p) PROVE y \in ToSet(s) \/ y \in ToSet(t)
    <3>1. PICK i \in 1 .. Len(p) : p[i] = y
      BY <1>3, <2>1
    <3>2. CASE i <= Len(s)
      BY <1>2, <1>3, <3>1, <3>2
    <3>3. CASE ~(i <= Len(s))
      <4>1. i - Len(s) \in 1 .. Len(t) /\ p[Len(s) + (i - Len(s))] = t[i - Len(s)]
              /\ Len(s) + (i - Len(s)) = i
        BY <1>2, <3>1, <3>3
      <4> QED BY <1>3, <3>1, <4>1
    <3> QED BY <3>2, <3>3
  <2>2. ASSUME y \in ToSet(s) PROVE y \in ToSet(p)
    BY <1>2, <1>3, <2>2
  <2>3. ASSUME y \in ToSet(t) PROVE y \in ToSet(p)
    <3>1. PICK i \in 1 .. Len(t) : t[i] = y
      BY <1>3, <2>3
    <3>2. Len(s) + i \in 1 .. Len(p) /\ p[Len(s) + i] = y
      BY <1>2, <3>1
    <3> QED BY <1>3, <3>2
  <2> QED BY <2>1, <2>2, <2>3
<1> QED BY <1>1, <1>2, <1>4

Groups(s, t, u) == (s \o t) \o u = s \o (t \o u)

LEMMA HeldAssoc ==
  ASSUME NEW T, NEW s \in Seq(T), NEW t \in Seq(T), NEW u \in Seq(T)
  PROVE  Groups(s, t, u)
<1>1. (s \o t) \o u = s \o (t \o u)
  BY ConcatAssociative, SMTT(30)
<1> QED BY <1>1 DEF Groups

LEMMA WithinSeq ==
  ASSUME NEW T, NEW s \in Seq(T), NEW S, ToSet(s) \subseteq S
  PROVE  s \in Seq(S)
<1>1. \A i \in 1 .. Len(s) : s[i] \in S
  BY HeldIs
<1> QED BY <1>1

Both(a, c) == a \o c
Three(a, b, c) == a \o (b \o c)
Apart(a, b) == ToSet(a) \cap ToSet(b) = {}
OnlyBut(s, S, b) == Only(s, S \ ToSet(b))

\* When b is dropped, it is missing between a and c.
LEMMA OnlyDrops ==
  ASSUME NEW S, NEW a \in Seq(S), NEW b \in Seq(S), NEW c \in Seq(S), Apart(a, b), Apart(c, b)
  PROVE  OnlyBut(Three(a, b, c), S, b) = Both(a, c)
<1>0. PICK D : D = ToSet(b)
  OBVIOUS
<1>a. ToSet(a) \cap D = {} /\ ToSet(b) \subseteq D /\ ToSet(c) \cap D = {}
  BY <1>0 DEF Apart
<1>1. a \in Seq(S \ D) /\ c \in Seq(S \ D)
  <2>1. ToSet(a) \subseteq S \ D /\ ToSet(c) \subseteq S \ D
    BY <1>a, HeldIs
  <2> QED BY <2>1, WithinSeq
<1>2. b \in Seq(D)
  BY <1>a, WithinSeq
<1>3. Only(a, S \ D) = a /\ Only(c, S \ D) = c
  BY <1>1, OnlyAll
<1>4. Only(b, S \ D) = <<>>
  <2>1. (S \ D) \cap D = {}
    OBVIOUS
  <2> QED BY <1>2, <2>1, OnlyNone
<1>5. PICK e : e = b \o c
  OBVIOUS
<1>6. e \in Seq(S)
  BY <1>5, HeldBoth
<1>7. Only(e, S \ D) = <<>> \o c
  <2>1. Only(b \o c, S \ D) = Only(b, S \ D) \o Only(c, S \ D)
    BY OnlyConcat, Zenon
  <2> QED BY ONLY <1>3, <1>4, <1>5, <2>1
<1>8. <<>> \o c = c
  BY ConcatEmptySeq
<1>9. Only(a \o e, S \ D) = Only(a, S \ D) \o Only(e, S \ D)
  BY <1>6, OnlyConcat, Zenon
<1> QED BY ONLY <1>0, <1>3, <1>5, <1>7, <1>8, <1>9 DEF Both, Three, OnlyBut

LEMMA OnlySet ==
  ASSUME NEW S, NEW T, NEW s \in Seq(T)
  PROVE  ToSet(Only(s, S)) = ToSet(s) \cap S
<1> DEFINE G == {u \in Seq(T) : ToSet(Only(u, S)) = ToSet(u) \cap S}
<1>1. <<>> \in G
  <2>1. <<>> \in Seq(T) /\ ToSet(<<>>) = {} /\ Only(<<>>, S) = <<>>
    BY HeldEmpty, OnlyEmpty
  <2> QED BY <2>1
<1>2. ASSUME NEW u \in G \cap Seq(T), NEW x \in T PROVE Append(u, x) \in G
  <2>1. PICK v : v = Append(u, x)
    OBVIOUS
  <2>a. u \o <<x>> = v
    BY <2>1, HeldAppend
  <2>b. u \o <<x>> \in Seq(T) /\ ToSet(u \o <<x>>) = ToSet(u) \cup {x}
    BY HeldAppend
  <2>2. v \in Seq(T) /\ ToSet(v) = ToSet(u) \cup {x}
    BY ONLY <2>a, <2>b
  <2>3. PICK o : o = Only(u, S)
    OBVIOUS
  <2>4. o \in Seq(S) /\ ToSet(o) = ToSet(u) \cap S
    BY <2>3, OnlyType
  <2>5. Only(v, S) = IF x \in S THEN Append(o, x) ELSE o
    BY <2>1, <2>3, OnlyAppend
  <2>6. x \in S => ToSet(Append(o, x)) = ToSet(o) \cup {x}
    <3>1. SUFFICES ASSUME x \in S PROVE ToSet(Append(o, x)) = ToSet(o) \cup {x}
      OBVIOUS
    <3>2. o \in Seq(S)
      BY <2>4
    <3>3. Append(o, x) = o \o <<x>> /\ ToSet(o \o <<x>>) = ToSet(o) \cup {x}
      BY ONLY <3>1, <3>2, HeldAppend
    <3> QED BY ONLY <3>3
  <2>7. ToSet(Only(v, S)) = ToSet(v) \cap S
    BY <2>2, <2>4, <2>5, <2>6
  <2> QED BY <2>1, <2>2, <2>7
<1> HIDE DEF G
<1>3. Seq(T) \subseteq G
  BY <1>1, <1>2, SeqSetInduction
<1> QED BY <1>3 DEF G
=============================================================================
