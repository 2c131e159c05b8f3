----------------------------- MODULE OutputsProofs -----------------------------
(***************************************************************************)
(* Where EasyLogger's lines go, for any number of threads, any logs and    *)
(* any sizes: the ring buffer and its output thread (elog_async.c), the    *)
(* bytes of the flash log (elog_flash.c) and the lines of the rotated      *)
(* files (elog_file.c).                                                    *)
(***************************************************************************)
EXTENDS ElogAsync, ElogFlash, ElogFile, SelectionLemmas, SequenceTheorems,
        FiniteSetTheorems, TLAPS

-----------------------------------------------------------------------------
(* Asynchronous output. *)

\* An empty log that is put into an empty buffer leaves neither flag set, and
\* the buffer looks full from then on (elog_async.c:154-161); elog_output has a
\* prefix and a newline around whatever it is given.
SomethingToSay == <<>> \notin Logs /\ Banner # <<>>

RingOK == /\ buf \in [0 .. Size - 1 -> Byte]
          /\ w \in 0 .. Size - 1 /\ r \in 0 .. Size - 1
          /\ full \in BOOLEAN /\ empty \in BOOLEAN
          /\ FlagsAgree

-----------------------------------------------------------------------------
(* Indices around the end. *)

LEMMA PastType ==
  ASSUME NEW i \in 0 .. Size - 1, NEW k \in 0 .. Size
  PROVE  Past(i, k) \in 0 .. Size - 1
BY AsyncAssumption DEF AsyncAssumption, Past

LEMMA PastPast ==
  ASSUME NEW i \in 0 .. Size - 1, NEW k \in Nat, NEW m \in Nat, k + m <= Size
  PROVE  Past(Past(i, k), m) = Past(i, k + m)
BY AsyncAssumption DEF AsyncAssumption, Past

LEMMA PastAround == ASSUME NEW i \in 0 .. Size - 1 PROVE Past(i, Size) = i
BY AsyncAssumption DEF AsyncAssumption, Past

LEMMA PastAway ==
  ASSUME NEW i \in 0 .. Size - 1, NEW k \in 1 .. Size - 1 PROVE Past(i, k) # i
BY AsyncAssumption DEF AsyncAssumption, Past

\* How far a slot lies past the end of the u bytes that begin at slot i.
LEMMA AheadOf ==
  ASSUME NEW i \in 0 .. Size - 1, NEW u \in 0 .. Size, NEW k \in 0 .. Size - 1
  PROVE  /\ k >= u => Ahead(Past(i, u), Past(i, k)) = k - u
         /\ k < u  => Ahead(Past(i, u), Past(i, k)) = k - u + Size
BY AsyncAssumption DEF AsyncAssumption, Past, Ahead

LEMMA UsedRange ==
  ASSUME RingOK
  PROVE  /\ Size \in Nat \ {0} /\ Used \in 0 .. Size /\ Space = Size - Used
         /\ w = Past(r, Used)
         /\ Used = Size <=> full
         /\ Used = 0 <=> empty
BY AsyncAssumption DEF AsyncAssumption, RingOK, FlagsAgree, Used, Space, Past

\* The flags and the distance of the indices give the count.
Indexed(k) == /\ r \in 0 .. Size - 1 /\ w = Past(r, k)
              /\ full \in BOOLEAN /\ empty \in BOOLEAN
              /\ full <=> k = Size
              /\ empty <=> k = 0

IndicesCount == \A k \in 0 .. Size : Indexed(k) => Used = k /\ FlagsAgree

LEMMA UsedIndexed == IndicesCount
BY AsyncAssumption DEF IndicesCount, AsyncAssumption, Indexed, FlagsAgree, Used, Past

LEMMA IndexedNext ==
  ASSUME NEW k \in 0 .. Size, Indexed(k)'
  PROVE  Used' = k /\ FlagsAgree'
<1>1. IndicesCount'
  BY UsedIndexed, PTL
<1> QED BY <1>1 DEF IndicesCount

LEMMA StoredType ==
  ASSUME RingOK
  PROVE  /\ Stored \in Seq(Byte) /\ Len(Stored) = Used
         /\ \A k \in 1 .. Used : Stored[k] = buf[Past(r, k - 1)] /\ Stored[k] \in Byte
<1>1. Used \in 0 .. Size /\ Size \in Nat \ {0}
  BY UsedRange
<1>2. ASSUME NEW k \in 1 .. Used PROVE buf[Past(r, k - 1)] \in Byte
  <2>1. k - 1 \in 0 .. Size
    BY <1>1
  <2>2. Past(r, k - 1) \in 0 .. Size - 1
    BY <2>1, PastType DEF RingOK
  <2> QED BY <2>2 DEF RingOK
<1>3. Stored = [k \in 1 .. Used |-> buf[Past(r, k - 1)]]
  BY DEF Stored
<1> HIDE DEF Stored
<1>4. Used \in Nat
  BY <1>1
<1>5. Stored \in Seq(Byte) /\ Len(Stored) = Used
  BY <1>2, <1>3, <1>4, IsASeq
<1> QED BY <1>2, <1>3, <1>5

LEMMA StoredThen == RingOK => Stored \in Seq(Byte) /\ Len(Stored) = Used
BY StoredType

-----------------------------------------------------------------------------
(* async_put_log. *)

LEMMA PutSizeRange ==
  ASSUME RingOK, NEW log \in Seq(Byte), log # <<>>
  PROVE  /\ PutSize(log) \in 0 .. Len(log) /\ Used + PutSize(log) \in 0 .. Size
         /\ PutSize(log) = 0 <=> Space = 0
         /\ FillsUp(log) <=> Used + PutSize(log) = Size
         /\ PutSize(log) < Len(log) => Used + PutSize(log) = Size
<1>1. Len(log) \in Nat \ {0}
  OBVIOUS
<1>2. Size \in Nat \ {0} /\ Used \in 0 .. Size /\ Space = Size - Used
  BY UsedRange
<1> HIDE DEF Used, Space
<1> QED BY <1>1, <1>2 DEF PutSize, FillsUp

\* The indices count what was put.
LEMMA PutCounts ==
  ASSUME RingOK, NEW log \in Seq(Byte), log # <<>>, Space # 0, PutLog(log)
  PROVE  RingOK' /\ Used' = Used + PutSize(log)
<1> DEFINE size == PutSize(log)
           u    == Used
<1>1. /\ Size \in Nat \ {0} /\ u \in 0 .. Size /\ w = Past(r, u) /\ Space = Size - u
      /\ (u = Size <=> full)
  BY UsedRange
<1>2. /\ size \in 0 .. Len(log) /\ u + size \in 0 .. Size /\ (size = 0 <=> Space = 0)
      /\ (FillsUp(log) <=> u + size = Size)
  BY PutSizeRange
<1>3. /\ w' = Past(w, size) /\ full' = (full \/ FillsUp(log)) /\ empty' = FALSE /\ r' = r
      /\ buf' = [i \in 0 .. Size - 1 |->
                   IF Ahead(w, i) < size THEN log[Ahead(w, i) + 1] ELSE buf[i]]
  BY DEF PutLog
<1>4. Len(log) \in Nat /\ r \in 0 .. Size - 1 /\ full \in BOOLEAN
  BY DEF RingOK
<1> HIDE DEF size, u
<1>5. size \in Nat /\ u \in Nat /\ size # 0 /\ u # Size
  BY <1>1, <1>2, <1>4
<1>6. w' = Past(r, u + size)
  BY <1>1, <1>2, <1>3, <1>4, <1>5, PastPast
<1>7. full \in BOOLEAN /\ (full' <=> u + size = Size) /\ full' \in BOOLEAN
  BY <1>1, <1>2, <1>3, <1>4, <1>5
<1>8. u + size # 0 /\ empty' = FALSE
  BY <1>1, <1>3, <1>5
<1>9. Used' = u + size /\ FlagsAgree'
  <2>1. u + size \in 0 .. Size /\ r' \in 0 .. Size - 1 /\ w' = Past(r', u + size)
        /\ full' \in BOOLEAN /\ empty' \in BOOLEAN
        /\ (full' <=> u + size = Size) /\ (empty' <=> u + size = 0)
    BY <1>2, <1>3, <1>4, <1>6, <1>7, <1>8
  <2>2. PICK k \in 0 .. Size : k = u + size
    BY <2>1
  <2>3. Indexed(k)'
    BY <2>1, <2>2 DEF Indexed
  <2>4. Used' = k /\ FlagsAgree'
    BY <2>3, IndexedNext
  <2> QED BY <2>2, <2>4
<1>10. buf' \in [0 .. Size - 1 -> Byte]
  <2>1. ASSUME NEW i \in 0 .. Size - 1, Ahead(w, i) < size PROVE log[Ahead(w, i) + 1] \in Byte
    <3>1. Ahead(w, i) \in Nat
      BY AsyncAssumption DEF AsyncAssumption, Ahead, RingOK
    <3>2. Ahead(w, i) + 1 \in 1 .. Len(log)
      BY <1>2, <1>4, <2>1, <3>1
    <3> QED BY <3>2
  <2>2. buf \in [0 .. Size - 1 -> Byte]
    BY DEF RingOK
  <2> QED BY <1>3, <2>1, <2>2
<1>11. w' \in 0 .. Size - 1
  BY <1>2, <1>4, <1>6, PastType
<1> QED BY <1>3, <1>4, <1>7, <1>9, <1>10, <1>11 DEF RingOK, size, u

\* And the bytes are behind the ones that were there.
LEMMA PutAppended ==
  ASSUME RingOK, NEW log \in Seq(Byte), log # <<>>, Space # 0, PutLog(log)
  PROVE  Stored' = Stored \o SubSeq(log, 1, PutSize(log))
<1> DEFINE size == PutSize(log)
           u    == Used
           old  == Stored
           new  == Stored'
           cut  == SubSeq(log, 1, size)
<1>1. Size \in Nat \ {0} /\ u \in 0 .. Size /\ w = Past(r, u) /\ r \in 0 .. Size - 1
  BY UsedRange DEF RingOK
<1>2. size \in 0 .. Len(log) /\ u + size \in 0 .. Size /\ Len(log) \in Nat
  BY PutSizeRange
<1>3. RingOK' /\ Used' = u + size
  BY PutCounts
<1>4. old \in Seq(Byte) /\ Len(old) = u /\ \A k \in 1 .. u : old[k] = buf[Past(r, k - 1)]
  BY StoredType
<1>5. new \in Seq(Byte) /\ Len(new) = u + size
  <2>1. (Stored \in Seq(Byte) /\ Len(Stored) = Used)'
    BY <1>3, StoredThen, PTL
  <2> QED BY <1>3, <2>1
<1>6. \A k \in 1 .. u + size : new[k] = buf'[Past(r, k - 1)]
  <2>1. r' = r
    BY DEF PutLog
  <2> QED BY <1>3, <2>1 DEF Stored
<1>7. cut \in Seq(Byte) /\ Len(cut) = size /\ \A k \in 1 .. size : cut[k] = log[k]
  <2>1. 1 \in 1 .. Len(log) + 1 /\ size \in 1 - 1 .. Len(log)
    BY <1>2
  <2> HIDE DEF size
  <2>2. /\ cut \in Seq(Byte) /\ Len(cut) = IF 1 <= size THEN size - 1 + 1 ELSE 0
        /\ \A k \in 1 .. size - 1 + 1 : cut[k] = log[1 + k - 1]
    BY <2>1, SubSeqProperties
  <2> QED BY <1>2, <2>2
<1>8. buf' = [i \in 0 .. Size - 1 |->
                IF Ahead(w, i) < size THEN log[Ahead(w, i) + 1] ELSE buf[i]]
  BY DEF PutLog
<1> HIDE DEF size, u, old, new, cut
<1>9. ASSUME NEW k \in 1 .. u + size PROVE new[k] = IF k <= u THEN old[k] ELSE cut[k - u]
  <2> DEFINE j == k - 1
  <2>1. j \in 0 .. Size - 1 /\ k = j + 1 /\ size \in Nat /\ u \in Nat
    BY <1>1, <1>2
  <2>2. Past(r, j) \in 0 .. Size - 1
    BY <1>1, <2>1 DEF Past
  <2>3. new[k] = IF Ahead(w, Past(r, j)) < size THEN log[Ahead(w, Past(r, j)) + 1]
                 ELSE buf[Past(r, j)]
    BY <1>6, <1>8, <2>2
  <2>4. /\ j >= u => Ahead(w, Past(r, j)) = j - u
        /\ j < u  => Ahead(w, Past(r, j)) = j - u + Size
    BY <1>1, <2>1, AheadOf
  <2>5. CASE k <= u
    <3>1. j < u
      BY <2>1, <2>5
    <3>2. ~ (j - u + Size < size)
      BY <1>1, <1>2, <2>1, <3>1
    <3>3. new[k] = buf[Past(r, j)] /\ k \in 1 .. u
      BY <1>1, <2>1, <2>3, <2>4, <2>5, <3>1, <3>2
    <3> QED BY <1>4, <2>5, <3>3
  <2>6. CASE ~ k <= u
    <3>1. j >= u /\ j - u < size /\ j - u + 1 = k - u /\ k - u \in 1 .. size
      BY <1>1, <1>2, <2>1, <2>6
    <3>2. new[k] = log[j - u + 1]
      BY <2>3, <2>4, <3>1
    <3> QED BY <1>7, <2>6, <3>1, <3>2
  <2> QED BY <2>5, <2>6
<1>10. new = old \o cut
  <2>1. old \o cut \in Seq(Byte) /\ Len(old \o cut) = u + size
        /\ \A k \in 1 .. u + size : (old \o cut)[k] = IF k <= u THEN old[k] ELSE cut[k - u]
    BY <1>4, <1>7, ConcatProperties, ZenonT(40)
  <2> QED BY <1>5, <1>9, <2>1, SeqEqual
<1> QED BY <1>10 DEF size, u, old, new, cut

-----------------------------------------------------------------------------
(* elog_async_get_line_log. *)

LEMMA LineLenRange ==
  ASSUME NEW s, NEW m \in Nat \ {0}
  PROVE  LineLen(s, m) \in 1 .. m
<1> DEFINE Stops == {k \in 1 .. m : s[k] = NL}
           Earliest(k) == s[k] = NL /\ \A j \in 1 .. k - 1 : s[j] # NL
<1>1. CASE Stops # {}
  <2>1. Stops \subseteq Nat
    OBVIOUS
  <2> HIDE DEF Stops
  <2>2. PICK k \in Stops : \A j \in Stops : k <= j
    BY <1>1, <2>1, NatMin
  <2>3. k \in 1 .. m /\ s[k] = NL
    BY <2>2 DEF Stops
  <2>4. ASSUME NEW j \in 1 .. k - 1 PROVE s[j] # NL
    <3>1. j \in 1 .. m /\ ~ k <= j
      BY <2>3, <2>4
    <3> QED BY <2>2, <3>1 DEF Stops
  <2>5. Earliest(k)
    BY <2>3, <2>4
  <2> HIDE DEF Earliest
  <2>6. (CHOOSE i \in 1 .. m : Earliest(i)) \in 1 .. m
    BY <2>3, <2>5
  <2> QED BY <2>3, <2>6 DEF LineLen, Earliest
<1>2. CASE Stops = {}
  BY <1>2 DEF LineLen
<1> QED BY <1>1, <1>2

LEMMA GetSizeRange ==
  ASSUME RingOK, Used # 0
  PROVE  GetSize \in 1 .. Used
<1> DEFINE size == IF Used <= PollSize THEN Used ELSE PollSize
           back == Size - r
           head == IF size < back THEN size ELSE back
           one  == LineLen(Stored, head)
           beyond == [k \in 1 .. size - back |-> Stored[back + k]]
           two  == LineLen(beyond, size - back)
<1>1. Used \in 0 .. Size /\ Size \in Nat \ {0} /\ PollSize \in Nat \ {0} /\ r \in 0 .. Size - 1
  BY UsedRange, AsyncAssumption DEF AsyncAssumption, RingOK
<1>2. size \in 1 .. Used /\ back \in Nat \ {0} /\ head \in Nat \ {0}
  BY <1>1
<1>3. one \in 1 .. head
  BY <1>2, LineLenRange
<1>4. GetSize = IF size < back \/ one < back THEN one ELSE back + two
  BY DEF GetSize
<1> HIDE DEF beyond, one
<1>5. size > back => two \in 1 .. size - back
  BY <1>2, LineLenRange
<1>6. size = back => two = 0
  <2> SUFFICES ASSUME size = back PROVE two = 0
    OBVIOUS
  <2>1. size - back = 0
    BY <1>2
  <2>2. LineLen(beyond, 0) = 0
    BY DEF LineLen
  <2> QED BY <2>1, <2>2
<1> HIDE DEF two, size, back
<1>7. CASE size < back \/ one < back
  BY <1>1, <1>2, <1>3, <1>4, <1>7
<1>8. CASE ~(size < back \/ one < back)
  BY <1>1, <1>2, <1>4, <1>5, <1>6, <1>8
<1> QED BY <1>7, <1>8

\* The indices count what was taken.
LEMMA GetCounts ==
  ASSUME RingOK, Used # 0, GetLine
  PROVE  RingOK' /\ Used' = Used - GetSize
<1> DEFINE g == GetSize
           u == Used
<1>1. /\ Size \in Nat \ {0} /\ u \in 0 .. Size /\ w = Past(r, u)
      /\ (u = 0 <=> empty) /\ g \in 1 .. u /\ u # 0
      /\ r \in 0 .. Size - 1 /\ w \in 0 .. Size - 1 /\ empty \in BOOLEAN
  BY UsedRange, GetSizeRange DEF RingOK
<1>2. /\ r' = Past(r, g) /\ empty' = (empty \/ u = g) /\ full' = FALSE
      /\ UNCHANGED <<buf, w>>
  BY DEF GetLine
<1> HIDE DEF g, u
<1>3. PICK k \in 0 .. Size : k = u - g
  BY <1>1
<1>4. r' \in 0 .. Size - 1
  <2>1. g \in 0 .. Size
    BY <1>1
  <2> QED BY <1>1, <1>2, <2>1, PastType
<1>5. w' = Past(r', k)
  <2>1. g \in Nat /\ k \in Nat /\ g + k <= Size /\ g + k = u
    BY <1>1, <1>3
  <2>2. Past(Past(r, g), k) = Past(r, g + k)
    BY <1>1, <2>1, PastPast
  <2> QED BY <1>1, <1>2, <2>1, <2>2
<1>6. empty' = (k = 0) /\ k # Size /\ full' = FALSE
  BY <1>1, <1>2, <1>3
<1>7. Indexed(k)'
  <2>1. (full' <=> k = Size) /\ full' \in BOOLEAN /\ (empty' <=> k = 0) /\ empty' \in BOOLEAN
    BY <1>6
  <2> QED BY <1>4, <1>5, <2>1 DEF Indexed
<1>8. Used' = k /\ FlagsAgree'
  BY <1>7, IndexedNext
<1>9. buf' \in [0 .. Size - 1 -> Byte] /\ w' \in 0 .. Size - 1
  BY <1>2 DEF RingOK
<1> QED BY <1>3, <1>4, <1>7, <1>8, <1>9 DEF RingOK, Indexed, g, u

\* What is taken is the front of what was there.
LEMMA GetTakesFront ==
  ASSUME RingOK, Used # 0, GetLine
  PROVE  /\ chunk' = SubSeq(Stored, 1, GetSize)
         /\ Stored' = SubSeq(Stored, GetSize + 1, Len(Stored))
<1> DEFINE g   == GetSize
           u   == Used
           old == Stored
           new == Stored'
           cut == SubSeq(old, g + 1, u)
<1>1. /\ Size \in Nat \ {0} /\ u \in 0 .. Size /\ g \in 1 .. u /\ r \in 0 .. Size - 1
  BY UsedRange, GetSizeRange DEF RingOK
<1>2. RingOK' /\ Used' = u - g
  BY GetCounts
<1>3. old \in Seq(Byte) /\ Len(old) = u /\ \A k \in 1 .. u : old[k] = buf[Past(r, k - 1)]
  BY StoredType
<1>4. new \in Seq(Byte) /\ Len(new) = u - g
  <2>1. (Stored \in Seq(Byte) /\ Len(Stored) = Used)'
    BY <1>2, StoredThen, PTL
  <2> QED BY <1>2, <2>1
<1>5. r' = Past(r, g) /\ buf' = buf /\ chunk' = SubSeq(old, 1, g)
  BY DEF GetLine
<1>6. \A k \in 1 .. u - g : new[k] = buf[Past(Past(r, g), k - 1)]
  BY <1>2, <1>5 DEF Stored
<1> HIDE DEF g, u, old, new
<1>7. /\ cut \in Seq(Byte) /\ Len(cut) = u - g
      /\ \A k \in 1 .. u - g : cut[k] = old[g + k]
  <2>1. g + 1 \in 1 .. Len(old) + 1 /\ u \in (g + 1) - 1 .. Len(old)
    BY <1>1, <1>3
  <2>2. /\ cut \in Seq(Byte) /\ Len(cut) = IF g + 1 <= u THEN u - (g + 1) + 1 ELSE 0
        /\ \A k \in 1 .. u - (g + 1) + 1 : cut[k] = old[(g + 1) + k - 1]
    BY <1>3, <2>1, SubSeqProperties, SMTT(40)
  <2> HIDE DEF cut
  <2>3. u - (g + 1) + 1 = u - g /\ \A k \in 1 .. u - g : (g + 1) + k - 1 = g + k
    BY <1>1
  <2> QED BY <1>1, <2>2, <2>3
<1>8. ASSUME NEW k \in 1 .. u - g PROVE new[k] = cut[k]
  <2>1. g \in Nat /\ k - 1 \in Nat /\ g + (k - 1) <= Size /\ g + k \in 1 .. u
        /\ g + (k - 1) = (g + k) - 1
    BY <1>1
  <2>2. Past(Past(r, g), k - 1) = Past(r, g + (k - 1))
    BY <1>1, <2>1, PastPast
  <2>3. old[g + k] = buf[Past(r, (g + k) - 1)]
    BY <1>3, <2>1
  <2> QED BY <1>6, <1>7, <2>1, <2>2, <2>3
<1>9. new = cut
  <2> HIDE DEF cut
  <2> QED BY <1>4, <1>7, <1>8, SeqEqual
<1> QED BY <1>3, <1>5, <1>9 DEF g, u, old, new

-----------------------------------------------------------------------------
(***************************************************************************)
(* The inductive invariant.  RingAgrees says nothing of a thread that has  *)
(* tested thread_running and not yet waited, of a log on its way to the    *)
(* buffer, of what the poll buffer holds between two lines, or of the time *)
(* before elog_init: each is needed for the next step.                     *)
(***************************************************************************)

Restful == /\ \A c \in Callers : cpc[c] = "put" => clog[c] # <<>>
           /\ tpc # "emit" => chunk = <<>>
           /\ ~initOk => tpc = "none"
           /\ opc # "free" => cpc[Owner] = "idle"

\* Before the first elog_init nothing runs and nothing is stored.
Fresh == inits = 0 =>
  /\ ~initOk /\ ~outEnabled /\ Used = 0 /\ opc = "free"
  /\ \A c \in Callers : cpc[c] = "idle"

\* A thread on its way to the semaphore finds a notice there when it should.
Noticed ==
  (inits = 1 /\ Used > 0 /\ tpc \in {"test", "wait"} /\ running) =>
    sem > 0 \/ \E c \in Callers : cpc[c] = "notice"

IInv == /\ TypeOK /\ FlagsAgree /\ UsedIsStored /\ Restful /\ Fresh /\ Noticed

LEMMA InitIInv == Init => IInv
<1> SUFFICES ASSUME Init PROVE IInv
  OBVIOUS
<1>1. TypeOK
  <2>1. <<>> \in Seq(Byte)
    OBVIOUS
  <2>2. RingOK
    <3>1. buf \in [0 .. Size - 1 -> Byte]
      BY AsyncAssumption DEF AsyncAssumption, Init
    <3>2. w = 0 /\ r = 0 /\ 0 \in 0 .. Size - 1 /\ full = FALSE /\ empty = TRUE
      BY AsyncAssumption DEF AsyncAssumption, Init
    <3> QED BY <3>1, <3>2 DEF RingOK, FlagsAgree
  <2>3. clog \in [Callers -> Seq(Byte)] /\ cpc \in [Callers -> {"idle", "put", "notice"}]
    BY <2>1 DEF Init
  <2>4. chunk \in Seq(Byte) /\ shown \in Seq(Byte)
    BY <2>1 DEF Init
  <2>5. sem \in Nat /\ accepted \in Nat /\ inits \in 0 .. MaxInits
    BY AsyncAssumption DEF AsyncAssumption, Init
  <2>6. /\ running \in BOOLEAN /\ enabled \in BOOLEAN /\ outEnabled \in BOOLEAN /\ initOk \in BOOLEAN
        /\ tpc \in {"none", "test", "wait", "get", "emit", "over"}
        /\ opc \in {"free", "start", "stop", "notice", "join"}
    BY DEF Init
  <2> QED BY <2>2, <2>3, <2>4, <2>5, <2>6 DEF TypeOK, RingOK
<1>2. FlagsAgree /\ Used = 0
  BY DEF Init, FlagsAgree, Used
<1>3. UsedIsStored
  <2>1. Len(shown) = 0 /\ Len(chunk) = 0 /\ accepted = 0
    BY DEF Init
  <2> QED BY <1>2, <2>1 DEF UsedIsStored
<1>4. Restful /\ Fresh /\ Noticed
  BY <1>2 DEF Init, Restful, Fresh, Noticed
<1> QED BY <1>1, <1>2, <1>3, <1>4 DEF IInv

\* What a caller puts, the way the steps need it.
PutEffect(c) ==
  /\ RingOK' /\ r' = r
  /\ PutSize(clog[c]) \in 0 .. Len(clog[c])
  /\ Used' = Used + PutSize(clog[c])
  /\ Stored' = Stored \o SubSeq(clog[c], 1, PutSize(clog[c]))
  /\ PutSize(clog[c]) < Len(clog[c]) => Used' = Size
  /\ PutSize(clog[c]) = 0 => UNCHANGED ring

LEMMA Puts ==
  ASSUME RingOK, clog \in [Callers -> Seq(Byte)], NEW c \in Callers, clog[c] # <<>>, PutLog(clog[c])
  PROVE  PutEffect(c)
<1> DEFINE log  == clog[c]
           size == PutSize(log)
<1>1. log \in Seq(Byte) /\ log # <<>>
  OBVIOUS
<1>2. /\ size \in 0 .. Len(log) /\ Used + size \in 0 .. Size /\ (size = 0 <=> Space = 0)
      /\ (size < Len(log) => Used + size = Size)
  BY <1>1, PutSizeRange
<1>3. r' = r
  BY DEF PutLog, ring
<1>4. CASE Space # 0
  <2>1. RingOK' /\ Used' = Used + size /\ Stored' = Stored \o SubSeq(log, 1, size)
    BY <1>1, <1>4, PutCounts, PutAppended
  <2> QED BY <1>2, <1>3, <1>4, <2>1 DEF PutEffect
<1>5. CASE Space = 0
  <2>1. UNCHANGED ring
    BY <1>5 DEF PutLog
  <2>2. RingOK' /\ Used' = Used /\ Stored' = Stored
    BY <2>1 DEF ring, RingOK, FlagsAgree, Used, Stored, Past
  <2>3. size = 0 /\ Used \in Nat
    BY <1>2, <1>5, UsedRange
  <2>4. SubSeq(log, 1, 0) = <<>>
    BY SubSeqEmpty
  <2>5. Stored \o <<>> = Stored
    BY StoredType, ConcatEmptySeq
  <2> HIDE DEF log
  <2>6. Stored' = Stored \o SubSeq(log, 1, size)
    BY <2>2, <2>3, <2>4, <2>5
  <2>7. Used' = Used + size
    BY <2>2, <2>3
  <2> QED BY <1>2, <1>3, <2>1, <2>2, <2>6, <2>7 DEF PutEffect, log
<1> QED BY <1>4, <1>5

LEMMA RingFrame ==
  ASSUME UNCHANGED ring
  PROVE  Used' = Used /\ Stored' = Stored /\ FlagsAgree' = FlagsAgree /\ RingOK' = RingOK
BY DEF ring, Used, Stored, Past, FlagsAgree, RingOK

LEMMA TypeIsRing == TypeOK /\ FlagsAgree => RingOK
BY DEF TypeOK, RingOK

\* Whoever leaves the ring and the output alone leaves the count right.
LEMMA CountFrame ==
  ASSUME IInv, UNCHANGED <<ring, accepted, chunk, shown>>
  PROVE  FlagsAgree' /\ UsedIsStored' /\ Used' = Used
BY RingFrame DEF IInv, UsedIsStored

\* Callers.
LEMMA CallIInv ==
  ASSUME SomethingToSay, IInv, NEW c \in Callers, NEW log \in Logs, Call(c, log)
  PROVE  IInv'
<1>0. log \in Seq(Byte) /\ log # <<>>
  BY AsyncAssumption DEF AsyncAssumption, SomethingToSay
<1>1. TypeOK'
  BY <1>0 DEF IInv, TypeOK, Call, ring, thread, life
<1>2. FlagsAgree' /\ UsedIsStored' /\ Used' = Used
  BY CountFrame DEF Call, thread
<1>3. Restful'
  BY <1>0 DEF IInv, TypeOK, Call, thread, life, Restful
<1>4. Fresh'
  BY <1>2 DEF IInv, Call, life, Fresh
<1>5. Noticed'
  BY <1>2 DEF IInv, TypeOK, Call, thread, life, Noticed
<1> QED BY <1>1, <1>2, <1>3, <1>4, <1>5 DEF IInv

LEMMA PutIInv ==
  ASSUME IInv, NEW c \in Callers, Put(c)
  PROVE  IInv'
<1> DEFINE size == PutSize(clog[c])
<1>0. /\ TypeOK /\ RingOK /\ UsedIsStored /\ Restful /\ Fresh /\ Noticed
      /\ clog \in [Callers -> Seq(Byte)] /\ clog[c] # <<>> /\ cpc[c] = "put"
      /\ UNCHANGED <<sem, thread, life>> /\ clog' = [clog EXCEPT ![c] = <<>>]
  BY TypeIsRing DEF IInv, Put, TypeOK, Restful
<1>1. Used \in Nat /\ Len(clog[c]) \in Nat /\ accepted \in Nat
  BY <1>0, UsedRange DEF TypeOK
<1>2. /\ RingOK' /\ accepted' \in Nat /\ UsedIsStored'
      /\ cpc' \in [Callers -> {"idle", "put", "notice"}]
      /\ \A d \in Callers \ {c} : cpc'[d] = cpc[d]
      /\ cpc'[c] # "put" /\ (cpc'[c] = "notice" \/ Used' = Used)
  <2>1. CASE enabled
    <3>1. PutLog(clog[c]) /\ accepted' = accepted + size
          /\ cpc' = [cpc EXCEPT ![c] = IF size > 0 THEN "notice" ELSE "idle"]
      BY <2>1 DEF Put
    <3>2. RingOK' /\ size \in 0 .. Len(clog[c]) /\ Used' = Used + size
      BY <1>0, <3>1, Puts DEF PutEffect
    <3> HIDE DEF size
    <3>3. accepted' \in Nat /\ (size > 0 \/ Used' = Used)
      BY <1>1, <3>1, <3>2
    <3>4. UsedIsStored'
      <4>1. Len(shown') = Len(shown) /\ Len(chunk') = Len(chunk)
        BY <1>0 DEF thread
      <4>2. Len(shown) \in Nat /\ Len(chunk) \in Nat
        BY <1>0 DEF TypeOK
      <4> QED BY <1>0, <1>1, <3>1, <3>2, <4>1, <4>2 DEF UsedIsStored
    <3> QED BY <1>0, <3>1, <3>2, <3>3, <3>4 DEF TypeOK
  <2>2. CASE ~enabled
    <3>1. UNCHANGED <<ring, accepted>> /\ cpc' = [cpc EXCEPT ![c] = "idle"]
      BY <2>2 DEF Put
    <3>2. RingOK' /\ UsedIsStored' /\ Used' = Used
      BY <1>0, <3>1, CountFrame, RingFrame DEF thread
    <3> QED BY <1>0, <3>1, <3>2 DEF TypeOK
  <2> QED BY <2>1, <2>2
<1>3. TypeOK' /\ FlagsAgree'
  <2>1. clog' \in [Callers -> Seq(Byte)]
    BY <1>0
  <2> QED BY <1>0, <1>2, <2>1 DEF RingOK, TypeOK, thread, life
<1>4. Restful'
  <2>1. Owner \in Callers
    BY AsyncAssumption DEF AsyncAssumption
  <2>2. \A d \in Callers : cpc'[d] = "put" => clog'[d] # <<>>
    BY <1>0, <1>2 DEF Restful, TypeOK
  <2>3. opc' # "free" => cpc'[Owner] = "idle"
    BY <1>0, <1>2, <2>1 DEF Restful, life
  <2> QED BY <1>0, <2>2, <2>3 DEF Restful, thread, life
<1>5. Fresh'
  BY <1>0 DEF Fresh, life
<1>6. Noticed'
  BY <1>0, <1>2 DEF Noticed, thread, life
<1> QED BY <1>2, <1>3, <1>4, <1>5, <1>6 DEF IInv

LEMMA NoticeIInv ==
  ASSUME IInv, NEW c \in Callers, Notice(c)
  PROVE  IInv'
<1>1. TypeOK'
  BY DEF IInv, TypeOK, Notice, ring, thread, life
<1>2. FlagsAgree' /\ UsedIsStored' /\ Used' = Used
  BY CountFrame DEF Notice, thread
<1>3. Restful' /\ Fresh'
  BY <1>2 DEF IInv, TypeOK, Notice, thread, life, Restful, Fresh
<1>4. Noticed'
  BY DEF IInv, TypeOK, Notice, Noticed
<1> QED BY <1>1, <1>2, <1>3, <1>4 DEF IInv

\* The output thread.
LEMMA GetIInv ==
  ASSUME IInv, Get
  PROVE  IInv'
<1>0. /\ TypeOK /\ RingOK /\ UsedIsStored /\ Restful /\ Fresh /\ Noticed
      /\ tpc = "get" /\ GetLine /\ tpc' = IF chunk' = <<>> THEN "test" ELSE "emit"
      /\ UNCHANGED <<sem, shown, calls, life, accepted>>
  BY TypeIsRing DEF IInv, Get
<1>1. Used \in Nat /\ chunk = <<>> /\ initOk
  BY <1>0, UsedRange DEF Restful, TypeOK
<1>2. /\ RingOK' /\ chunk' \in Seq(Byte) /\ UsedIsStored'
      /\ chunk' = <<>> => Used' = 0
      /\ Used = 0 => Used' = 0
  <2>1. CASE Used = 0
    <3>1. chunk' = <<>> /\ UNCHANGED ring
      BY <1>0, <2>1 DEF GetLine
    <3>2. chunk' = chunk
      BY <1>1, <3>1
    <3>3. RingOK' /\ UsedIsStored' /\ Used' = Used
      BY <1>0, <3>1, <3>2, CountFrame, RingFrame
    <3> QED BY <1>0, <2>1, <3>2, <3>3 DEF TypeOK
  <2>2. CASE Used # 0
    <3>1. /\ RingOK' /\ Used' = Used - GetSize /\ GetSize \in 1 .. Used
          /\ chunk' = SubSeq(Stored, 1, GetSize)
      BY <1>0, <2>2, GetCounts, GetTakesFront, GetSizeRange
    <3> DEFINE g == GetSize
               s == Stored
    <3>2. s \in Seq(Byte) /\ Len(s) = Used /\ g \in 1 .. Used
      BY <1>0, <3>1, StoredType
    <3> HIDE DEF g, s
    <3>3. SubSeq(s, 1, g) \in Seq(Byte) /\ Len(SubSeq(s, 1, g)) = g
      BY <1>1, <3>2
    <3>4. chunk' \in Seq(Byte) /\ Len(chunk') = g /\ Used' = Used - g /\ chunk' # <<>>
      <4>1. Len(chunk') # 0
        BY <1>1, <3>1, <3>2, <3>3 DEF g, s
      <4> QED BY <3>1, <3>3, <4>1 DEF g, s
    <3>5. UsedIsStored'
      <4>1. Len(chunk) = 0 /\ Len(shown) \in Nat /\ Len(shown') = Len(shown) /\ accepted' = accepted
        BY <1>0, <1>1 DEF TypeOK
      <4>2. accepted \in Nat /\ Used = accepted - Len(shown) - Len(chunk)
        BY <1>0 DEF UsedIsStored, TypeOK
      <4>3. Used' = accepted' - Len(shown') - Len(chunk')
        BY <1>1, <3>2, <3>4, <4>1, <4>2
      <4> QED BY <4>3 DEF UsedIsStored
    <3> QED BY <2>2, <3>1, <3>4, <3>5
  <2> QED BY <2>1, <2>2
<1>3. TypeOK' /\ FlagsAgree'
  BY <1>0, <1>2 DEF RingOK, TypeOK, calls, life
<1>4. Restful' /\ Noticed'
  BY <1>0, <1>1, <1>2 DEF Restful, Noticed, calls, life
<1>5. Fresh'
  BY <1>0, <1>2 DEF Fresh, calls, life
<1> QED BY <1>2, <1>3, <1>4, <1>5 DEF IInv

LEMMA EmitIInv ==
  ASSUME IInv, Emit
  PROVE  IInv'
<1>0. /\ chunk \in Seq(Byte) /\ shown \in Seq(Byte) /\ accepted \in Nat /\ initOk /\ tpc = "emit"
      /\ shown' = shown \o chunk /\ chunk' = <<>> /\ tpc' = "get"
      /\ UNCHANGED <<ring, sem, calls, life, accepted>>
  BY DEF IInv, TypeOK, Emit, Restful
<1>1. Used' = Used /\ FlagsAgree'
  BY <1>0, RingFrame DEF IInv
<1>2. shown' \in Seq(Byte) /\ Len(shown') = Len(shown) + Len(chunk)
  BY <1>0, ConcatProperties
<1>3. TypeOK'
  BY <1>0, <1>2 DEF IInv, TypeOK, ring, calls, life
<1>4. UsedIsStored'
  <2>1. Used = accepted - Len(shown) - Len(chunk)
    BY DEF IInv, UsedIsStored
  <2>2. Len(chunk') = 0 /\ Len(chunk) \in Nat /\ Len(shown) \in Nat
    BY <1>0
  <2> QED BY <1>0, <1>1, <1>2, <2>1, <2>2 DEF UsedIsStored
<1>5. Restful' /\ Fresh' /\ Noticed'
  BY <1>0, <1>1 DEF IInv, Restful, Fresh, Noticed, calls, life
<1> QED BY <1>1, <1>3, <1>4, <1>5 DEF IInv

LEMMA TestWaitIInv ==
  ASSUME IInv, Test \/ Wait
  PROVE  IInv'
<1>1. TypeOK'
  BY DEF IInv, TypeOK, Test, Wait, ring, calls, life
<1>2. FlagsAgree' /\ UsedIsStored' /\ Used' = Used
  BY CountFrame DEF Test, Wait
<1>3. Restful' /\ Fresh'
  BY <1>2 DEF IInv, TypeOK, Test, Wait, calls, life, Restful, Fresh
<1>4. Noticed'
  BY <1>2 DEF IInv, TypeOK, Test, Wait, calls, life, Noticed
<1> QED BY <1>1, <1>2, <1>3, <1>4 DEF IInv

\* The owner.
LEMMA InitAgainIInv ==
  ASSUME IInv, ElogInit
  PROVE  IInv'
<1>1. TypeOK'
  BY AsyncAssumption DEF AsyncAssumption, IInv, TypeOK, ElogInit, ring, calls
<1>2. FlagsAgree' /\ UsedIsStored' /\ Used' = Used
  BY CountFrame DEF ElogInit
<1>3. inits \in Nat /\ inits' = inits + 1 /\ tpc = "none"
  BY DEF IInv, TypeOK, Restful, ElogInit
<1>4. Restful' /\ Fresh'
  BY <1>3 DEF IInv, ElogInit, calls, Restful, Fresh
<1>5. Noticed'
  <2>1. inits' = 1 => Used = 0
    BY <1>3 DEF IInv, Fresh
  <2> QED BY <1>2, <2>1 DEF Noticed
<1> QED BY <1>1, <1>2, <1>4, <1>5 DEF IInv

LEMMA OwnerIInv ==
  ASSUME SomethingToSay, IInv, ElogStart \/ ElogStop \/ ElogDeinit \/ OwnerSteps
  PROVE  IInv'
<1>0. Banner \in Seq(Byte) /\ Banner # <<>> /\ Owner \in Callers
  BY AsyncAssumption DEF AsyncAssumption, SomethingToSay
<1>1. FlagsAgree' /\ UsedIsStored' /\ Used' = Used
  BY CountFrame DEF ElogStart, ElogStop, ElogDeinit, OwnerSteps, ElogStartMode, ElogStopMode,
                    DeinitNotice, DeinitJoin, thread
<1>2. CASE ElogStartMode
  <2>1. TypeOK'
    BY <1>0, <1>2 DEF IInv, TypeOK, ElogStartMode, ring, thread
  <2>2. Restful' /\ Fresh'
    BY <1>0, <1>2 DEF IInv, TypeOK, ElogStartMode, thread, Restful, Fresh
  <2>3. Noticed'
    <3>1. cpc[Owner] = "idle" /\ UNCHANGED <<sem, thread, running, inits>>
      BY <1>2 DEF IInv, Restful, ElogStartMode
    <3>2. \A c \in Callers : cpc[c] = "notice" => cpc'[c] = "notice"
      BY <1>0, <1>2, <3>1 DEF IInv, TypeOK, ElogStartMode
    <3> QED BY <1>1, <3>1, <3>2 DEF IInv, thread, Noticed
  <2> QED BY <1>1, <2>1, <2>2, <2>3 DEF IInv
<1>3. CASE ElogStart \/ ElogStop \/ ElogStopMode
  <2>1. TypeOK'
    BY <1>3, ZenonT(40) DEF IInv, TypeOK, ElogStart, ElogStop, ElogStopMode, ring, thread, calls
  <2>2. Restful' /\ Fresh'
    BY <1>1, <1>3 DEF IInv, TypeOK, ElogStart, ElogStop, ElogStopMode, thread, calls, OwnerFree,
                      Restful, Fresh
  <2>3. Noticed'
    BY <1>1, <1>3 DEF IInv, ElogStart, ElogStop, ElogStopMode, thread, calls, Noticed
  <2> QED BY <1>1, <2>1, <2>2, <2>3 DEF IInv
<1>4. CASE ElogDeinit \/ DeinitJoin
  <2>1. TypeOK'
    BY <1>4 DEF IInv, TypeOK, ElogDeinit, DeinitJoin, ring, thread, calls
  <2>2. Restful' /\ Fresh'
    BY <1>1, <1>4 DEF IInv, TypeOK, ElogDeinit, DeinitJoin, thread, calls, OwnerFree, Restful, Fresh
  <2>3. Noticed'
    BY <1>1, <1>4 DEF IInv, ElogDeinit, DeinitJoin, thread, calls, Noticed
  <2> QED BY <1>1, <2>1, <2>2, <2>3 DEF IInv
<1>5. CASE DeinitNotice
  <2>1. TypeOK'
    BY <1>5 DEF IInv, TypeOK, DeinitNotice, ring, thread, calls
  <2>2. Restful' /\ Fresh'
    BY <1>1, <1>5 DEF IInv, TypeOK, DeinitNotice, thread, calls, Restful, Fresh
  <2>3. Noticed'
    BY <1>5 DEF IInv, TypeOK, DeinitNotice, Noticed
  <2> QED BY <1>1, <2>1, <2>2, <2>3 DEF IInv
<1> QED BY <1>2, <1>3, <1>4, <1>5 DEF OwnerSteps

LEMMA NextIInv == SomethingToSay /\ IInv /\ [Next]_vars => IInv'
<1> SUFFICES ASSUME SomethingToSay, IInv, [Next]_vars PROVE IInv'
  OBVIOUS
<1>1. CASE \E c \in Callers : (\E log \in Logs : Call(c, log)) \/ Put(c) \/ Notice(c)
  BY <1>1, CallIInv, PutIInv, NoticeIInv
<1>2. CASE OutputThread
  BY <1>2, GetIInv, EmitIInv, TestWaitIInv DEF OutputThread
<1>3. CASE ElogInit
  BY <1>3, InitAgainIInv
<1>4. CASE ElogStart \/ ElogStop \/ ElogDeinit \/ OwnerSteps
  BY <1>4, OwnerIInv
<1>5. CASE UNCHANGED vars
  <2>1. UNCHANGED <<ring, sem, thread, calls, life, accepted>>
    BY <1>5 DEF vars
  <2>2. TypeOK'
    BY <2>1 DEF IInv, TypeOK, ring, thread, calls, life
  <2>3. FlagsAgree' /\ UsedIsStored' /\ Used' = Used
    BY <2>1, CountFrame DEF thread
  <2>4. Restful' /\ Fresh' /\ Noticed'
    BY <2>1, <2>3 DEF IInv, Restful, Fresh, Noticed, thread, calls, life
  <2> QED BY <2>2, <2>3, <2>4 DEF IInv
<1> QED BY <1>1, <1>2, <1>3, <1>4, <1>5 DEF Next

LEMMA IInvAlways == ASSUME SomethingToSay PROVE Spec => []IInv
BY InitIInv, NextIInv, PTL DEF Spec

\* The ring's flags, indices and notices always account for what is in it
\* (elog_async.c:107-163, 208-214, 272-311), as long as there is something in
\* every log.
THEOREM RingKeepsCount == ASSUME SomethingToSay PROVE Spec => []RingAgrees
<1>1. IInv => RingAgrees
  BY DEF IInv, RingAgrees, Noticed, NoMissedNotice
<1> QED BY <1>1, IInvAlways, PTL

\* A log goes in whole, or as far as the buffer has room (elog_async.c:147-161).
THEOREM PutsAppend == ASSUME SomethingToSay PROVE Spec => PutAppends
<1>1. ASSUME IInv, NEW c \in Callers, Put(c), enabled
      PROVE  \E k \in 0 .. Len(clog[c]) : /\ Stored' = Stored \o SubSeq(clog[c], 1, k)
                                          /\ k < Len(clog[c]) => Used' = Size
  <2>1. RingOK /\ clog \in [Callers -> Seq(Byte)] /\ clog[c] # <<>> /\ PutLog(clog[c])
    BY <1>1, TypeIsRing DEF IInv, TypeOK, Restful, Put
  <2>2. PutEffect(c)
    BY <2>1, Puts
  <2> QED BY <2>2 DEF PutEffect
<1>2. IInv => [\A c \in Callers : (Put(c) /\ enabled) =>
                 \E k \in 0 .. Len(clog[c]) : /\ Stored' = Stored \o SubSeq(clog[c], 1, k)
                                              /\ k < Len(clog[c]) => Used' = Size]_vars
  BY <1>1
<1> QED BY <1>2, IInvAlways, PTL DEF Spec, PutAppends

-----------------------------------------------------------------------------
(* Buffer and poll buffer together are a queue. *)

LEMMA AddsBehind ==
  ASSUME NEW T, NEW s \in Seq(T), NEW t \in Seq(T), t # <<>>
  PROVE  s \o t \in Seq(T) /\ Len(s \o t) > Len(s) /\ SubSeq(s \o t, 1, Len(s)) = s
<1>1. /\ s \o t \in Seq(T) /\ Len(s \o t) = Len(s) + Len(t)
      /\ \A i \in 1 .. Len(s) + Len(t) : (s \o t)[i] = IF i <= Len(s) THEN s[i] ELSE t[i - Len(s)]
  BY ConcatProperties
<1>2. Len(s) \in Nat /\ Len(t) \in Nat \ {0}
  BY EmptySeq, LenProperties
<1> DEFINE c == s \o t
<1> HIDE DEF c
<1>3. c \in Seq(T) /\ Len(c) = Len(s) + Len(t) /\ \A i \in 1 .. Len(s) : c[i] = s[i]
  <2>1. \A i \in 1 .. Len(s) : i \in 1 .. Len(s) + Len(t) /\ i <= Len(s)
    BY <1>2
  <2> QED BY <1>1, <2>1 DEF c
<1>4. SubSeq(c, 1, Len(s)) = s
  <2>1. SubSeq(c, 1, Len(s)) \in Seq(T) /\ Len(SubSeq(c, 1, Len(s))) = Len(s)
        /\ \A i \in 1 .. Len(s) : SubSeq(c, 1, Len(s))[i] = c[i]
    BY <1>2, <1>3
  <2> QED BY <1>3, <2>1, SeqEqual
<1> QED BY <1>1, <1>2, <1>4 DEF c

LEMMA TakesFront ==
  ASSUME NEW T, NEW s \in Seq(T), NEW t \in Seq(T)
  PROVE  /\ SubSeq(s \o t, 1, Len(s)) = s
         /\ SubSeq(s \o t, Len(s) + 1, Len(s \o t)) = t
<1>1. /\ s \o t \in Seq(T) /\ Len(s \o t) = Len(s) + Len(t)
      /\ \A i \in 1 .. Len(s) + Len(t) : (s \o t)[i] = IF i <= Len(s) THEN s[i] ELSE t[i - Len(s)]
  BY ConcatProperties
<1>2. Len(s) \in Nat /\ Len(t) \in Nat
  BY LenProperties
<1> DEFINE c == s \o t
           m == Len(s)
           n == Len(t)
<1> HIDE DEF c
<1>3. /\ c \in Seq(T) /\ Len(c) = m + n
      /\ \A i \in 1 .. m : c[i] = s[i]
      /\ \A i \in 1 .. n : c[m + i] = t[i]
  <2>1. \A i \in 1 .. m : i \in 1 .. m + n /\ i <= m
    BY <1>2
  <2>2. \A i \in 1 .. n : m + i \in 1 .. m + n /\ ~ (m + i <= m) /\ (m + i) - m = i
    BY <1>2
  <2> QED BY <1>1, <2>1, <2>2 DEF c
<1>4. SubSeq(c, 1, m) = s
  <2>1. SubSeq(c, 1, m) \in Seq(T) /\ Len(SubSeq(c, 1, m)) = m
        /\ \A i \in 1 .. m : SubSeq(c, 1, m)[i] = c[i]
    BY <1>2, <1>3
  <2> QED BY <1>3, <2>1, SeqEqual
<1>5. SubSeq(c, m + 1, m + n) = t
  <2> DEFINE u == SubSeq(c, m + 1, m + n)
  <2>1. u \in Seq(T) /\ Len(u) = n /\ \A i \in 1 .. n : u[i] = c[m + i]
    BY <1>2, <1>3
  <2> HIDE DEF u
  <2> QED BY <1>3, <2>1, SeqEqual DEF u
<1> QED BY <1>3, <1>4, <1>5 DEF c

LEMMA SplitAgain ==
  ASSUME NEW T, NEW s \in Seq(T), NEW g \in 1 .. Len(s)
  PROVE  SubSeq(s, 1, g) \o SubSeq(s, g + 1, Len(s)) = s
<1> DEFINE a == SubSeq(s, 1, g)
           b == SubSeq(s, g + 1, Len(s))
<1>1. Len(s) \in Nat /\ g \in Nat
  OBVIOUS
<1>2. /\ a \in Seq(T) /\ Len(a) = g /\ \A i \in 1 .. g : a[i] = s[i]
      /\ b \in Seq(T) /\ Len(b) = Len(s) - g /\ \A i \in 1 .. Len(s) - g : b[i] = s[g + i]
  BY <1>1
<1> HIDE DEF a, b
<1>3. /\ a \o b \in Seq(T) /\ Len(a \o b) = Len(s)
      /\ \A i \in 1 .. Len(s) : (a \o b)[i] = IF i <= g THEN a[i] ELSE b[i - g]
  <2>1. /\ a \o b \in Seq(T) /\ Len(a \o b) = Len(a) + Len(b)
        /\ \A i \in 1 .. Len(a) + Len(b) : (a \o b)[i] = IF i <= Len(a) THEN a[i] ELSE b[i - Len(a)]
    BY <1>2, ConcatProperties, ZenonT(40)
  <2>2. Len(a) = g /\ Len(a) + Len(b) = Len(s)
    BY <1>1, <1>2
  <2> QED BY <2>1, <2>2, Zenon
<1>4. ASSUME NEW i \in 1 .. Len(s) PROVE (a \o b)[i] = s[i]
  <2>1. CASE i <= g
    <3>1. i \in 1 .. g
      BY <1>1, <2>1
    <3>2. (a \o b)[i] = a[i]
      BY <1>3, <2>1
    <3> QED BY <1>2, <3>1, <3>2
  <2>2. CASE ~ i <= g
    <3>1. i - g \in 1 .. Len(s) - g /\ g + (i - g) = i
      BY <1>1, <2>2
    <3> QED BY <1>2, <1>3, <2>2, <3>1
  <2> QED BY <2>1, <2>2
<1> DEFINE c == a \o b
<1> HIDE DEF c
<1>5. c \in Seq(T) /\ Len(c) = Len(s) /\ \A i \in 1 .. Len(s) : c[i] = s[i]
  BY <1>3, <1>4 DEF c
<1> QED BY <1>5, SeqEqual DEF a, b, c

Queued == chunk \o Stored

LEMMA PutQueues ==
  ASSUME IInv, NEW c \in Callers, Put(c)
  PROVE  Pipe!Put \/ (Queued' = Queued /\ shown' = shown)
<1>0. /\ RingOK /\ clog \in [Callers -> Seq(Byte)] /\ clog[c] # <<>>
      /\ chunk \in Seq(Byte) /\ UNCHANGED <<chunk, shown>>
  BY TypeIsRing DEF IInv, TypeOK, Restful, Put, thread
<1>1. CASE UNCHANGED ring
  BY <1>0, <1>1, RingFrame DEF Queued
<1>2. CASE ~ UNCHANGED ring
  <2> DEFINE log == clog[c]
             size == PutSize(log)
             more == SubSeq(log, 1, size)
             s == Stored
  <2>1. PutLog(log) /\ log \in Seq(Byte)
    BY <1>0, <1>2 DEF Put
  <2>2. size \in 1 .. Len(log) /\ Stored' = s \o more
    BY <1>0, <1>2, <2>1, Puts DEF PutEffect
  <2>3. s \in Seq(Byte)
    BY <1>0, StoredType
  <2> HIDE DEF log, size, s
  <2>4. more \in Seq(Byte) /\ more # <<>>
    <3>1. Len(more) = size /\ more \in Seq(Byte)
      BY <2>1, <2>2
    <3>2. Len(<<>>) = 0 /\ size # 0
      BY <2>2
    <3> HIDE DEF more
    <3> QED BY <3>1, <3>2
  <2> HIDE DEF more
  <2>5. (chunk \o s) \o more = chunk \o (s \o more)
    BY <1>0, <2>3, <2>4, ConcatAssociative
  <2>6. chunk \o s \in Seq(Byte)
    BY <1>0, <2>3, ConcatProperties
  <2> DEFINE q == chunk \o s
  <2>7. Queued = q /\ Queued' = q \o more /\ q \in Seq(Byte)
    BY <1>0, <2>2, <2>5, <2>6 DEF Queued, s
  <2> HIDE DEF q
  <2>8. Queued' \in Seq(Byte) /\ Len(Queued') > Len(Queued) /\ SubSeq(Queued', 1, Len(Queued)) = Queued
    BY <2>4, <2>7, AddsBehind
  <2> QED BY <1>0, <2>8 DEF Pipe!Put, Queued
<1> QED BY <1>1, <1>2

LEMMA GetQueues ==
  ASSUME IInv, Get
  PROVE  Queued' = Queued /\ shown' = shown
<1>0. RingOK /\ chunk = <<>> /\ GetLine /\ shown' = shown
  BY TypeIsRing DEF IInv, Restful, Get
<1>1. CASE Used = 0
  <2>1. chunk' = chunk /\ UNCHANGED ring
    BY <1>0, <1>1 DEF GetLine
  <2> QED BY <1>0, <2>1, RingFrame DEF Queued
<1>2. CASE Used # 0
  <2> DEFINE s == Stored
             g == GetSize
  <2>1. s \in Seq(Byte) /\ g \in 1 .. Len(s)
    BY <1>0, <1>2, StoredType, GetSizeRange
  <2>2. chunk' = SubSeq(s, 1, g) /\ Stored' = SubSeq(s, g + 1, Len(s))
    BY <1>0, <1>2, GetTakesFront
  <2> HIDE DEF s, g
  <2>3. SubSeq(s, 1, g) \o SubSeq(s, g + 1, Len(s)) = s
    BY <2>1, SplitAgain
  <2>4. <<>> \o s = s
    BY <2>1, ConcatEmptySeq
  <2>5. Queued' = s /\ Queued = s
    BY <1>0, <2>2, <2>3, <2>4 DEF Queued, s
  <2> QED BY <1>0, <2>5
<1> QED BY <1>1, <1>2

LEMMA EmitTakes ==
  ASSUME IInv, Emit
  PROVE  Pipe!Take \/ (Queued' = Queued /\ shown' = shown)
<1>0. /\ RingOK /\ chunk \in Seq(Byte) /\ shown \in Seq(Byte)
      /\ shown' = shown \o chunk /\ chunk' = <<>> /\ UNCHANGED ring
  BY TypeIsRing DEF IInv, TypeOK, Emit
<1>1. Stored \in Seq(Byte) /\ Stored' = Stored
  BY <1>0, StoredType, RingFrame
<1>2. Queued' = Stored
  <2>1. <<>> \o Stored = Stored
    BY <1>1, ConcatEmptySeq
  <2> QED BY <1>0, <1>1, <2>1 DEF Queued
<1>3. CASE chunk = <<>>
  <2>1. shown \o <<>> = shown
    BY <1>0, ConcatEmptySeq
  <2> QED BY <1>0, <1>1, <1>3, <2>1 DEF Queued
<1>4. CASE chunk # <<>>
  <2>1. SubSeq(Queued, 1, Len(chunk)) = chunk /\ SubSeq(Queued, Len(chunk) + 1, Len(Queued)) = Stored
    BY <1>0, <1>1, TakesFront DEF Queued
  <2>2. Len(chunk) \in 1 .. Len(Queued)
    <3>1. Len(chunk) \in Nat \ {0} /\ Len(Stored) \in Nat
      BY <1>0, <1>1, <1>4, EmptySeq, LenProperties
    <3>2. Len(Queued) = Len(chunk) + Len(Stored)
      BY <1>0, <1>1, ConcatProperties DEF Queued
    <3> QED BY <3>1, <3>2
  <2>3. Pipe!Take
    <3>1. shown' = shown \o SubSeq(Queued, 1, Len(chunk))
          /\ Queued' = SubSeq(Queued, Len(chunk) + 1, Len(Queued))
      BY <1>0, <1>2, <2>1
    <3> QED BY <2>2, <3>1 DEF Pipe!Take, Queued
  <2> QED BY <2>3
<1> QED BY <1>3, <1>4

\* From async_put_log to elog_port_output, around the end of the buffer and
\* through the poll buffer, no byte is lost, doubled or overtaken.
THEOREM PipeIsFifo == ASSUME SomethingToSay PROVE Spec => IsFifo
<1>1. Init => Pipe!Init
  <2> SUFFICES ASSUME Init PROVE Pipe!Init
    OBVIOUS
  <2>1. RingOK /\ Used = 0
    BY InitIInv, TypeIsRing DEF IInv, Fresh, Init
  <2>2. Stored = <<>>
    <3>1. Stored \in Seq(Byte) /\ Len(Stored) = 0
      BY <2>1, StoredType
    <3> QED BY <3>1, EmptySeq
  <2>3. chunk = <<>> /\ shown = <<>>
    BY DEF Init
  <2>4. <<>> \o <<>> = <<>>
    BY ConcatEmptySeq
  <2> QED BY <2>2, <2>3, <2>4 DEF Pipe!Init
<1>2. IInv /\ [Next]_vars => [Pipe!Next]_<<chunk \o Stored, shown>>
  <2> SUFFICES ASSUME IInv, [Next]_vars
               PROVE  Pipe!Put \/ Pipe!Take \/ (Queued' = Queued /\ shown' = shown)
    BY DEF Pipe!Next, Queued
  <2>1. ASSUME UNCHANGED <<ring, chunk, shown>> PROVE Queued' = Queued /\ shown' = shown
    BY <2>1, RingFrame DEF Queued
  <2>2. CASE \E c \in Callers : Put(c)
    BY <2>2, PutQueues
  <2>3. CASE Get
    BY <2>3, GetQueues
  <2>4. CASE Emit
    BY <2>4, EmitTakes
  <2>5. CASE \E c \in Callers : (\E log \in Logs : Call(c, log)) \/ Notice(c)
    BY <2>1, <2>5 DEF Call, Notice, thread
  <2>6. CASE Test \/ Wait \/ ElogInit \/ ElogStart \/ ElogStop \/ ElogDeinit \/ OwnerSteps
    BY <2>1, <2>6 DEF Test, Wait, ElogInit, ElogStart, ElogStop, ElogDeinit, OwnerSteps,
                      ElogStartMode, ElogStopMode, DeinitNotice, DeinitJoin, thread
  <2>7. CASE UNCHANGED vars
    BY <2>1, <2>7 DEF vars, thread
  <2> QED BY <2>2, <2>3, <2>4, <2>5, <2>6, <2>7 DEF Next, OutputThread
<1> QED BY <1>1, <1>2, IInvAlways, PTL DEF Spec, IsFifo, Pipe!Spec

-----------------------------------------------------------------------------
(* Whole words. *)

LEMMA DivMod ==
  ASSUME NEW W \in Nat \ {0}, NEW a \in Int
  PROVE  /\ a = ((a \div W) * W) + (a % W)
         /\ a % W \in 0 .. W - 1 /\ a \div W \in Int
  OBVIOUS

LEMMA DivModIs ==
  ASSUME NEW W \in Nat \ {0}, NEW q \in Int, NEW rem \in 0 .. W - 1, NEW a,
         a = (q * W) + rem
  PROVE  a % W = rem /\ a \div W = q
<1>0. a \in Int
  OBVIOUS
<1>a. PICK p \in Int : p = a \div W
  BY <1>0, DivMod
<1>b. PICK s \in 0 .. W - 1 : s = a % W
  BY <1>0, DivMod
<1>1. (q * W) + rem = (p * W) + s
  BY <1>0, <1>a, <1>b, DivMod
<1>2. (q - p) * W = s - rem
  BY <1>1
<1>3. CASE q - p >= 1
  <2>1. (q - p) * W >= W
    BY <1>3
  <2> QED BY <1>2, <2>1
<1>4. CASE q - p <= -1
  <2>1. (q - p) * W <= -W
    BY <1>4
  <2> QED BY <1>2, <2>1
<1>5. CASE q = p
  BY <1>1, <1>5, <1>a, <1>b
<1>6. q - p >= 1 \/ q - p <= -1 \/ q = p
  OBVIOUS
<1> QED BY <1>3, <1>4, <1>5, <1>6

\* What is missing to a whole word.
LEMMA FilledUp ==
  ASSUME NEW W \in Nat \ {0}, NEW len \in Nat
  PROVE  /\ (W - (len % W)) % W \in 0 .. W - 1
         /\ (W - (len % W)) % W = IF len % W = 0 THEN 0 ELSE W - (len % W)
         /\ (len + ((W - (len % W)) % W)) % W = 0
<1>a. PICK q \in Int : q = len \div W
  BY DivMod
<1>b. PICK rem \in 0 .. W - 1 : rem = len % W
  BY DivMod
<1>1. len = (q * W) + rem
  BY <1>a, <1>b, DivMod
<1>2. CASE rem = 0
  <2>1. W - rem = (1 * W) + 0 /\ 0 \in 0 .. W - 1
    BY <1>2
  <2>2. (W - rem) % W = 0
    BY <2>1, DivModIs
  <2>3. (len + 0) % W = 0 /\ len % W = 0
    BY <1>b, <1>2
  <2> QED BY ONLY <1>b, <1>2, <2>2, <2>3
<1>3. CASE rem # 0
  <2>1. W - rem = (0 * W) + (W - rem) /\ W - rem \in 0 .. W - 1
    BY <1>3
  <2>2. (W - rem) % W = W - rem
    <3>1. PICK a : a = W - rem
      OBVIOUS
    <3>2. a = (0 * W) + a /\ a \in 0 .. W - 1
      BY <2>1, <3>1
    <3>3. a % W = a
      BY ONLY <3>2, DivModIs, W \in Nat \ {0}
    <3> QED BY <3>1, <3>3
  <2>3. len + (W - rem) = ((q + 1) * W) + 0 /\ 0 \in 0 .. W - 1 /\ q + 1 \in Int
    BY <1>1
  <2>4. (len + (W - rem)) % W = 0
    <3>1. PICK a : a = len + (W - rem)
      OBVIOUS
    <3>a. PICK k \in Int : k = q + 1
      OBVIOUS
    <3>2. a = (k * W) + 0 /\ 0 \in 0 .. W - 1
      BY <2>3, <3>1, <3>a
    <3>3. a % W = 0
      BY ONLY <3>2, DivModIs, W \in Nat \ {0}, k \in Int
    <3> QED BY <3>1, <3>3
  <2> QED BY <1>b, <1>3, <2>1, <2>2, <2>4
<1> QED BY <1>2, <1>3

-----------------------------------------------------------------------------
(***************************************************************************)
(* The flash plugin.  The bytes of each writer are inductive with what the *)
(* writers in between have in their hands.                                 *)
(***************************************************************************)

Cell == (Writers \X Nat) \cup {Pad}

\* The bytes of writer t behind the k-th, up to the l-th.
Stretch(t, k, l) == [i \in 1 .. l - k |-> <<t, k + i>>]

\* Two sequences in one, and the two parts of one: by names of their own, for
\* which the provers see no elements.
Cat(x, y) == x \o y

First(x, j) == SubSeq(x, 1, j)

Behind(x, j) == SubSeq(x, j + 1, Len(x))

\* The bytes that writer t has handed over to the plugin.
Handed(t) == sent[t] - Len(rest[t])

FlashTypeOK ==
  /\ flash \in Seq(Cell) /\ flashBuf \in Seq(Cell)
  /\ flashAt \in [Writers -> {"idle", "write", "flush"}]
  /\ rest \in [Writers -> Seq(Cell)]
  /\ sent \in [Writers -> Nat] /\ cleaned \in [Writers -> Nat]
  /\ flashFailed \in BOOLEAN

InHands == \A t \in Writers :
  /\ cleaned[t] <= Handed(t) /\ rest[t] = Stretch(t, Handed(t), sent[t])
  /\ flashAt[t] = "idle" => rest[t] = <<>>

FlashInv == FlashTypeOK /\ InHands /\ FlashKeepsBytes

LEMMA StretchIs ==
  ASSUME NEW t \in Writers, NEW k \in Nat, NEW l \in Nat, k <= l
  PROVE  /\ Stretch(t, k, l) \in Seq({t} \X Nat) /\ Stretch(t, k, l) \in Seq(Cell)
         /\ Len(Stretch(t, k, l)) = l - k
         /\ \A i \in 1 .. l - k : Stretch(t, k, l)[i] = <<t, k + i>>
<1>1. \A i \in 1 .. l - k : <<t, k + i>> \in {t} \X Nat /\ <<t, k + i>> \in Cell
  BY DEF Cell
<1>2. l - k \in Nat
  OBVIOUS
<1> QED BY <1>1, <1>2 DEF Stretch

\* A stretch in two parts.
LEMMA StretchConcat ==
  ASSUME NEW t \in Writers, NEW k \in Nat, NEW m \in Nat, NEW l \in Nat, k <= m, m <= l
  PROVE  Cat(Stretch(t, k, m), Stretch(t, m, l)) = Stretch(t, k, l)
<1> DEFINE x == Stretch(t, k, m)
           y == Stretch(t, m, l)
           z == Stretch(t, k, l)
<1>1. /\ x \in Seq(Cell) /\ Len(x) = m - k /\ \A i \in 1 .. m - k : x[i] = <<t, k + i>>
  BY StretchIs
<1>2. /\ y \in Seq(Cell) /\ Len(y) = l - m /\ \A i \in 1 .. l - m : y[i] = <<t, m + i>>
  BY StretchIs
<1>3. /\ z \in Seq(Cell) /\ Len(z) = l - k /\ \A i \in 1 .. l - k : z[i] = <<t, k + i>>
  <2>1. k <= l
    OBVIOUS
  <2> QED BY <2>1, StretchIs
<1> HIDE DEF x, y, z
<1>4. /\ x \o y \in Seq(Cell) /\ Len(x \o y) = Len(x) + Len(y)
      /\ \A i \in 1 .. Len(x) + Len(y) : (x \o y)[i] = IF i <= Len(x) THEN x[i] ELSE y[i - Len(x)]
  BY <1>1, <1>2, ConcatProperties
<1>5. ASSUME NEW i \in 1 .. l - k PROVE (x \o y)[i] = z[i]
  <2>0. (x \o y)[i] = IF i <= m - k THEN x[i] ELSE y[i - (m - k)]
    <3>1. Len(x) + Len(y) = l - k
      BY <1>1, <1>2
    <3> QED BY ONLY <1>1, <1>4, <3>1, i \in 1 .. l - k
  <2>1. CASE i <= m - k
    <3>1. i \in 1 .. m - k
      BY <2>1
    <3> QED BY <1>1, <1>3, <2>0, <2>1, <3>1
  <2>2. CASE ~(i <= m - k)
    <3>1. i - (m - k) \in 1 .. l - m /\ m + (i - (m - k)) = k + i
      BY <2>2
    <3> QED BY <1>2, <1>3, <2>0, <2>2, <3>1
  <2> QED BY <2>1, <2>2
<1>6. Len(x \o y) = l - k
  BY <1>1, <1>2, <1>4
<1>7. x \o y = z
  BY ONLY <1>3, <1>4, <1>5, <1>6, SeqEqual
<1> QED BY <1>7 DEF x, y, z, Cat

LEMMA StretchPart ==
  ASSUME NEW t \in Writers, NEW k \in Nat, NEW m \in Nat, NEW l \in Nat, k <= m, m <= l
  PROVE  /\ First(Stretch(t, k, l), m - k) = Stretch(t, k, m)
         /\ Behind(Stretch(t, k, l), m - k) = Stretch(t, m, l)
<1>0. PICK j \in Nat, n \in Nat : j = m - k /\ n = l - k
  OBVIOUS
<1> DEFINE x == Stretch(t, k, l)
           y == Stretch(t, k, m)
           z == Stretch(t, m, l)
<1>1. /\ x \in Seq(Cell) /\ Len(x) = n /\ \A i \in 1 .. n : x[i] = <<t, k + i>>
  <2>1. k <= l
    OBVIOUS
  <2> QED BY <1>0, <2>1, StretchIs
<1>2. /\ y \in Seq(Cell) /\ Len(y) = j /\ \A i \in 1 .. j : y[i] = <<t, k + i>>
  BY <1>0, StretchIs
<1>3. /\ z \in Seq(Cell) /\ Len(z) = n - j /\ \A i \in 1 .. n - j : z[i] = <<t, m + i>>
  <2>1. l - m = n - j
    BY <1>0
  <2>2. /\ z \in Seq(Cell) /\ Len(z) = l - m /\ \A i \in 1 .. l - m : z[i] = <<t, m + i>>
    BY StretchIs
  <2> QED BY ONLY <2>1, <2>2
<1> HIDE DEF x, y, z
<1>4. /\ SubSeq(x, 1, j) \in Seq(Cell) /\ Len(SubSeq(x, 1, j)) = j
      /\ \A i \in 1 .. j : SubSeq(x, 1, j)[i] = x[i]
  BY <1>0, <1>1, SubSeqProperties
<1>5. /\ SubSeq(x, j + 1, n) \in Seq(Cell) /\ Len(SubSeq(x, j + 1, n)) = n - j
      /\ \A i \in 1 .. n - j : SubSeq(x, j + 1, n)[i] = x[j + i]
  BY <1>0, <1>1, SubSeqProperties
<1>6. SubSeq(x, 1, j) = y
  <2>1. ASSUME NEW i \in 1 .. j PROVE SubSeq(x, 1, j)[i] = y[i]
    <3>1. i \in 1 .. n
      BY <1>0
    <3> QED BY <1>1, <1>2, <1>4, <3>1
  <2> QED BY <1>2, <1>4, <2>1, SeqEqual
<1>7. SubSeq(x, j + 1, n) = z
  <2>1. ASSUME NEW i \in 1 .. n - j PROVE SubSeq(x, j + 1, n)[i] = z[i]
    <3>1. j + i \in 1 .. n /\ k + (j + i) = m + i
      BY <1>0
    <3> QED BY <1>1, <1>3, <1>5, <3>1
  <2> QED BY <1>3, <1>5, <2>1, SeqEqual
<1>8. First(x, j) = y /\ Behind(x, j) = z
  BY ONLY <1>1, <1>6, <1>7 DEF First, Behind
<1> QED BY ONLY <1>0, <1>8 DEF x, y, z

\* What there is of writer t in a stretch of its own or of another, and in padding.
LEMMA BytesIn ==
  ASSUME NEW t \in Writers, NEW u \in Writers, NEW k \in Nat, NEW l \in Nat, k <= l
  PROVE  Only(Stretch(u, k, l), {t} \X Nat) = IF u = t THEN Stretch(u, k, l) ELSE <<>>
<1> DEFINE x == Stretch(u, k, l)
<1>1. x \in Seq({u} \X Nat)
  BY StretchIs
<1> HIDE DEF x
<1>2. ASSUME u = t PROVE Only(x, {t} \X Nat) = x
  <2>1. Only(x, {u} \X Nat) = x
    BY <1>1, OnlyAll, Zenon
  <2> QED BY <1>2, <2>1, Zenon
<1>3. ASSUME u # t PROVE Only(x, {t} \X Nat) = <<>>
  <2>1. ({t} \X Nat) \cap ({u} \X Nat) = {}
    BY <1>3
  <2> QED BY <1>1, <2>1, OnlyNone, Zenon
<1> QED BY <1>2, <1>3 DEF x

LEMMA PaddingIs ==
  ASSUME FlashAssumption, NEW len \in Nat
  PROVE  /\ Padding(len) \in Seq(Cell)
         /\ (len + Len(Padding(len))) % Word = 0
         /\ \A t \in Writers : Only(Padding(len), {t} \X Nat) = <<>>
<1> DEFINE m == (Word - (len % Word)) % Word
<1>1. m \in Nat
  BY FilledUp DEF FlashAssumption
<1>2. Padding(len) = [i \in 1 .. m |-> Pad]
  BY DEF Padding
<1> HIDE DEF m
<1>3. Padding(len) \in Seq({Pad}) /\ Padding(len) \in Seq(Cell) /\ Len(Padding(len)) = m
  BY <1>1, <1>2 DEF Cell
<1>4. (len + m) % Word = 0
  BY FilledUp DEF m, FlashAssumption
<1>5. ASSUME NEW t \in Writers PROVE Only(Padding(len), {t} \X Nat) = <<>>
  <2>1. Pad \notin {t} \X Nat
    BY DEF Pad, FlashAssumption
  <2>2. ({t} \X Nat) \cap {Pad} = {}
    BY <2>1
  <2> QED BY <1>3, <2>2, OnlyNone
<1> QED BY <1>3, <1>4, <1>5

\* The bytes of a writer that are kept, as a stretch.
LEMMA KeptIs ==
  ASSUME FlashTypeOK, InHands
  PROVE  FlashKeepsBytes <=>
           /\ Len(flash) % Word = 0 /\ Len(flashBuf) <= FlashSize
           /\ ~flashFailed => \A t \in Writers : BytesOf(t) = Stretch(t, cleaned[t], Handed(t))
BY DEF FlashKeepsBytes, Stretch, Handed

\* What a sequence at the end adds to the bytes of each writer.
LEMMA BytesMore ==
  ASSUME NEW f \in Seq(Cell), NEW x \in Seq(Cell), NEW y \in Seq(Cell), NEW S
  PROVE  Only(Cat(f, Cat(x, y)), S) = Cat(Only(Cat(f, x), S), Only(y, S))
<1>1. f \o (x \o y) = (f \o x) \o y
  BY ConcatAssociative
<1>2. PICK z : z = f \o x
  OBVIOUS
<1>3. z \in Seq(Cell)
  BY <1>2, ConcatProperties
<1>4. Only(z \o y, S) = Only(z, S) \o Only(y, S)
  BY <1>3, OnlyConcat, Zenon
<1> QED BY <1>1, <1>2, <1>4 DEF Cat

LEMMA FlashInitInv == ASSUME FlashAssumption, FlashInit PROVE FlashInv
<1>0. <<>> \in Seq(Cell) /\ Len(<<>>) = 0
  BY EmptySeq
<1>1. FlashTypeOK
  BY <1>0 DEF FlashInit, FlashTypeOK
<1>2. \A t \in Writers : rest[t] = <<>> /\ cleaned[t] = 0 /\ sent[t] = 0 /\ Handed(t) = 0
  BY <1>0 DEF FlashInit, Handed
<1>3. \A t \in Writers : Stretch(t, 0, 0) = <<>>
  BY DEF Stretch
<1>4. InHands
  BY <1>2, <1>3 DEF InHands
<1>5. flash \o flashBuf = <<>>
  BY <1>0, ConcatEmptySeq DEF FlashInit
<1>6. 0 % Word = 0
  BY DivModIs, 0 = (0 * Word) + 0 DEF FlashAssumption
<1>7. \A t \in Writers : BytesOf(t) = Stretch(t, cleaned[t], Handed(t))
  BY <1>2, <1>3, <1>5, OnlyEmpty DEF BytesOf
<1>8. Len(flash) = 0 /\ Len(flashBuf) = 0
  BY <1>0 DEF FlashInit
<1>9. FlashKeepsBytes
  BY <1>1, <1>4, <1>6, <1>7, <1>8, KeptIs DEF FlashAssumption
<1> QED BY <1>1, <1>4, <1>9 DEF FlashInv

LEMMA FlashByWrite ==
  ASSUME FlashAssumption, FlashInv, NEW t \in Writers, FlashWrite(t)
  PROVE  FlashInv'
<1>1. PICK len \in FlashLens :
        /\ rest' = [rest EXCEPT ![t] = [i \in 1 .. len |-> <<t, sent[t] + i>>]]
        /\ sent' = [sent EXCEPT ![t] = @ + len]
  BY DEF FlashWrite
<1>2. /\ UNCHANGED <<flash, flashBuf, cleaned, flashFailed>>
      /\ flashAt[t] = "idle" /\ flashAt' = [flashAt EXCEPT ![t] = "write"]
  BY DEF FlashWrite
<1>3. PICK k \in Nat, l \in Nat : k = sent[t] /\ l = sent[t] + len /\ len = l - k /\ k <= l
  <2>1. sent[t] \in Nat /\ len \in Nat
    BY DEF FlashInv, FlashTypeOK, FlashAssumption
  <2> QED BY <2>1
<1>4. PICK x : x = Stretch(t, k, l)
  OBVIOUS
<1>5. x \in Seq(Cell) /\ Len(x) = l - k
  BY <1>3, <1>4, StretchIs
<1>6. rest' = [rest EXCEPT ![t] = x] /\ sent' = [sent EXCEPT ![t] = l]
  BY <1>1, <1>3, <1>4 DEF Stretch
<1>7. rest[t] = <<>> /\ Len(rest[t]) = 0
  BY <1>2, EmptySeq DEF FlashInv, InHands
<1>8. FlashTypeOK'
  <2>1. flash' \in Seq(Cell) /\ flashBuf' \in Seq(Cell) /\ cleaned' \in [Writers -> Nat]
        /\ flashFailed' \in BOOLEAN
    BY <1>2 DEF FlashInv, FlashTypeOK
  <2>2. rest' \in [Writers -> Seq(Cell)]
    BY <1>5, <1>6 DEF FlashInv, FlashTypeOK
  <2>3. sent' \in [Writers -> Nat]
    BY <1>6 DEF FlashInv, FlashTypeOK
  <2>4. flashAt' \in [Writers -> {"idle", "write", "flush"}]
    BY <1>2 DEF FlashInv, FlashTypeOK
  <2> QED BY <2>1, <2>2, <2>3, <2>4 DEF FlashTypeOK
<1>9. /\ \A u \in Writers \ {t} : /\ rest'[u] = rest[u] /\ sent'[u] = sent[u]
                                  /\ flashAt'[u] = flashAt[u]
      /\ rest'[t] = x /\ sent'[t] = l /\ flashAt'[t] = "write"
  BY <1>2, <1>6 DEF FlashInv, FlashTypeOK
<1>10. \A u \in Writers : Handed(u)' = Handed(u)
  <2>1. \A u \in Writers \ {t} : Handed(u)' = Handed(u)
    BY <1>9 DEF Handed
  <2>2. Handed(t)' = l - (l - k) /\ Handed(t) = k - 0
    BY <1>3, <1>5, <1>7, <1>9 DEF Handed
  <2> QED BY <2>1, <2>2
<1>11. Handed(t) = k
  BY <1>3, <1>7 DEF Handed
<1>12. InHands'
  BY <1>2, <1>4, <1>9, <1>10, <1>11 DEF FlashInv, InHands
<1>13. FlashKeepsBytes'
  <2>1. \A u \in Writers : BytesOf(u)' = BytesOf(u) /\ (sent[u] - Len(rest[u]))' = sent[u] - Len(rest[u])
    BY <1>2, <1>10 DEF BytesOf, Handed
  <2> QED BY <1>2, <2>1 DEF FlashInv, FlashKeepsBytes
<1> QED BY <1>8, <1>12, <1>13 DEF FlashInv

\* t hands over the next of its bytes, those up to m.
LEMMA FlashByFill ==
  ASSUME FlashAssumption, FlashInv, NEW t \in Writers, FlashFill(t)
  PROVE  FlashInv'
<1>0. /\ flash \in Seq(Cell) /\ flashBuf \in Seq(Cell) /\ rest[t] \in Seq(Cell)
      /\ Len(flashBuf) \in Nat /\ Len(flashBuf) <= FlashSize /\ FlashSize \in Nat
      /\ \A u \in Writers : sent[u] \in Nat /\ cleaned[u] \in Nat /\ Len(rest[u]) \in Nat
  BY DEF FlashInv, FlashTypeOK, FlashKeepsBytes, FlashAssumption
<1>1. PICK room \in Nat : room = FlashSize - Len(flashBuf)
  <2>1. FlashSize - Len(flashBuf) \in Nat
    BY <1>0
  <2> QED BY <2>1
<1>2. PICK n \in Nat :
        /\ n <= Len(rest[t]) /\ n <= room
        /\ flashBuf' = flashBuf \o SubSeq(rest[t], 1, n)
        /\ rest' = [rest EXCEPT ![t] = SubSeq(rest[t], n + 1, Len(rest[t]))]
        /\ \/ flashAt' = [flashAt EXCEPT ![t] = "flush"]
           \/ flashAt' = [flashAt EXCEPT ![t] = "idle"] /\ n = Len(rest[t])
  <2>1. CASE Len(rest[t]) > room
    <3>1. /\ flashBuf' = flashBuf \o SubSeq(rest[t], 1, room)
          /\ rest' = [rest EXCEPT ![t] = SubSeq(rest[t], room + 1, Len(rest[t]))]
          /\ flashAt' = [flashAt EXCEPT ![t] = "flush"]
      BY <1>1, <2>1 DEF FlashFill, Taken
    <3>2. room <= Len(rest[t]) /\ room <= room
      BY <1>0, <1>1, <2>1
    <3> QED BY <3>1, <3>2
  <2>2. CASE ~(Len(rest[t]) > room)
    <3>1. /\ flashBuf' = flashBuf \o rest[t] /\ rest' = [rest EXCEPT ![t] = <<>>]
          /\ flashAt' = [flashAt EXCEPT ![t] = "idle"]
      BY <1>0, <1>1, <2>2 DEF FlashFill
    <3>2. SubSeq(rest[t], 1, Len(rest[t])) = rest[t]
      BY <1>0, SubSeqFull
    <3>3. SubSeq(rest[t], Len(rest[t]) + 1, Len(rest[t])) = <<>>
      BY <1>0, SubSeqEmpty
    <3>4. Len(rest[t]) \in Nat /\ Len(rest[t]) <= Len(rest[t]) /\ Len(rest[t]) <= room
      BY <1>0, <2>2
    <3> QED BY <3>1, <3>2, <3>3, <3>4
  <2> QED BY <2>1, <2>2
<1>3. UNCHANGED <<flash, sent, cleaned, flashFailed>>
  BY DEF FlashFill
<1>4. PICK k \in Nat, l \in Nat : k = Handed(t) /\ l = sent[t] /\ Len(rest[t]) = l - k /\ k <= l
  <2>1. cleaned[t] <= Handed(t)
    BY DEF FlashInv, InHands
  <2>2. Handed(t) \in Nat
    BY <1>0, <2>1 DEF Handed
  <2> QED BY <1>0, <2>2 DEF Handed
<1>5. PICK m \in Nat : m = k + n /\ n = m - k /\ k <= m /\ m <= l
  <2>1. n <= l - k
    BY <1>2, <1>4
  <2> QED BY ONLY <2>1, n \in Nat, k \in Nat, l \in Nat
<1>6. PICK y : y = Stretch(t, k, m)
  OBVIOUS
<1>7. PICK z : z = Stretch(t, m, l)
  OBVIOUS
<1>8. First(rest[t], n) = y /\ Behind(rest[t], n) = z
  <2>1. rest[t] = Stretch(t, k, l)
    BY <1>4 DEF FlashInv, InHands
  <2>2. First(Stretch(t, k, l), m - k) = Stretch(t, k, m) /\ Behind(Stretch(t, k, l), m - k) = Stretch(t, m, l)
    BY <1>5, StretchPart
  <2> QED BY ONLY <1>5, <1>6, <1>7, <2>1, <2>2
<1>9. y \in Seq(Cell) /\ Len(y) = n /\ z \in Seq(Cell) /\ Len(z) = l - m
  <2>1. y \in Seq(Cell) /\ Len(y) = m - k
    BY <1>5, <1>6, StretchIs
  <2>2. z \in Seq(Cell) /\ Len(z) = l - m
    BY <1>5, <1>7, StretchIs
  <2> QED BY ONLY <1>5, <2>1, <2>2
<1>10. /\ flashBuf' = flashBuf \o y /\ rest' = [rest EXCEPT ![t] = z]
       /\ \A u \in Writers \ {t} : rest'[u] = rest[u] /\ flashAt'[u] = flashAt[u]
       /\ rest'[t] = z /\ flashAt'[t] \in {"flush", "idle"}
       /\ flashAt'[t] = "idle" => n = Len(rest[t])
  BY <1>2, <1>8 DEF FlashInv, FlashTypeOK, First, Behind
<1>11. FlashTypeOK'
  <2>1. flashBuf' \in Seq(Cell)
    BY <1>0, <1>9, <1>10, ConcatProperties
  <2>2. /\ flash' \in Seq(Cell) /\ sent' \in [Writers -> Nat] /\ cleaned' \in [Writers -> Nat]
        /\ flashFailed' \in BOOLEAN
    BY <1>3 DEF FlashInv, FlashTypeOK
  <2>3. rest' \in [Writers -> Seq(Cell)]
    BY <1>9, <1>10 DEF FlashInv, FlashTypeOK
  <2>4. flashAt' \in [Writers -> {"idle", "write", "flush"}]
    BY <1>2 DEF FlashInv, FlashTypeOK
  <2> QED BY <2>1, <2>2, <2>3, <2>4 DEF FlashTypeOK
<1>12. \A u \in Writers \ {t} : Handed(u)' = Handed(u)
  BY <1>3, <1>10 DEF Handed
<1>13. Handed(t)' = m
  <2>1. Handed(t)' = l - (l - m)
    BY <1>3, <1>4, <1>9, <1>10 DEF Handed
  <2> QED BY <2>1
<1>14. cleaned[t] \in Nat /\ cleaned[t] <= k
  BY <1>0, <1>4 DEF FlashInv, InHands
<1>15. InHands'
  <2>1. ASSUME NEW u \in Writers \ {t}
        PROVE  /\ (cleaned[u] <= Handed(u) /\ rest[u] = Stretch(u, Handed(u), sent[u]))'
               /\ (flashAt[u] = "idle" => rest[u] = <<>>)'
    BY <1>3, <1>10, <1>12 DEF FlashInv, InHands
  <2>2. cleaned'[t] <= m
    BY <1>3, <1>5, <1>14
  <2>3. rest'[t] = Stretch(t, m, sent'[t])
    BY <1>3, <1>4, <1>7, <1>10
  <2>4. flashAt'[t] = "idle" => rest'[t] = <<>>
    <3>1. n = l - k => l - m = 0
      BY <1>5
    <3> QED BY <1>4, <1>9, <1>10, <3>1, EmptySeq
  <2> QED BY <1>13, <2>1, <2>2, <2>3, <2>4 DEF InHands
<1>16. Len(flashBuf') <= FlashSize
  <2>1. Len(flashBuf') = Len(flashBuf) + n
    BY <1>0, <1>9, <1>10, ConcatProperties
  <2> QED BY <1>0, <1>1, <1>2, <2>1
<1>17. ASSUME ~flashFailed', NEW u \in Writers
       PROVE  BytesOf(u)' = Stretch(u, cleaned'[u], Handed(u)')
  <2>1. BytesOf(u) = Stretch(u, cleaned[u], Handed(u))
    BY <1>3, <1>17, KeptIs DEF FlashInv
  <2>2. BytesOf(u)' = BytesOf(u) \o Only(y, {u} \X Nat)
    <3>1. PICK S : S = {u} \X Nat
      OBVIOUS
    <3>2. Only(Cat(flash, Cat(flashBuf, y)), S) = Cat(Only(Cat(flash, flashBuf), S), Only(y, S))
      BY <1>0, <1>9, BytesMore
    <3>3. flash' = flash /\ flashBuf' = flashBuf \o y
      BY <1>3, <1>10
    <3> QED BY ONLY <3>1, <3>2, <3>3 DEF BytesOf, Cat
  <2>3. Only(y, {u} \X Nat) = IF t = u THEN y ELSE <<>>
    BY <1>5, <1>6, BytesIn
  <2>4. CASE t = u
    <3>1. PICK c \in Nat : c = cleaned[t] /\ c <= k
      BY <1>14
    <3>2. Cat(Stretch(t, c, k), Stretch(t, k, m)) = Stretch(t, c, m)
      BY <1>5, <3>1, StretchConcat
    <3>3. BytesOf(u) = Stretch(t, c, k) /\ cleaned'[u] = c /\ Handed(u)' = m
      BY <1>3, <1>4, <1>13, <2>1, <2>4, <3>1
    <3>4. BytesOf(u)' = Cat(BytesOf(u), y)
      BY ONLY <2>2, <2>3, <2>4 DEF Cat
    <3> QED BY ONLY <1>6, <2>4, <3>2, <3>3, <3>4
  <2>5. CASE t # u
    <3>1. BytesOf(u)' = BytesOf(u) \o <<>>
      BY ONLY <2>2, <2>3, <2>5
    <3>2. PICK a \in Nat, b \in Nat : a = cleaned[u] /\ b = Handed(u) /\ a <= b
      BY <1>0 DEF FlashInv, InHands, Handed
    <3>3. BytesOf(u) \in Seq(Cell)
      <4>1. Stretch(u, a, b) \in Seq(Cell)
        BY <3>2, StretchIs
      <4> QED BY ONLY <2>1, <3>2, <4>1
    <3>4. BytesOf(u)' = BytesOf(u)
      BY ONLY <3>1, <3>3, ConcatEmptySeq
    <3> QED BY <1>3, <1>12, <2>1, <2>5, <3>4
  <2> QED BY <2>4, <2>5
<1>18. FlashKeepsBytes'
  <2>1. (Len(flash) % Word = 0)'
    BY <1>3 DEF FlashInv, FlashKeepsBytes
  <2> QED BY <1>16, <1>17, <2>1 DEF FlashKeepsBytes, Stretch, Handed
<1> QED BY <1>11, <1>15, <1>18 DEF FlashInv

\* A step that leaves the writers' bytes alone.
LEMMA HandsUntouched ==
  ASSUME FlashInv, UNCHANGED <<rest, sent>>, flash' \in Seq(Cell), flashBuf' \in Seq(Cell),
         flashAt' \in [Writers -> {"idle", "write", "flush"}], flashFailed' \in BOOLEAN,
         cleaned' \in [Writers -> Nat], \A u \in Writers : cleaned'[u] <= Handed(u),
         \A u \in Writers : flashAt'[u] = "idle" => flashAt[u] = "idle"
  PROVE  FlashTypeOK' /\ InHands' /\ \A u \in Writers : Handed(u)' = Handed(u)
<1>1. \A u \in Writers : Handed(u)' = Handed(u)
  BY DEF Handed
<1>2. FlashTypeOK'
  BY DEF FlashInv, FlashTypeOK
<1>3. InHands'
  BY <1>1 DEF FlashInv, InHands
<1> QED BY <1>1, <1>2, <1>3

LEMMA FlashByFlush ==
  ASSUME FlashAssumption, FlashInv, Flushed,
         flashAt' \in [Writers -> {"idle", "write", "flush"}],
         \A u \in Writers : flashAt'[u] = "idle" => flashAt[u] = "idle"
  PROVE  FlashInv'
<1>0. /\ flash \in Seq(Cell) /\ flashBuf \in Seq(Cell) /\ FlashSize \in Nat
      /\ Len(flash) \in Nat /\ Len(flashBuf) \in Nat /\ Len(flash) % Word = 0
      /\ Word \in Nat \ {0}
  BY DEF FlashInv, FlashTypeOK, FlashKeepsBytes, FlashAssumption
<1>1. PICK p : p = Padding(Len(flashBuf))
  OBVIOUS
<1>2. /\ p \in Seq(Cell) /\ (Len(flashBuf) + Len(p)) % Word = 0
      /\ \A t \in Writers : Only(p, {t} \X Nat) = <<>>
  BY <1>0, <1>1, PaddingIs
<1>3. PICK f : f = flashBuf \o p
  OBVIOUS
<1>4. f \in Seq(Cell) /\ Len(f) = Len(flashBuf) + Len(p) /\ Len(f) \in Nat
  BY <1>0, <1>2, <1>3, ConcatProperties
<1>5. /\ flashBuf' = <<>> /\ UNCHANGED <<rest, sent, cleaned>>
      /\ \/ flash' = flash \o flashBuf \o p /\ UNCHANGED flashFailed
         \/ flashFailed' = TRUE /\ UNCHANGED flash
  BY <1>1 DEF Flushed
<1>6. /\ (flash \o flashBuf) \o p = flash \o f
      /\ flash \o f \in Seq(Cell) /\ Len(flash \o f) = Len(flash) + Len(f)
  <2>1. (flash \o flashBuf) \o p = flash \o (flashBuf \o p)
    BY ONLY <1>0, <1>2, ConcatAssociative, SMTT(30)
  <2>2. (flash \o flashBuf) \o p = flash \o f
    BY ONLY <1>3, <2>1
  <2> QED BY <1>0, <1>4, <2>2, ConcatProperties
<1>7. flash' \in Seq(Cell) /\ flashBuf' \in Seq(Cell) /\ Len(flashBuf') = 0
  BY <1>0, <1>5, <1>6, EmptySeq
<1>8. FlashTypeOK' /\ InHands' /\ \A u \in Writers : Handed(u)' = Handed(u)
  <2>1. /\ flashFailed' \in BOOLEAN /\ cleaned' \in [Writers -> Nat]
        /\ \A u \in Writers : cleaned'[u] <= Handed(u)
    BY <1>5 DEF FlashInv, FlashTypeOK, InHands
  <2> QED BY <1>5, <1>7, <2>1, HandsUntouched
<1>9. Len(flash') % Word = 0
  <2>1. CASE flash' = (flash \o flashBuf) \o p
    <3>1. PICK a \in Nat, b \in Nat : a = Len(flash) /\ b = Len(f)
      BY <1>0, <1>4
    <3>2. PICK q \in Int, rem \in Int : a = q * Word + 0 /\ b = rem * Word + 0
      <4>1. a % Word = 0 /\ b % Word = 0
        BY <1>0, <1>2, <1>4, <3>1
      <4>2. a = ((a \div Word) * Word) + 0 /\ a \div Word \in Int
        BY <1>0, <4>1, DivMod
      <4>3. b = ((b \div Word) * Word) + 0 /\ b \div Word \in Int
        BY <1>0, <4>1, DivMod
      <4> QED BY <4>2, <4>3
    <3>3. a + b = ((q + rem) * Word) + 0 /\ q + rem \in Int /\ 0 \in 0 .. Word - 1
      BY <1>0, <3>2
    <3>4. PICK s \in Int, c \in Nat : s = q + rem /\ c = a + b
      OBVIOUS
    <3>5. c % Word = 0
      <4>1. c = (s * Word) + 0
        BY ONLY <3>3, <3>4
      <4>2. PICK W \in Nat \ {0} : W = Word
        BY <1>0
      <4>3. PICK z \in 0 .. W - 1 : z = 0
        OBVIOUS
      <4>4. c = (s * W) + z
        BY ONLY <4>1, <4>2, <4>3
      <4>5. c % W = z
        BY <4>4, DivModIs
      <4> QED BY ONLY <4>2, <4>3, <4>5
    <3> QED BY ONLY <1>6, <2>1, <3>1, <3>4, <3>5
  <2>2. CASE flash' = flash
    BY <1>0, <2>2
  <2> QED BY <1>5, <2>1, <2>2
<1>10. ASSUME ~flashFailed', NEW u \in Writers PROVE BytesOf(u)' = BytesOf(u)
  <2>1. flash' = flash \o f /\ flashBuf' = <<>>
    BY <1>5, <1>6, <1>10
  <2>2. PICK S, x, h : S = {u} \X Nat /\ x = flash \o flashBuf /\ h = flash \o f
    OBVIOUS
  <2>3. Only(h, S) = Cat(Only(x, S), Only(p, S))
    <3>1. Only(Cat(flash, Cat(flashBuf, p)), S) = Cat(Only(Cat(flash, flashBuf), S), Only(p, S))
      BY <1>0, <1>2, BytesMore
    <3>2. Cat(flash, Cat(flashBuf, p)) = h /\ Cat(flash, flashBuf) = x
      BY ONLY <1>3, <2>2 DEF Cat
    <3> QED BY ONLY <3>1, <3>2
  <2>4. x \in Seq(Cell)
    BY <1>0, <2>2, ConcatProperties
  <2>5. Cat(Only(x, S), <<>>) = Only(x, S)
    <3>1. Only(x, S) \in Seq(S)
      BY <2>4, OnlyType, Zenon
    <3> QED BY ONLY <3>1, ConcatEmptySeq DEF Cat
  <2>6. Only(h, S) = Only(x, S)
    BY <1>2, <2>2, <2>3, <2>5
  <2>7. flash' \o flashBuf' = h
    BY <1>6, <2>1, <2>2, ConcatEmptySeq
  <2> QED BY ONLY <2>2, <2>6, <2>7 DEF BytesOf
<1>11. FlashKeepsBytes'
  <2>1. ASSUME ~flashFailed', NEW u \in Writers
        PROVE  BytesOf(u)' = Stretch(u, cleaned'[u], Handed(u)')
    <3>1. ~flashFailed
      BY <1>5, <2>1
    <3>2. BytesOf(u) = Stretch(u, cleaned[u], Handed(u))
      BY <3>1, KeptIs DEF FlashInv
    <3> QED BY <1>5, <1>8, <1>10, <2>1, <3>2
  <2> QED BY <1>0, <1>7, <1>9, <2>1 DEF FlashKeepsBytes, Stretch, Handed
<1> QED BY <1>8, <1>11 DEF FlashInv

LEMMA FlashByClean ==
  ASSUME FlashAssumption, FlashInv, FlashClean
  PROVE  FlashInv'
<1>0. /\ \A u \in Writers : sent[u] \in Nat /\ cleaned[u] \in Nat /\ Len(rest[u]) \in Nat
      /\ \A u \in Writers : cleaned[u] <= Handed(u)
      /\ <<>> \in Seq(Cell) /\ Len(<<>>) = 0
      /\ FlashSize \in Nat /\ Word \in Nat \ {0}
  BY EmptySeq DEF FlashInv, FlashTypeOK, InHands, FlashAssumption
<1>1. \A u \in Writers : Handed(u) \in Nat
  BY <1>0 DEF Handed
<1>2. flashBuf' = <<>> /\ UNCHANGED <<flashAt, rest, sent>>
  BY DEF FlashClean
<1>3. CASE flash' = <<>> /\ UNCHANGED flashFailed /\ cleaned' = [t \in Writers |-> Handed(t)]
  <2>1. FlashTypeOK' /\ InHands' /\ \A u \in Writers : Handed(u)' = Handed(u)
    <3>1. flashFailed' \in BOOLEAN /\ flashAt' \in [Writers -> {"idle", "write", "flush"}]
      BY <1>2, <1>3 DEF FlashInv, FlashTypeOK
    <3>2. cleaned' \in [Writers -> Nat] /\ \A u \in Writers : cleaned'[u] <= Handed(u)
      BY <1>1, <1>3
    <3> QED BY <1>0, <1>2, <1>3, <3>1, <3>2, HandsUntouched
  <2>2. \A u \in Writers : BytesOf(u)' = <<>>
    <3>1. flash' \o flashBuf' = <<>>
      BY <1>0, <1>2, <1>3, ConcatEmptySeq
    <3> QED BY <3>1, OnlyEmpty DEF BytesOf
  <2>3. \A u \in Writers : Stretch(u, cleaned'[u], Handed(u)') = <<>>
    <3>1. \A u \in Writers : cleaned'[u] = Handed(u) /\ Handed(u)' = Handed(u)
      BY <1>3, <2>1
    <3> QED BY <1>1, <3>1 DEF Stretch
  <2>4. 0 % Word = 0
    BY <1>0, DivModIs, 0 = (0 * Word) + 0
  <2>5. FlashKeepsBytes'
    <3>1. Len(flash') = 0 /\ Len(flashBuf') = 0 /\ 0 <= FlashSize
      BY <1>0, <1>2, <1>3
    <3>2. \A u \in Writers : BytesOf(u)' = Stretch(u, cleaned'[u], Handed(u)')
      BY <2>2, <2>3
    <3> QED BY <2>4, <3>1, <3>2 DEF FlashKeepsBytes, Stretch, Handed
  <2> QED BY <2>1, <2>5 DEF FlashInv
<1>4. CASE flashFailed' = TRUE /\ UNCHANGED <<flash, cleaned>>
  <2>1. FlashTypeOK' /\ InHands'
    <3>1. /\ flashAt' \in [Writers -> {"idle", "write", "flush"}]
          /\ flash' \in Seq(Cell) /\ cleaned' \in [Writers -> Nat]
      BY <1>2, <1>4 DEF FlashInv, FlashTypeOK
    <3> QED BY <1>0, <1>2, <1>4, <3>1, HandsUntouched
  <2>2. FlashKeepsBytes'
    BY <1>0, <1>2, <1>4 DEF FlashInv, FlashKeepsBytes
  <2> QED BY <2>1, <2>2 DEF FlashInv
<1> QED BY <1>3, <1>4 DEF FlashClean, Handed

LEMMA FlashStep == ASSUME FlashAssumption, FlashInv, [FlashNext]_flashVars PROVE FlashInv'
<1>1. CASE FlashClean
  BY <1>1, FlashByClean
<1>2. ASSUME NEW t \in Writers, FlashWrite(t) PROVE FlashInv'
  BY <1>2, FlashByWrite
<1>3. ASSUME NEW t \in Writers, FlashFill(t) PROVE FlashInv'
  BY <1>3, FlashByFill
<1>4. ASSUME NEW t \in Writers, FlashFlush(t) PROVE FlashInv'
  <2>1. Flushed
    BY <1>4 DEF FlashFlush
  <2>2. /\ flashAt' \in [Writers -> {"idle", "write", "flush"}]
        /\ \A u \in Writers : flashAt'[u] = "idle" => flashAt[u] = "idle"
    BY <1>4 DEF FlashFlush, FlashInv, FlashTypeOK
  <2> QED BY <2>1, <2>2, FlashByFlush
<1>5. CASE UNCHANGED flashVars
  <2>1. UNCHANGED <<flash, flashBuf, flashAt, rest, sent, cleaned, flashFailed>>
    BY <1>5 DEF flashVars
  <2>2. FlashTypeOK'
    BY <2>1 DEF FlashInv, FlashTypeOK
  <2>3. InHands'
    BY <2>1 DEF FlashInv, InHands, Handed
  <2>4. FlashKeepsBytes'
    <3>1. \A u \in Writers : BytesOf(u)' = BytesOf(u)
      BY <2>1 DEF BytesOf
    <3> QED BY <2>1, <3>1 DEF FlashInv, FlashKeepsBytes
  <2> QED BY <2>2, <2>3, <2>4 DEF FlashInv
<1> QED BY <1>1, <1>2, <1>3, <1>4, <1>5 DEF FlashNext

-----------------------------------------------------------------------------
(* The recent log that is read. *)

\* Sums, differences and multiples of whole words.
LEMMA WholeWords ==
  ASSUME NEW W \in Nat \ {0}, NEW a \in Int, NEW b \in Int, a % W = 0, b % W = 0
  PROVE  /\ (a - b) % W = 0 /\ (a \div W) * W = a
         /\ \A x \in Int : (x * a) % W = 0
<1>1. PICK p \in Int, q \in Int : a = p * W /\ b = q * W /\ p = a \div W
  <2>1. a = ((a \div W) * W) + 0 /\ a \div W \in Int
    BY DivMod
  <2>2. b = ((b \div W) * W) + 0 /\ b \div W \in Int
    BY DivMod
  <2>3. PICK p \in Int : p = a \div W
    BY <2>1
  <2>4. PICK q \in Int : q = b \div W
    BY <2>2
  <2>5. a = p * W /\ b = q * W
    <3>1. p * W \in Int /\ q * W \in Int
      OBVIOUS
    <3>2. (p * W) + 0 = p * W /\ (q * W) + 0 = q * W
      BY <3>1
    <3> QED BY <2>1, <2>2, <2>3, <2>4, <3>2
  <2> QED BY <2>3, <2>5
<1>2. PICK z \in 0 .. W - 1 : z = 0
  OBVIOUS
<1>3. (a - b) % W = 0
  <2>1. PICK c \in Int, d \in Int : c = p - q /\ d = a - b
    OBVIOUS
  <2>2. d = (c * W) + z
    <3>1. (p - q) * W = (p * W) - (q * W)
      OBVIOUS
    <3> QED BY ONLY <1>1, <1>2, <2>1, <3>1, c \in Int, W \in Nat \ {0}, a \in Int, b \in Int
  <2>3. d % W = z
    BY <2>2, DivModIs
  <2> QED BY ONLY <1>2, <2>1, <2>3
<1>4. ASSUME NEW x \in Int PROVE (x * a) % W = 0
  <2>1. PICK c \in Int, d \in Int : c = x * p /\ d = x * a
    OBVIOUS
  <2>2. d = (c * W) + z
    <3>1. x * (p * W) = (x * p) * W
      OBVIOUS
    <3> QED BY ONLY <1>1, <1>2, <2>1, <3>1
  <2>3. d % W = z
    BY <2>2, DivModIs
  <2> QED BY ONLY <1>2, <2>1, <2>3
<1>5. (a \div W) * W = a
  BY ONLY <1>1
<1> QED BY ONLY <1>3, <1>4, <1>5

\* What is left out before the end of a last chunk that began on a whole word.
LEMMA OverageIs ==
  ASSUME NEW W \in Nat \ {0}, NEW l \in Nat, l % W = 0, NEW i \in Nat
  PROVE  ((i \div W) * W) + ((W - ((l - i) % W)) % W) = i
<1>1. PICK q \in Int, rem \in 0 .. W - 1 : i = (q * W) + rem /\ q = i \div W
  BY DivMod
<1>2. PICK p \in Int : l = p * W
  <2>1. l = ((l \div W) * W) + 0 /\ l \div W \in Int
    BY DivMod
  <2> QED BY <2>1
<1>3. PICK d \in Int : d = l - i
  OBVIOUS
<1>4. (W - (d % W)) % W = rem
  <2>1. CASE rem = 0
    <3>1. PICK c \in Int, z \in 0 .. W - 1 : c = p - q /\ z = 0
      OBVIOUS
    <3>2. d = (c * W) + z
      BY <1>1, <1>2, <1>3, <2>1, <3>1
    <3>3. d % W = z
      BY <3>2, DivModIs
    <3>4. PICK o \in Int : o = 1
      OBVIOUS
    <3>5. W = (o * W) + z
      BY <3>1, <3>4
    <3>6. W % W = z
      BY <3>5, DivModIs
    <3>7. W - z = W
      BY <3>1
    <3> QED BY ONLY <2>1, <3>1, <3>3, <3>6, <3>7
  <2>2. CASE rem # 0
    <3>1. PICK c \in Int, s \in 0 .. W - 1 : c = (p - q) - 1 /\ s = W - rem
      BY <2>2
    <3>2. d = (c * W) + s
      <4>1. ((p - q) - 1) * W = (p * W) - (q * W) - W
        OBVIOUS
      <4>2. PICK a \in Int, b \in Int, e \in Int : a = p * W /\ b = q * W /\ e = c * W
        OBVIOUS
      <4>3. e = a - b - W
        BY ONLY <3>1, <4>1, <4>2
      <4>4. l = a /\ i = b + rem
        BY ONLY <1>1, <1>2, <4>2
      <4>5. d = e + s
        BY <1>3, <3>1, <4>3, <4>4
      <4> QED BY ONLY <4>2, <4>5
    <3>3. d % W = s
      BY <3>2, DivModIs
    <3>4. PICK z \in Int : z = 0
      OBVIOUS
    <3>5. rem = (z * W) + rem /\ rem \in Int
      BY <3>4
    <3>6. rem % W = rem
      BY <3>5, DivModIs
    <3>7. W - s = rem
      BY <3>1
    <3> QED BY ONLY <3>3, <3>6, <3>7
  <2> QED BY <2>1, <2>2
<1> QED BY ONLY <1>1, <1>3, <1>4

\* The elements of a sequence behind the a-th, up to the b-th.
Part(x, a, b) == SubSeq(x, a + 1, b)

LEMMA PartsConcat ==
  ASSUME NEW T, NEW x \in Seq(T), NEW a \in Nat, NEW b \in Nat, NEW c \in Nat,
         a <= b, b <= c, c <= Len(x)
  PROVE  Cat(Part(x, a, b), Part(x, b, c)) = Part(x, a, c)
<1> DEFINE p == SubSeq(x, a + 1, b)
           q == SubSeq(x, b + 1, c)
           s == SubSeq(x, a + 1, c)
<1>1. p \in Seq(T) /\ Len(p) = b - a /\ \A i \in 1 .. b - a : p[i] = x[a + i]
  BY SubSeqProperties
<1>2. q \in Seq(T) /\ Len(q) = c - b /\ \A i \in 1 .. c - b : q[i] = x[b + i]
  BY SubSeqProperties
<1>3. s \in Seq(T) /\ Len(s) = c - a /\ \A i \in 1 .. c - a : s[i] = x[a + i]
  BY SubSeqProperties
<1> HIDE DEF p, q, s
<1>4. /\ p \o q \in Seq(T) /\ Len(p \o q) = Len(p) + Len(q)
      /\ \A i \in 1 .. Len(p) + Len(q) : (p \o q)[i] = IF i <= Len(p) THEN p[i] ELSE q[i - Len(p)]
  BY <1>1, <1>2, ConcatProperties
<1>5. Len(p \o q) = c - a
  BY <1>1, <1>2, <1>4
<1>6. ASSUME NEW i \in 1 .. c - a PROVE (p \o q)[i] = s[i]
  <2>0. (p \o q)[i] = IF i <= b - a THEN p[i] ELSE q[i - (b - a)]
    <3>1. Len(p) + Len(q) = c - a
      BY <1>1, <1>2
    <3> QED BY ONLY <1>1, <1>4, <3>1, i \in 1 .. c - a
  <2>1. CASE i <= b - a
    <3>1. i \in 1 .. b - a
      BY <2>1
    <3> QED BY <1>1, <1>3, <2>0, <2>1, <3>1
  <2>2. CASE ~(i <= b - a)
    <3>1. i - (b - a) \in 1 .. c - b /\ b + (i - (b - a)) = a + i
      BY <2>2
    <3> QED BY <1>2, <1>3, <2>0, <2>2, <3>1
  <2> QED BY <2>1, <2>2
<1>7. p \o q = s
  BY ONLY <1>3, <1>4, <1>5, <1>6, SeqEqual
<1> QED BY <1>7 DEF p, q, s, Cat, Part

LEMMA RecentRead ==
  ASSUME FlashAssumption, flash \in Seq(Cell), Len(flash) % Word = 0
  PROVE  RecentIsTheEnd
<1>0. Word \in Nat \ {0} /\ Chunk \in Nat \ {0} /\ Chunk % Word = 0 /\ Len(flash) \in Nat
  BY DEF FlashAssumption
<1> SUFFICES ASSUME NEW size \in 1 .. Len(flash), size % Word = 0 \/ size <= Chunk
             PROVE  OutputRecent(size) = SubSeq(flash, Len(flash) - size + 1, Len(flash))
  BY DEF RecentIsTheEnd
<1>1. PICK len \in Nat, i \in Nat, n \in Nat : len = Len(flash) /\ i = len - size /\ n = size
  BY <1>0
<1>2. n >= 1 /\ n <= len /\ len - n = i /\ i + n = len
  BY <1>0, <1>1
<1>3. OutputRecent(size) = Output(i, n)
  BY <1>0, <1>1, <1>2 DEF OutputRecent
<1>a. PICK W \in Nat \ {0}, C \in Nat \ {0} : W = Word /\ C = Chunk
  BY <1>0
<1>b. len % W = 0 /\ C % W = 0
  BY <1>0, <1>1, <1>a
<1>4. PICK from \in Int : from = (i \div W) * W
  <2>1. i \div W \in Int
    BY DivMod
  <2> QED BY <2>1
<1>c. PICK k \in Nat : k = n - 1
  BY <1>2
<1>5. PICK div \in Int : div = k \div C
  <2>1. k \div C \in Int
    BY DivMod
  <2> QED BY <2>1
<1>6. PICK read \in Int : read = div * C
  OBVIOUS
<1>7. read \in Nat /\ read <= n - 1
  <2>1. PICK rem \in 0 .. C - 1 : k = (div * C) + rem
    <3>1. k \in Int
      OBVIOUS
    <3>2. k = ((k \div C) * C) + (k % C)
      BY ONLY <3>1, DivMod, C \in Nat \ {0}
    <3>3. k % C \in 0 .. C - 1
      BY ONLY <3>1, DivMod, C \in Nat \ {0}
    <3> QED BY <1>5, <3>2, <3>3
  <2>2. CASE div >= 0
    <3>1. div * C >= 0
      BY <2>2
    <3> QED BY <1>6, <1>c, <2>1, <3>1
  <2>3. CASE div <= -1
    <3>1. div * C <= -C
      BY <2>3
    <3> QED BY <2>1, <3>1
  <2> QED BY <2>2, <2>3
<1>8. PICK over \in Int : over = (W - ((n - read) % W)) % W
  <2>1. PICK d \in Int : d = n - read
    OBVIOUS
  <2>2. PICK m \in Int : m = d % W
    <3>1. d % W \in Int
      BY ONLY DivMod, d \in Int, W \in Nat \ {0}
    <3> QED BY <3>1
  <2>3. PICK e \in Int : e = W - m
    OBVIOUS
  <2>4. e % W \in Int
    BY DivMod
  <2> QED BY ONLY <2>1, <2>2, <2>3, <2>4
<1>9. PICK last \in Int : last = from + read + over
  OBVIOUS
<1>10. Output(i, n) = SubSeq(flash, from + 1, from + read) \o SubSeq(flash, last + 1, last + n - read)
  BY ONLY <1>a, <1>4, <1>c, <1>5, <1>6, <1>8, <1>9 DEF Output, Overage
<1>11. CASE n % W = 0
  <2>1. from = i
    <3>1. (len - n) % W = 0
      BY <1>b, <1>11, WholeWords
    <3>2. i % W = 0
      BY ONLY <1>2, <3>1
    <3> QED BY <1>4, <3>2, WholeWords
  <2>2. over = 0
    <3>1. read % W = 0
      <4>1. PICK a \in Int : a = C /\ a % W = 0
        BY <1>b
      <4>2. \A x \in Int : (x * a) % W = 0
        BY <4>1, WholeWords
      <4> QED BY ONLY <1>6, <4>1, <4>2, div \in Int
    <3>2. (n - read) % W = 0
      BY <1>11, <3>1, WholeWords
    <3>3. (W - 0) % W = 0
      OBVIOUS
    <3> QED BY ONLY <1>8, <3>2, <3>3
  <2>3. PICK b \in Nat : b = i + read /\ i <= b /\ b <= len
    BY <1>2, <1>7
  <2>4. from + read = b /\ last = b /\ last + n - read = len
    BY <1>2, <1>9, <2>1, <2>2, <2>3
  <2>5. Cat(Part(flash, i, b), Part(flash, b, len)) = Part(flash, i, len)
    BY <1>1, <2>3, PartsConcat
  <2>6. Output(i, n) = Cat(Part(flash, i, b), Part(flash, b, len))
    BY ONLY <1>10, <2>1, <2>4 DEF Cat, Part
  <2>7. i + 1 = Len(flash) - size + 1
    BY <1>0, <1>1
  <2> QED BY ONLY <1>1, <1>3, <2>5, <2>6, <2>7 DEF Part
<1>12. CASE n <= C
  <2>1. read = 0
    <3>1. PICK z \in Int : z = 0
      OBVIOUS
    <3>2. PICK m \in 0 .. C - 1 : k = (z * C) + m
      BY <1>2, <1>c, <1>12, <3>1
    <3>3. k \div C = z
      BY <3>2, DivModIs
    <3> QED BY <1>5, <1>6, <3>1, <3>3
  <2>2. last = i
    <3>1. ((i \div W) * W) + ((W - ((len - i) % W)) % W) = i
      BY <1>b, OverageIs
    <3>2. len - i = n - read
      BY <1>2, <2>1
    <3>3. over = (W - ((len - i) % W)) % W
      BY ONLY <1>8, <3>2
    <3>4. from + over = i
      BY ONLY <1>4, <3>1, <3>3
    <3> QED BY <1>9, <2>1, <3>4
  <2>3. last + n - read = len /\ from + read = from
    BY <1>2, <2>1, <2>2
  <2>4. Output(i, n) = SubSeq(flash, from + 1, from) \o SubSeq(flash, i + 1, len)
    BY ONLY <1>10, <2>2, <2>3
  <2>5. SubSeq(flash, from + 1, from) = <<>>
    BY SubSeqEmpty
  <2>6. <<>> \o SubSeq(flash, i + 1, len) = SubSeq(flash, i + 1, len)
    <3>1. SubSeq(flash, i + 1, len) \in Seq(Cell)
      BY <1>1, SubSeqProperties
    <3> QED BY ONLY <3>1, ConcatEmptySeq
  <2>7. i + 1 = Len(flash) - size + 1
    BY <1>0, <1>1
  <2> QED BY ONLY <1>1, <1>3, <2>4, <2>5, <2>6, <2>7
<1> QED BY <1>1, <1>a, <1>11, <1>12

\* What was logged is in the flash or in the buffer, without a gap and in order, as
\* long as the flash refuses nothing, and the end of it is what is read.
THEOREM FlashIsKept == FlashSpec => []FlashReadsBack
<1>1. FlashInit => FlashInv
  BY FlashAssumption, FlashInitInv
<1>2. FlashInv /\ [FlashNext]_flashVars => FlashInv'
  BY FlashAssumption, FlashStep
<1>3. FlashInv => FlashReadsBack
  BY FlashAssumption, RecentRead DEF FlashInv, FlashTypeOK, FlashKeepsBytes, FlashReadsBack
<1> QED BY <1>1, <1>2, <1>3, PTL DEF FlashSpec

-----------------------------------------------------------------------------
(***************************************************************************)
(* The file plugin.  What a step does to the lines is told apart from      *)
(* where the process is: Ordered and AllOf are about the pieces alone.     *)
(***************************************************************************)

PiecesOf(d, u) == [k \in Pieces |-> IF k = -1 THEN u ELSE Text(d[k])]

Ordered(p) == \A k, j \in Pieces : \A x \in DOMAIN p[k], y \in DOMAIN p[j] :
                k > j \/ (k = j /\ x < y) => p[k][x] < p[j][y]

AllOf(p) == UNION {ToSet(p[k]) : k \in Pieces}

LEMMA MaxIs ==
  ASSUME RotatesAssumption
  PROVE  /\ Max(Rotates) \in Rotates /\ Max(Rotates) \in Nat \ {0}
         /\ \A most \in Rotates : most \in Nat \ {0} /\ most <= Max(Rotates)
         /\ -1 \in Pieces /\ 0 \in Pieces /\ 0 \in 0 .. Max(Rotates)
         /\ \A k \in Pieces : k \in Int /\ (k # -1 => k \in 0 .. Max(Rotates))
         /\ \A k \in 0 .. Max(Rotates) : k \in Pieces /\ k # -1
<1>1. PICK most \in Rotates : \A s \in Rotates : s <= most
  BY DEF RotatesAssumption
<1>2. Rotates \subseteq Nat \ {0}
  BY DEF RotatesAssumption
<1>3. \A y \in Rotates : most >= y
  BY <1>1, <1>2
<1>4. Max(Rotates) \in Rotates /\ \A y \in Rotates : Max(Rotates) >= y
  BY <1>3 DEF Max
<1>5. Max(Rotates) \in Nat \ {0} /\ \A y \in Rotates : y \in Nat \ {0}
  BY <1>2, <1>4
<1>6. PICK m \in Nat \ {0} : m = Max(Rotates)
  BY <1>5
<1>7. -1 \in -1 .. m /\ 0 \in -1 .. m /\ 0 \in 0 .. m
  OBVIOUS
<1>8. \A k \in -1 .. m : k \in Int /\ (k # -1 => k \in 0 .. m)
  OBVIOUS
<1>9. \A k \in 0 .. m : k \in -1 .. m /\ k # -1
  OBVIOUS
<1> QED BY <1>4, <1>5, <1>6, <1>7, <1>8, <1>9 DEF Pieces

LEMMA AllOfHas ==
  ASSUME NEW p, NEW k \in Pieces, NEW x \in DOMAIN p[k]
  PROVE  p[k][x] \in AllOf(p)
BY DEF AllOf, ToSet

LEMMA AllOfFrom ==
  ASSUME NEW p, NEW l \in AllOf(p)
  PROVE  \E k \in Pieces : \E x \in DOMAIN p[k] : l = p[k][x]
BY DEF AllOf, ToSet

LEMMA AllOfIn ==
  ASSUME NEW p, NEW S, \A k \in Pieces : \A x \in DOMAIN p[k] : p[k][x] \in S
  PROVE  AllOf(p) \subseteq S
BY DEF AllOf, ToSet

\* A line is in one place.
LEMMA OncePlaced ==
  ASSUME RotatesAssumption, NEW p \in [Pieces -> Seq(Nat)], Ordered(p),
         NEW k \in Pieces, NEW j \in Pieces, NEW x \in DOMAIN p[k], NEW y \in DOMAIN p[j],
         p[k][x] = p[j][y]
  PROVE  k = j /\ x = y
<1>1. k \in Int /\ j \in Int
  BY MaxIs
<1>2. p[k] \in Seq(Nat) /\ p[j] \in Seq(Nat)
  OBVIOUS
<1>3. x \in Nat /\ y \in Nat /\ p[k][x] \in Nat /\ p[j][y] \in Nat
  BY <1>2
<1>4. ~(k > j) /\ ~(j > k)
  BY <1>3 DEF Ordered
<1>5. k = j
  BY <1>1, <1>4
<1>6. ~(x < y) /\ ~(y < x)
  BY <1>3, <1>5 DEF Ordered
<1> QED BY <1>3, <1>5, <1>6

\* What is held back goes to the file.
LEMMA PiecesFlush ==
  ASSUME RotatesAssumption, NEW p \in [Pieces -> Seq(Nat)], Ordered(p),
         NEW q \in [Pieces -> Seq(Nat)], q[0] = Cat(p[0], p[-1]), q[-1] = <<>>,
         \A k \in Pieces : k # 0 /\ k # -1 => q[k] = p[k]
  PROVE  Ordered(q) /\ AllOf(q) = AllOf(p)
<1>1. -1 \in Pieces /\ 0 \in Pieces /\ \A k \in Pieces : k \in Int
  BY MaxIs
<1>2. PICK a \in Seq(Nat), b \in Seq(Nat) : a = p[0] /\ b = p[-1]
  BY <1>1
<1>3. PICK c : c = q[0]
  OBVIOUS
<1>4. c = a \o b
  BY <1>2, <1>3 DEF Cat
<1>5. /\ c \in Seq(Nat) /\ Len(c) = Len(a) + Len(b)
      /\ \A i \in 1 .. Len(a) + Len(b) : c[i] = IF i <= Len(a) THEN a[i] ELSE b[i - Len(a)]
  BY ONLY <1>4, a \in Seq(Nat), b \in Seq(Nat), ConcatProperties
<1>6. /\ Len(a) \in Nat /\ Len(b) \in Nat /\ DOMAIN a = 1 .. Len(a) /\ DOMAIN b = 1 .. Len(b)
      /\ DOMAIN c = 1 .. Len(a) + Len(b)
  BY <1>5
<1>7. q[0] = c /\ q[-1] = <<>> /\ \A k \in Pieces : k # 0 /\ k # -1 => q[k] = p[k]
  BY <1>3
<1>8. DOMAIN q[-1] = {}
  BY <1>7
\* Where an element of the new pieces was before.
<1> DEFINE from(k, x) == IF k = 0 /\ x > Len(a) THEN -1 ELSE k
           at(k, x) == IF k = 0 /\ x > Len(a) THEN x - Len(a) ELSE x
<1>9. ASSUME NEW k \in Pieces, NEW x \in DOMAIN q[k]
      PROVE  /\ from(k, x) \in Pieces /\ at(k, x) \in DOMAIN p[from(k, x)]
             /\ q[k][x] = p[from(k, x)][at(k, x)] /\ x \in Int /\ k # -1
  <2>1. k # -1
    BY <1>8
  <2>2. CASE k = 0
    <3>1. x \in 1 .. Len(a) + Len(b) /\ q[k][x] = IF x <= Len(a) THEN a[x] ELSE b[x - Len(a)]
      BY <1>5, <1>6, <1>7, <2>2
    <3>2. CASE x > Len(a)
      <4>1. x - Len(a) \in 1 .. Len(b) /\ ~(x <= Len(a))
        BY <1>6, <3>1, <3>2
      <4> QED BY <1>1, <1>2, <1>6, <2>2, <3>1, <3>2, <4>1
    <3>3. CASE ~(x > Len(a))
      <4>1. x \in 1 .. Len(a) /\ x <= Len(a)
        BY <1>6, <3>1, <3>3
      <4> QED BY <1>1, <1>2, <1>6, <2>2, <3>1, <3>3, <4>1
    <3> QED BY <3>2, <3>3
  <2>3. CASE k # 0
    <3>1. q[k] = p[k] /\ p[k] \in Seq(Nat)
      BY <1>7, <2>1, <2>3
    <3> QED BY <2>1, <2>3, <3>1
  <2> QED BY <2>2, <2>3
<1>10. ASSUME NEW k \in Pieces, NEW x \in DOMAIN p[k]
      PROVE  \E j \in Pieces : \E y \in DOMAIN q[j] : p[k][x] = q[j][y]
  <2>1. CASE k = 0
    <3>1. x \in 1 .. Len(a) /\ x <= Len(a) /\ x \in 1 .. Len(a) + Len(b)
      BY <1>2, <1>6, <2>1
    <3>2. c[x] = a[x]
      BY <1>5, <3>1
    <3> QED BY <1>1, <1>2, <1>6, <1>7, <2>1, <3>1, <3>2
  <2>2. CASE k = -1
    <3>0. x \in DOMAIN b
      BY <1>2, <2>2
    <3>1. x \in 1 .. Len(b) /\ x + Len(a) \in 1 .. Len(a) + Len(b) /\ ~(x + Len(a) <= Len(a))
          /\ (x + Len(a)) - Len(a) = x
      <4>1. PICK m \in Nat, n \in Nat : m = Len(a) /\ n = Len(b) /\ x \in 1 .. n
        BY <1>6, <3>0
      <4>2. x + m \in 1 .. m + n /\ ~(x + m <= m) /\ (x + m) - m = x
        <5>1. x \in 1 .. n
          BY <4>1
        <5> QED BY ONLY m \in Nat, n \in Nat, <5>1
      <4> QED BY <4>1, <4>2
    <3>2. c[x + Len(a)] = b[x]
      BY <1>5, <3>1
    <3> QED BY <1>1, <1>2, <1>6, <1>7, <2>2, <3>1, <3>2
  <2>3. CASE k # 0 /\ k # -1
    BY <1>7, <2>3
  <2> QED BY <2>1, <2>2, <2>3
<1>11. AllOf(q) = AllOf(p)
  <2> HIDE DEF from, at
  <2>1. \A k \in Pieces : \A x \in DOMAIN q[k] : q[k][x] \in AllOf(p)
    BY <1>9, AllOfHas
  <2>2. \A k \in Pieces : \A x \in DOMAIN p[k] : p[k][x] \in AllOf(q)
    <3> SUFFICES ASSUME NEW k \in Pieces, NEW x \in DOMAIN p[k] PROVE p[k][x] \in AllOf(q)
      OBVIOUS
    <3>1. PICK j \in Pieces : \E y \in DOMAIN q[j] : p[k][x] = q[j][y]
      BY <1>10
    <3> QED BY <3>1, AllOfHas
  <2>3. AllOf(q) \subseteq AllOf(p)
    BY <2>1, AllOfIn
  <2>4. AllOf(p) \subseteq AllOf(q)
    BY <2>2, AllOfIn
  <2> QED BY <2>3, <2>4
<1>12. Ordered(q)
  <2> SUFFICES ASSUME NEW k \in Pieces, NEW j \in Pieces, NEW x \in DOMAIN q[k], NEW y \in DOMAIN q[j],
                      k > j \/ (k = j /\ x < y)
               PROVE  q[k][x] < q[j][y]
    BY DEF Ordered
  <2>1. k # -1 /\ j # -1 /\ x \in Int /\ y \in Int /\ k \in Int /\ j \in Int
    BY <1>1, <1>9
  <2>2. from(k, x) > from(j, y) \/ (from(k, x) = from(j, y) /\ at(k, x) < at(j, y))
    <3>1. CASE k > j
      <4>1. k # 0
        <5>0. PICK top \in Nat : j \in 0 .. top
          BY <2>1, MaxIs
        <5>1. j >= 0
          BY <5>0
        <5> QED BY <2>1, <3>1, <5>1
      <4> QED BY <2>1, <3>1, <4>1
    <3>2. CASE k = j /\ x < y
      <4>1. PICK m \in Nat : m = Len(a)
        BY <1>6
      <4>2. x > m => y > m /\ x - m < y - m
        BY <2>1, <3>2
      <4>3. CASE k = 0 /\ x > m
        BY <3>2, <4>1, <4>2, <4>3
      <4>4. CASE k # 0
        BY <3>2, <4>4
      <4>5. CASE k = 0 /\ ~(x > m) /\ y > m
        BY <3>2, <4>1, <4>5
      <4>6. CASE k = 0 /\ ~(x > m) /\ ~(y > m)
        BY <3>2, <4>1, <4>6
      <4> QED BY <4>3, <4>4, <4>5, <4>6
    <3> QED BY <3>1, <3>2
  <2>3. p[from(k, x)][at(k, x)] < p[from(j, y)][at(j, y)]
    <3> HIDE DEF from, at
    <3> QED BY <1>9, <2>2 DEF Ordered
  <2> QED BY <1>9, <2>3
<1> QED BY <1>11, <1>12

\* A piece is lost.
LEMMA PiecesDrop ==
  ASSUME RotatesAssumption, NEW p \in [Pieces -> Seq(Nat)], Ordered(p), NEW d \in Pieces,
         NEW q \in [Pieces -> Seq(Nat)], q[d] = <<>>, \A k \in Pieces : k # d => q[k] = p[k]
  PROVE  Ordered(q) /\ AllOf(q) = AllOf(p) \ ToSet(p[d])
<1>1. q[d] = <<>> /\ \A k \in Pieces : k # d => q[k] = p[k]
  OBVIOUS
<1>2. DOMAIN q[d] = {}
  BY <1>1
<1>3. Ordered(q)
  BY <1>1, <1>2 DEF Ordered
<1>4. ASSUME NEW l \in AllOf(q) PROVE l \in AllOf(p) /\ l \notin ToSet(p[d])
  <2>0. PICK k \in Pieces : \E x \in DOMAIN q[k] : l = q[k][x]
    BY AllOfFrom
  <2>1. PICK x \in DOMAIN q[k] : l = q[k][x]
    BY <2>0
  <2>2. k # d
    BY <1>2
  <2>3. x \in DOMAIN p[k] /\ l = p[k][x]
    BY <1>1, <2>1, <2>2
  <2>4. l \notin ToSet(p[d])
    <3> SUFFICES ASSUME NEW y \in DOMAIN p[d], l = p[d][y] PROVE FALSE
      BY DEF ToSet
    <3>1. p[k][x] = p[d][y]
      BY <2>3
    <3>2. k = d
      BY <2>3, <3>1, OncePlaced
    <3> QED BY <2>2, <3>2
  <2> QED BY <2>3, <2>4, AllOfHas
<1>5. ASSUME NEW l \in AllOf(p), l \notin ToSet(p[d]) PROVE l \in AllOf(q)
  <2>0. PICK k \in Pieces : \E x \in DOMAIN p[k] : l = p[k][x]
    BY AllOfFrom
  <2>1. PICK x \in DOMAIN p[k] : l = p[k][x]
    BY <2>0
  <2>2. k # d
    BY <1>5, <2>1 DEF ToSet
  <2> QED BY <1>1, <2>1, <2>2, AllOfHas
<1> QED BY <1>3, <1>4, <1>5

\* A piece takes the place of the one before it, which is empty.
LEMMA PiecesMove ==
  ASSUME RotatesAssumption, NEW p \in [Pieces -> Seq(Nat)], Ordered(p),
         NEW d \in 0 .. Max(Rotates) - 1, p[d + 1] = <<>>,
         NEW q \in [Pieces -> Seq(Nat)], q[d + 1] = p[d], q[d] = <<>>,
         \A k \in Pieces : k # d /\ k # d + 1 => q[k] = p[k]
  PROVE  Ordered(q) /\ AllOf(q) = AllOf(p)
<1>0. d \in Pieces /\ d + 1 \in Pieces /\ d \in Int /\ \A k \in Pieces : k \in Int
  BY MaxIs DEF Pieces
<1>1. /\ q[d] = <<>> /\ q[d + 1] = p[d]
      /\ \A k \in Pieces : k # d /\ k # d + 1 => q[k] = p[k]
  OBVIOUS
<1>2. DOMAIN q[d] = {} /\ DOMAIN p[d + 1] = {}
  BY <1>1
<1> DEFINE from(k) == IF k = d + 1 THEN d ELSE k
<1>3. ASSUME NEW k \in Pieces, NEW x \in DOMAIN q[k]
      PROVE  from(k) \in Pieces /\ q[k] = p[from(k)] /\ k # d
  BY <1>0, <1>1, <1>2
<1>4. ASSUME NEW k \in Pieces, NEW x \in DOMAIN p[k]
      PROVE  \E j \in Pieces : x \in DOMAIN q[j] /\ q[j] = p[k]
  <2>1. CASE k = d
    BY <1>0, <1>1, <2>1
  <2>2. CASE k # d
    BY <1>0, <1>1, <1>2, <2>2
  <2> QED BY <2>1, <2>2
<1>5. AllOf(q) = AllOf(p)
  <2> HIDE DEF from
  <2>1. \A k \in Pieces : \A x \in DOMAIN q[k] : q[k][x] \in AllOf(p)
    BY <1>3, AllOfHas
  <2>2. \A k \in Pieces : \A x \in DOMAIN p[k] : p[k][x] \in AllOf(q)
    <3> SUFFICES ASSUME NEW k \in Pieces, NEW x \in DOMAIN p[k] PROVE p[k][x] \in AllOf(q)
      OBVIOUS
    <3>1. PICK j \in Pieces : x \in DOMAIN q[j] /\ q[j] = p[k]
      BY <1>4
    <3> QED BY <3>1, AllOfHas
  <2>3. AllOf(q) \subseteq AllOf(p)
    BY <2>1, AllOfIn
  <2>4. AllOf(p) \subseteq AllOf(q)
    BY <2>2, AllOfIn
  <2> QED BY <2>3, <2>4
<1>6. Ordered(q)
  <2> SUFFICES ASSUME NEW k \in Pieces, NEW j \in Pieces, NEW x \in DOMAIN q[k], NEW y \in DOMAIN q[j],
                      k > j \/ (k = j /\ x < y)
               PROVE  q[k][x] < q[j][y]
    BY DEF Ordered
  <2>1. k # d /\ j # d /\ k \in Int /\ j \in Int
    BY <1>0, <1>3
  <2>2. from(k) > from(j) \/ (from(k) = from(j) /\ x < y)
    <3>1. d \in Int
      BY <1>0
    <3>2. CASE k = j
      BY <3>2
    <3>3. CASE k > j
      <4>1. k = d + 1 => d > j
        BY <2>1, <3>1, <3>3
      <4>2. j = d + 1 => k > d
        BY <2>1, <3>1, <3>3
      <4>3. CASE j = d + 1
        BY <2>1, <3>1, <3>3, <4>2, <4>3
      <4>4. CASE j # d + 1 /\ k = d + 1
        BY <4>1, <4>4
      <4>5. CASE j # d + 1 /\ k # d + 1
        BY <3>3, <4>5
      <4> QED BY <4>3, <4>4, <4>5
    <3> QED BY <3>2, <3>3
  <2>3. p[from(k)][x] < p[from(j)][y]
    <3> HIDE DEF from
    <3> QED BY <1>3, <2>2 DEF Ordered
  <2> QED BY <1>3, <2>3
<1> QED BY <1>5, <1>6

\* A new line, greater than all, goes behind the others.
LEMMA PiecesAdd ==
  ASSUME RotatesAssumption, NEW p \in [Pieces -> Seq(Nat)], Ordered(p),
         NEW l \in Nat, \A o \in AllOf(p) : o < l,
         NEW q \in [Pieces -> Seq(Nat)], q[-1] = Append(p[-1], l),
         \A k \in Pieces : k # -1 => q[k] = p[k]
  PROVE  Ordered(q) /\ AllOf(q) = AllOf(p) \cup {l}
<1>1. -1 \in Pieces /\ \A k \in Pieces : k \in Int /\ k >= -1
  BY MaxIs DEF Pieces
<1>2. PICK b \in Seq(Nat) : b = p[-1]
  BY <1>1
<1>3. PICK c : c = q[-1]
  OBVIOUS
<1>4. c = Append(b, l)
  BY <1>2, <1>3
<1>5. /\ c \in Seq(Nat) /\ Len(c) = Len(b) + 1 /\ c[Len(b) + 1] = l
      /\ \A i \in 1 .. Len(b) : c[i] = b[i]
  BY ONLY <1>4, b \in Seq(Nat), l \in Nat, AppendProperties
<1>6. DOMAIN b = 1 .. Len(b) /\ DOMAIN c = 1 .. Len(b) + 1 /\ Len(b) \in Nat
  BY <1>5
<1>7. q[-1] = c /\ \A k \in Pieces : k # -1 => q[k] = p[k]
  BY <1>3
<1>8. ASSUME NEW k \in Pieces, NEW x \in DOMAIN q[k]
      PROVE  \/ x \in DOMAIN p[k] /\ q[k][x] = p[k][x]
             \/ k = -1 /\ x = Len(b) + 1 /\ q[k][x] = l
  <2>1. CASE k # -1
    BY <1>7, <2>1
  <2>2. CASE k = -1
    <3>1. x \in 1 .. Len(b) + 1 /\ q[k] = c /\ p[k] = b
      BY <1>2, <1>6, <1>7, <2>2
    <3>2. x = Len(b) + 1 \/ x \in 1 .. Len(b)
      BY <1>6, <3>1
    <3> QED BY <1>5, <1>6, <2>2, <3>1, <3>2
  <2> QED BY <2>1, <2>2
<1>9. ASSUME NEW k \in Pieces, NEW x \in DOMAIN p[k]
      PROVE  /\ x \in DOMAIN q[k] /\ q[k][x] = p[k][x] /\ p[k][x] < l /\ x \in Int
             /\ k = -1 => x <= Len(b)
  <2>1. p[k][x] < l
    BY AllOfHas
  <2>2. CASE k # -1
    BY <1>7, <2>1, <2>2
  <2>3. CASE k = -1
    <3>1. x \in DOMAIN b /\ q[k] = c /\ p[k] = b
      BY <1>2, <1>7, <2>3
    <3>2. x \in 1 .. Len(b) /\ x \in 1 .. Len(b) + 1
      BY <1>6, <3>1
    <3> QED BY <1>5, <1>6, <2>1, <3>1, <3>2
  <2> QED BY <2>2, <2>3
<1>10. l \in AllOf(q)
  <2>1. Len(b) + 1 \in DOMAIN q[-1] /\ q[-1][Len(b) + 1] = l
    BY <1>5, <1>6, <1>7
  <2> QED BY <1>1, <2>1, AllOfHas
<1>11. AllOf(q) = AllOf(p) \cup {l}
  <2>1. \A k \in Pieces : \A x \in DOMAIN q[k] : q[k][x] \in AllOf(p) \cup {l}
    <3> SUFFICES ASSUME NEW k \in Pieces, NEW x \in DOMAIN q[k], x \in DOMAIN p[k] /\ q[k][x] = p[k][x]
                 PROVE  q[k][x] \in AllOf(p)
      BY <1>8
    <3> QED BY AllOfHas
  <2>2. \A k \in Pieces : \A x \in DOMAIN p[k] : p[k][x] \in AllOf(q)
    <3> SUFFICES ASSUME NEW k \in Pieces, NEW x \in DOMAIN p[k] PROVE p[k][x] \in AllOf(q)
      OBVIOUS
    <3> QED BY <1>9, AllOfHas
  <2>3. AllOf(q) \subseteq AllOf(p) \cup {l}
    BY <2>1, AllOfIn
  <2>4. AllOf(p) \subseteq AllOf(q)
    BY <2>2, AllOfIn
  <2> QED BY <1>10, <2>3, <2>4
<1>12. Ordered(q)
  <2> SUFFICES ASSUME NEW k \in Pieces, NEW j \in Pieces, NEW x \in DOMAIN q[k], NEW y \in DOMAIN q[j],
                      k > j \/ (k = j /\ x < y)
               PROVE  q[k][x] < q[j][y]
    BY DEF Ordered
  <2>1. x \in DOMAIN p[k]
    <3> SUFFICES ASSUME k = -1, x = Len(b) + 1 PROVE FALSE
      BY <1>8
    <3>1. j = -1 /\ x < y /\ y \in 1 .. Len(b) + 1
      BY <1>1, <1>6, <1>7
    <3> QED BY <1>6, <3>1
  <2>2. CASE y \in DOMAIN p[j]
    BY <1>9, <2>1, <2>2 DEF Ordered
  <2>3. CASE j = -1 /\ q[j][y] = l
    BY <1>9, <2>1, <2>3
  <2> QED BY <1>8, <2>2, <2>3
<1> QED BY <1>11, <1>12

NoGap(K, n, m) == \E first \in 0 .. n : K = {l \in first + 1 .. n : l \notin m}

\* The files and what is held back after n lines, with those of m missing; s when
\* max_rotate was reduced.
Lasts(p, n, m, s) ==
  /\ Ordered(p) /\ AllOf(p) \subseteq 1 .. n /\ m \subseteq 1 .. n
  /\ ~s => NoGap(AllOf(p), n, m)

Disks == [0 .. Max(Rotates) -> Seq(Nat) \cup {Absent}]

FileTypeOK ==
  /\ disk \in Disks /\ unflushed \in Seq(Nat)
  /\ fp \in BOOLEAN /\ maxRotate \in Rotates /\ moving \in Nat /\ err \in BOOLEAN
  /\ fileAt \in {"down", "idle", "remove", "rename", "reopen"}
  /\ lines \in Nat /\ missing \subseteq Nat
  /\ failed \in BOOLEAN /\ shrunk \in BOOLEAN /\ crashes \in Nat

Rotating == fileAt \in {"remove", "rename"}

\* What is so between the steps of a rotation.
Standing ==
  /\ fp => fileAt = "idle" /\ disk[0] # Absent
  /\ ~fp => unflushed = <<>>
  /\ Rotating => moving < maxRotate
  /\ fileAt = "rename" => disk[moving + 1] = Absent
  /\ ~shrunk => maxRotate = Max(Rotates)
  /\ ~shrunk /\ fileAt = "remove" /\ moving # Max(Rotates) - 1 => disk[moving + 1] = Absent

Lasting == Lasts(PiecesOf(disk, unflushed), lines, missing, shrunk)

\* The file that a rotation has emptied, or 0 for the file that is written.
Hole == IF ~Rotating THEN 0
        ELSE IF fileAt = "remove" /\ moving = Max(Rotates) - 1 THEN Max(Rotates) + 1
        ELSE moving + 1

\* Full files, without one missing below a full one; when a line is gone, none is missing.
Shaped(d, h, gone) ==
  \A k \in 0 .. Max(Rotates) : k # h =>
    /\ d[k] # Absent => /\ Len(d[k]) > FileMax
                        /\ \A j \in 0 .. Max(Rotates) : j # h /\ j < k => d[j] # Absent
    /\ gone => d[k] # Absent

\* A line is gone.
Gone(d, u, n) == AllOf(PiecesOf(d, u)) # 1 .. n

Shape == ~failed /\ ~shrunk => Shaped(disk, Hole, Gone(disk, unflushed, lines))

FilesInv == FileTypeOK /\ Standing /\ Lasting /\ Shape

LEMMA PiecesAre ==
  ASSUME RotatesAssumption, NEW d \in [0 .. Max(Rotates) -> Seq(Nat) \cup {Absent}], NEW u \in Seq(Nat)
  PROVE  /\ PiecesOf(d, u) \in [Pieces -> Seq(Nat)] /\ PiecesOf(d, u)[-1] = u
         /\ \A k \in 0 .. Max(Rotates) : PiecesOf(d, u)[k] = Text(d[k])
         /\ \A k \in 0 .. Max(Rotates) : Text(d[k]) \in Seq(Nat)
<1>1. \A k \in 0 .. Max(Rotates) : Text(d[k]) \in Seq(Nat)
  BY EmptySeq DEF Text
<1>2. \A k \in Pieces : k # -1 => k \in 0 .. Max(Rotates)
  BY MaxIs
<1>3. -1 \in Pieces /\ \A k \in 0 .. Max(Rotates) : k \in Pieces /\ k # -1
  BY MaxIs
<1>4. PiecesOf(d, u) \in [Pieces -> Seq(Nat)]
  BY <1>1, <1>2 DEF PiecesOf
<1> QED BY <1>1, <1>3, <1>4 DEF PiecesOf

LEMMA LastsFlush ==
  ASSUME RotatesAssumption, NEW n \in Nat, NEW m, NEW s, NEW p \in [Pieces -> Seq(Nat)], Lasts(p, n, m, s),
         NEW q \in [Pieces -> Seq(Nat)], q[0] = Cat(p[0], p[-1]), q[-1] = <<>>,
         \A k \in Pieces : k # 0 /\ k # -1 => q[k] = p[k]
  PROVE  Lasts(q, n, m, s) /\ AllOf(q) = AllOf(p)
<1>1. Ordered(p)
  BY DEF Lasts
<1>2. Ordered(q) /\ AllOf(q) = AllOf(p)
  BY <1>1, PiecesFlush
<1> QED BY <1>2 DEF Lasts

LEMMA LastsMove ==
  ASSUME RotatesAssumption, NEW n \in Nat, NEW m, NEW s, NEW p \in [Pieces -> Seq(Nat)], Lasts(p, n, m, s),
         NEW d \in 0 .. Max(Rotates) - 1, p[d + 1] = <<>>,
         NEW q \in [Pieces -> Seq(Nat)], q[d + 1] = p[d], q[d] = <<>>,
         \A k \in Pieces : k # d /\ k # d + 1 => q[k] = p[k]
  PROVE  Lasts(q, n, m, s) /\ AllOf(q) = AllOf(p)
<1>1. Ordered(p)
  BY DEF Lasts
<1>2. Ordered(q) /\ AllOf(q) = AllOf(p)
  BY <1>1, PiecesMove
<1> QED BY <1>2 DEF Lasts

LEMMA LastsLose ==
  ASSUME RotatesAssumption, NEW n \in Nat, NEW m, NEW s, NEW p \in [Pieces -> Seq(Nat)], Lasts(p, n, m, s),
         NEW q \in [Pieces -> Seq(Nat)], q[-1] = <<>>, \A k \in Pieces : k # -1 => q[k] = p[k]
  PROVE  Lasts(q, n, m \cup ToSet(p[-1]), s)
<1>1. Ordered(p) /\ AllOf(p) \subseteq 1 .. n /\ m \subseteq 1 .. n
  BY DEF Lasts
<1>2. -1 \in Pieces
  BY MaxIs
<1>3. Ordered(q) /\ AllOf(q) = AllOf(p) \ ToSet(p[-1])
  BY <1>1, <1>2, PiecesDrop
<1>4. ToSet(p[-1]) \subseteq AllOf(p)
  BY <1>2 DEF AllOf
<1>5. NoGap(AllOf(p), n, m) => NoGap(AllOf(q), n, m \cup ToSet(p[-1]))
  <2> SUFFICES ASSUME NEW first \in 0 .. n, AllOf(p) = {l \in first + 1 .. n : l \notin m}
               PROVE  NoGap(AllOf(q), n, m \cup ToSet(p[-1]))
    BY DEF NoGap
  <2>1. AllOf(q) = {l \in first + 1 .. n : l \notin m \cup ToSet(p[-1])}
    BY <1>3
  <2> QED BY <2>1 DEF NoGap
<1> QED BY <1>1, <1>3, <1>4, <1>5 DEF Lasts

LEMMA LastsAdd ==
  ASSUME RotatesAssumption, NEW n \in Nat, NEW m, NEW s, NEW p \in [Pieces -> Seq(Nat)], Lasts(p, n, m, s),
         NEW q \in [Pieces -> Seq(Nat)], q[-1] = Append(p[-1], n + 1),
         \A k \in Pieces : k # -1 => q[k] = p[k]
  PROVE  Lasts(q, n + 1, m, s) /\ AllOf(q) = AllOf(p) \cup {n + 1}
<1>1. Ordered(p) /\ AllOf(p) \subseteq 1 .. n /\ m \subseteq 1 .. n
  BY DEF Lasts
<1>2. PICK o \in Nat : o = n + 1
  OBVIOUS
<1>3. \A l \in 1 .. n : l < o /\ l \in 1 .. o
  BY <1>2
<1>4. \A l \in AllOf(p) : l < o
  BY <1>1, <1>3
<1>5. q[-1] = Append(p[-1], o)
  BY <1>2
<1>6. Ordered(q) /\ AllOf(q) = AllOf(p) \cup {o}
  BY <1>1, <1>4, <1>5, PiecesAdd
<1>7. o \in 1 .. o /\ o \notin 1 .. n
  BY <1>2
<1>8. NoGap(AllOf(p), n, m) => NoGap(AllOf(q), o, m)
  <2> SUFFICES ASSUME NEW first \in 0 .. n, AllOf(p) = {l \in first + 1 .. n : l \notin m}
               PROVE  NoGap(AllOf(q), o, m)
    BY DEF NoGap
  <2>1. first \in 0 .. o
    BY <1>2
  <2>2. \A l : l \in first + 1 .. o <=> l \in first + 1 .. n \/ l = o
    BY <1>2
  <2>3. AllOf(q) = {l \in first + 1 .. o : l \notin m}
    BY <1>1, <1>6, <1>7, <2>2
  <2> QED BY <2>1, <2>3 DEF NoGap
<1>9. AllOf(q) \subseteq 1 .. o /\ m \subseteq 1 .. o
  BY <1>1, <1>3, <1>6, <1>7
<1>10. Lasts(q, o, m, s)
  BY <1>6, <1>8, <1>9 DEF Lasts
<1> QED BY <1>2, <1>6, <1>10

\* The oldest file goes, or any one once max_rotate was reduced.
LEMMA LastsDrop ==
  ASSUME RotatesAssumption, NEW n \in Nat, NEW m, NEW s, NEW p \in [Pieces -> Seq(Nat)], Lasts(p, n, m, s),
         NEW d \in 0 .. Max(Rotates), s \/ d = Max(Rotates) \/ p[d] = <<>>,
         NEW q \in [Pieces -> Seq(Nat)], q[d] = <<>>, \A k \in Pieces : k # d => q[k] = p[k]
  PROVE  Lasts(q, n, m, s) /\ AllOf(q) = AllOf(p) \ ToSet(p[d])
<1>1. Ordered(p) /\ AllOf(p) \subseteq 1 .. n /\ m \subseteq 1 .. n
  BY DEF Lasts
<1>2. d \in Pieces
  BY MaxIs
<1>3. Ordered(q) /\ AllOf(q) = AllOf(p) \ ToSet(p[d])
  BY <1>1, <1>2, PiecesDrop
<1>4. ASSUME ~s, NoGap(AllOf(p), n, m) PROVE NoGap(AllOf(q), n, m)
  <2>1. CASE p[d] = <<>>
    <3>1. DOMAIN p[d] = {}
      BY <2>1
    <3>2. ToSet(p[d]) = {}
      BY <3>1 DEF ToSet
    <3>3. AllOf(q) = AllOf(p)
      BY <1>3, <3>2
    <3> QED BY <1>4, <3>3
  <2>2. CASE p[d] # <<>>
    <3>1. d = Max(Rotates)
      BY <1>4, <2>2
    <3>2. PICK f \in Seq(Nat) : f = p[d]
      BY <1>2
    <3>3. Len(f) \in Nat /\ Len(f) # 0 /\ DOMAIN f = 1 .. Len(f)
      BY <2>2, <3>2, EmptySeq
    <3>4. PICK z \in Nat : z = Len(f)
      BY <3>3
    <3>5. z # 0 /\ DOMAIN f = 1 .. z
      BY <3>3, <3>4
    <3>6. z \in DOMAIN f /\ \A x \in DOMAIN f : x \in Nat /\ x <= z
      BY <3>5
    <3>7. PICK last \in Nat : last = f[z]
      BY <3>6
    <3>8. last \in ToSet(p[d]) /\ last \in AllOf(p) /\ last \in 1 .. n
      <4>1. last \in AllOf(p)
        BY <1>2, <3>2, <3>6, <3>7, AllOfHas
      <4> QED BY <1>1, <3>2, <3>6, <3>7, <4>1 DEF ToSet
    <3>9. ASSUME NEW l \in ToSet(p[d]) PROVE l \in Nat /\ l <= last
      <4>1. PICK x \in DOMAIN f : l = f[x]
        BY <3>2 DEF ToSet
      <4>2. x \in Nat /\ x <= z /\ l \in Nat
        BY <3>6, <3>2, <1>2, <4>1
      <4>3. CASE x = z
        BY <3>7, <4>1, <4>2, <4>3
      <4>4. CASE x < z
        <5>1. x \in DOMAIN p[d] /\ z \in DOMAIN p[d]
          BY <3>2, <3>6
        <5>2. p[d][x] < p[d][z]
          BY <1>1, <1>2, <4>4, <5>1 DEF Ordered
        <5>3. l < last
          BY <3>2, <3>7, <4>1, <5>2
        <5> QED BY <4>2, <5>3
      <4> QED BY <3>6, <4>2, <4>3, <4>4
    <3>10. ASSUME NEW l \in AllOf(q) PROVE l \in Nat /\ l > last
      <4>1. PICK k \in Pieces : \E x \in DOMAIN q[k] : l = q[k][x]
        BY AllOfFrom
      <4>2. PICK x \in DOMAIN q[k] : l = q[k][x]
        BY <4>1
      <4>3. k # d
        BY <4>2
      <4>4. k \in Int /\ k <= Max(Rotates) /\ Max(Rotates) \in Int
        BY MaxIs DEF Pieces
      <4>5. d > k
        BY <3>1, <4>3, <4>4
      <4>6. x \in DOMAIN p[k] /\ l = p[k][x]
        BY <4>2, <4>3
      <4>7. f[z] < l
        BY <1>1, <1>2, <3>2, <3>6, <4>5, <4>6 DEF Ordered
      <4>8. l \in Nat
        BY <1>1, <1>3
      <4> QED BY <3>7, <4>7, <4>8
    <3>11. PICK first \in 0 .. n : AllOf(p) = {l \in first + 1 .. n : l \notin m}
      BY <1>4 DEF NoGap
    <3>12. AllOf(q) = {l \in last + 1 .. n : l \notin m}
      <4>1. ASSUME NEW l \in AllOf(q) PROVE l \in last + 1 .. n /\ l \notin m
        <5>1. l \in Nat /\ l > last
          BY <3>10
        <5>2. l \in first + 1 .. n /\ l \notin m
          BY <1>3, <3>11
        <5> QED BY <5>1, <5>2
      <4>2. ASSUME NEW l \in last + 1 .. n, l \notin m PROVE l \in AllOf(q)
        <5>1. l \in Nat /\ l > last /\ l <= n
          OBVIOUS
        <5>2. last \in first + 1 .. n
          BY <3>8, <3>11
        <5>3. l \in first + 1 .. n
          BY <5>1, <5>2
        <5>4. l \in AllOf(p)
          BY <3>11, <4>2, <5>3
        <5>5. l \notin ToSet(p[d])
          BY <3>9, <5>1
        <5> QED BY <1>3, <5>4, <5>5
      <4> QED BY <4>1, <4>2
    <3>13. last \in 0 .. n
      BY <3>8
    <3> QED BY <3>12, <3>13 DEF NoGap
  <2> QED BY <2>1, <2>2
<1> QED BY <1>1, <1>3, <1>4 DEF Lasts

\* What a close, a seek or stdio itself does: what is held back is in the file.
WrittenOut(d, u) == [d EXCEPT ![0] = Text(d[0]) \o u]

Added(u, o) == Append(u, o)

LEMMA WrittenOutIs ==
  ASSUME RotatesAssumption, NEW d \in Disks, NEW u \in Seq(Nat)
  PROVE  /\ WrittenOut(d, u) \in Disks /\ WrittenOut(d, u)[0] # Absent
         /\ Text(WrittenOut(d, u)[0]) = Cat(Text(d[0]), u)
         /\ \A k \in 0 .. Max(Rotates) : k # 0 => WrittenOut(d, u)[k] = d[k]
<1>1. 0 \in 0 .. Max(Rotates)
  BY MaxIs
<1>2. PICK a \in Seq(Nat) : a = Text(d[0])
  BY <1>1, PiecesAre DEF Disks
<1>3. a \o u \in Seq(Nat)
  BY ConcatProperties
<1>4. PICK c \in Seq(Nat) : c = Cat(a, u)
  BY <1>3 DEF Cat
<1>5. WrittenOut(d, u) = [d EXCEPT ![0] = c]
  BY <1>2, <1>4 DEF WrittenOut, Cat
<1>6. c # Absent
  BY RotatesAssumption DEF RotatesAssumption
<1>7. Text(c) = c
  BY <1>6 DEF Text
<1>8. [d EXCEPT ![0] = c] \in Disks /\ [d EXCEPT ![0] = c][0] = c
  BY <1>1 DEF Disks
<1>9. \A k \in 0 .. Max(Rotates) : k # 0 => [d EXCEPT ![0] = c][k] = d[k]
  BY DEF Disks
<1> QED BY <1>2, <1>4, <1>5, <1>6, <1>7, <1>8, <1>9

LEMMA LastsWrittenOut ==
  ASSUME RotatesAssumption, NEW d \in Disks, NEW u \in Seq(Nat), NEW n \in Nat, NEW m, NEW s,
         Lasts(PiecesOf(d, u), n, m, s)
  PROVE  /\ Lasts(PiecesOf(WrittenOut(d, u), <<>>), n, m, s)
         /\ Gone(WrittenOut(d, u), <<>>, n) => Gone(d, u, n)
<1>1. /\ PiecesOf(d, u) \in [Pieces -> Seq(Nat)] /\ PiecesOf(d, u)[-1] = u
      /\ \A k \in 0 .. Max(Rotates) : PiecesOf(d, u)[k] = Text(d[k])
  BY PiecesAre DEF Disks
<1>2. PICK e \in Disks : e = WrittenOut(d, u)
  BY WrittenOutIs
<1>3. /\ Text(e[0]) = Cat(Text(d[0]), u)
      /\ \A k \in 0 .. Max(Rotates) : k # 0 => e[k] = d[k]
  BY <1>2, WrittenOutIs
<1>4. PICK p \in [Pieces -> Seq(Nat)] : p = PiecesOf(d, u)
  BY <1>1
<1>5. /\ PiecesOf(e, <<>>) \in [Pieces -> Seq(Nat)] /\ PiecesOf(e, <<>>)[-1] = <<>>
      /\ \A k \in 0 .. Max(Rotates) : PiecesOf(e, <<>>)[k] = Text(e[k])
  BY PiecesAre, EmptySeq DEF Disks
<1>6. PICK q \in [Pieces -> Seq(Nat)] : q = PiecesOf(e, <<>>)
  BY <1>5
<1>7. p[-1] = u /\ \A k \in 0 .. Max(Rotates) : p[k] = Text(d[k])
  BY <1>1, <1>4
<1>8. q[-1] = <<>> /\ \A k \in 0 .. Max(Rotates) : q[k] = Text(e[k])
  BY <1>5, <1>6
<1>9. 0 \in 0 .. Max(Rotates) /\ \A k \in Pieces : k # -1 => k \in 0 .. Max(Rotates)
  BY MaxIs
<1>10. q[0] = Cat(p[0], p[-1]) /\ \A k \in Pieces : k # 0 /\ k # -1 => q[k] = p[k]
  BY <1>3, <1>7, <1>8, <1>9
<1>11. Lasts(p, n, m, s)
  BY <1>4
<1>12. Lasts(q, n, m, s) /\ AllOf(q) = AllOf(p)
  <2>1. q[-1] = <<>>
    BY <1>8
  <2>2. q[0] = Cat(p[0], p[-1])
    BY <1>10
  <2>3. \A k \in Pieces : k # 0 /\ k # -1 => q[k] = p[k]
    BY <1>10
  <2>4. Lasts(q, n, m, s)
    BY ONLY RotatesAssumption, n \in Nat, p \in [Pieces -> Seq(Nat)], q \in [Pieces -> Seq(Nat)],
            <2>1, <2>2, <2>3, <1>11, LastsFlush
  <2>5. AllOf(q) = AllOf(p)
    <3>1. Ordered(p)
      BY <1>11 DEF Lasts
    <3> QED BY ONLY RotatesAssumption, p \in [Pieces -> Seq(Nat)], q \in [Pieces -> Seq(Nat)],
                    <2>1, <2>2, <2>3, <3>1, PiecesFlush
  <2> QED BY <2>4, <2>5
<1>13. Gone(e, <<>>, n) => Gone(d, u, n)
  BY <1>4, <1>6, <1>12 DEF Gone
<1> QED BY <1>2, <1>6, <1>12, <1>13

LEMMA LastsAdded ==
  ASSUME RotatesAssumption, NEW d \in Disks, NEW u \in Seq(Nat), NEW n \in Nat, NEW m, NEW s,
         Lasts(PiecesOf(d, u), n, m, s), NEW o \in Nat, o = n + 1
  PROVE  /\ Added(u, o) \in Seq(Nat) /\ Lasts(PiecesOf(d, Added(u, o)), o, m, s)
         /\ Gone(d, Added(u, o), o) => Gone(d, u, n)
<1>1. PICK v \in Seq(Nat) : v = Added(u, o)
  BY AppendProperties DEF Added
<1>2. /\ PiecesOf(d, u) \in [Pieces -> Seq(Nat)] /\ PiecesOf(d, u)[-1] = u
      /\ \A k \in 0 .. Max(Rotates) : PiecesOf(d, u)[k] = Text(d[k])
  BY PiecesAre DEF Disks
<1>3. /\ PiecesOf(d, v) \in [Pieces -> Seq(Nat)] /\ PiecesOf(d, v)[-1] = v
      /\ \A k \in 0 .. Max(Rotates) : PiecesOf(d, v)[k] = Text(d[k])
  BY PiecesAre DEF Disks
<1>4. PICK p \in [Pieces -> Seq(Nat)] : p = PiecesOf(d, u)
  BY <1>2
<1>5. PICK q \in [Pieces -> Seq(Nat)] : q = PiecesOf(d, v)
  BY <1>3
<1>6. p[-1] = u /\ \A k \in 0 .. Max(Rotates) : p[k] = Text(d[k])
  BY <1>2, <1>4
<1>7. q[-1] = v /\ \A k \in 0 .. Max(Rotates) : q[k] = Text(d[k])
  BY <1>3, <1>5
<1>8. \A k \in Pieces : k # -1 => k \in 0 .. Max(Rotates)
  BY MaxIs
<1>9. q[-1] = Append(p[-1], n + 1) /\ \A k \in Pieces : k # -1 => q[k] = p[k]
  BY <1>1, <1>6, <1>7, <1>8 DEF Added
<1>10. Lasts(p, n, m, s)
  BY <1>4
<1>11. Lasts(q, n + 1, m, s) /\ AllOf(q) = AllOf(p) \cup {n + 1}
  BY <1>9, <1>10, LastsAdd, ZenonT(40)
<1>12. (1 .. n) \cup {n + 1} = 1 .. o
  OBVIOUS
<1>13. Gone(d, v, o) => Gone(d, u, n)
  BY <1>4, <1>5, <1>11, <1>12 DEF Gone
<1> QED BY <1>1, <1>5, <1>11, <1>13

LEMMA LastsOpened ==
  ASSUME RotatesAssumption, NEW d \in Disks, NEW u \in Seq(Nat),
         NEW e, e = d \/ e = [d EXCEPT ![0] = Text(d[0])]
  PROVE  /\ e \in Disks /\ \A k \in 0 .. Max(Rotates) : k # 0 => e[k] = d[k]
         /\ \A n, m, s : Lasts(PiecesOf(d, u), n, m, s) => Lasts(PiecesOf(e, u), n, m, s)
         /\ \A n : Gone(e, u, n) => Gone(d, u, n)
<1>1. 0 \in 0 .. Max(Rotates) /\ \A k \in Pieces : k # -1 => k \in 0 .. Max(Rotates)
  BY MaxIs
<1>2. PICK a \in Seq(Nat) : a = Text(d[0])
  BY <1>1, PiecesAre DEF Disks
<1>3. Text(a) = a
  BY RotatesAssumption DEF Text, RotatesAssumption
<1>4. /\ e \in Disks /\ Text(e[0]) = Text(d[0])
      /\ \A k \in 0 .. Max(Rotates) : k # 0 => e[k] = d[k]
  BY <1>1, <1>2, <1>3 DEF Disks
<1>5. \A k \in Pieces : k # -1 => Text(e[k]) = Text(d[k])
  BY <1>1, <1>4
<1>6. PiecesOf(e, u) = PiecesOf(d, u)
  BY <1>5 DEF PiecesOf
<1> QED BY <1>4, <1>6 DEF Gone

LEMMA ShapedSame ==
  ASSUME NEW d, NEW e, NEW g, NEW h, Shaped(d, 0, g), h => g,
         \A k \in 0 .. Max(Rotates) : k # 0 => e[k] = d[k]
  PROVE  Shaped(e, 0, h)
BY DEF Shaped

LEMMA FileInitInv == ASSUME RotatesAssumption, FileInit PROVE FilesInv
<1>1. 0 .. Max(Rotates) = {0} \cup Backups
  <2>1. PICK most \in Nat \ {0} : most = Max(Rotates)
    BY MaxIs
  <2>2. 0 .. most = {0} \cup 1 .. most
    OBVIOUS
  <2> QED BY <2>1, <2>2 DEF Backups
<1>2. \A k \in 0 .. Max(Rotates) : disk[k] = Absent
  BY <1>1 DEF FileInit
<1>3. disk \in Disks
  BY <1>1 DEF FileInit, Disks
<1>4. FileTypeOK
  BY <1>3, MaxIs, EmptySeq DEF FileInit, FileTypeOK, Disks
<1>5. Standing
  BY DEF FileInit, Standing, Rotating
<1>6. PICK p : p = PiecesOf(disk, unflushed)
  OBVIOUS
<1>7. \A k \in Pieces : p[k] = <<>>
  BY <1>2, <1>6, MaxIs DEF FileInit, PiecesOf, Text
<1>8. \A k \in Pieces : DOMAIN p[k] = {}
  BY <1>7
<1>9. AllOf(p) = {}
  BY <1>8, AllOfIn
<1>10. Ordered(p)
  BY <1>8 DEF Ordered
<1>11. 1 .. 0 = {} /\ 0 \in 0 .. 0 /\ {l \in 0 + 1 .. 0 : l \notin {}} = {}
  OBVIOUS
<1>12. Lasts(p, 0, {}, FALSE)
  BY <1>9, <1>10, <1>11 DEF Lasts, NoGap
<1>13. Lasting
  BY <1>6, <1>12 DEF Lasting, FileInit
<1>14. AllOf(PiecesOf(disk, unflushed)) = 1 .. lines
  BY <1>6, <1>9, <1>11 DEF FileInit
<1>15. Shape
  BY <1>2, <1>14 DEF Shape, Shaped, Gone
<1> QED BY <1>4, <1>5, <1>13, <1>15 DEF FilesInv

LEMMA FileStartsInv == ASSUME RotatesAssumption, FilesInv, FileStarts PROVE FilesInv'
<1>1. FileTypeOK /\ Standing /\ Lasting /\ Shape
  BY DEF FilesInv
<1>2. /\ disk' = disk \/ disk' = [disk EXCEPT ![0] = Text(disk[0])]
      /\ fp' => disk' = [disk EXCEPT ![0] = Text(disk[0])]
      /\ fp' \in BOOLEAN /\ fileAt = "down" /\ fileAt' = "idle" /\ maxRotate' = Max(Rotates)
      /\ unflushed' = unflushed /\ moving' = moving /\ err' = err
      /\ lines' = lines /\ missing' = missing /\ failed' = failed /\ shrunk' = shrunk
      /\ crashes' = crashes
  BY DEF FileStarts, Opens, observed
<1>3. disk \in Disks /\ unflushed \in Seq(Nat)
  BY <1>1 DEF FileTypeOK
<1>4. /\ disk' \in Disks /\ \A k \in 0 .. Max(Rotates) : k # 0 => disk'[k] = disk[k]
      /\ Lasts(PiecesOf(disk', unflushed), lines, missing, shrunk)
      /\ Gone(disk', unflushed, lines) => Gone(disk, unflushed, lines)
  BY <1>1, <1>2, <1>3, LastsOpened DEF Lasting
<1>5. fp' => disk'[0] # Absent
  <2> SUFFICES ASSUME fp' PROVE disk'[0] # Absent
    OBVIOUS
  <2>1. 0 \in 0 .. Max(Rotates)
    BY MaxIs
  <2>2. Text(disk[0]) \in Seq(Nat)
    BY <1>3, <2>1, PiecesAre DEF Disks
  <2>3. disk'[0] = Text(disk[0])
    BY <1>2, <1>3, <2>1 DEF Disks
  <2> QED BY <2>2, <2>3, RotatesAssumption DEF RotatesAssumption
<1>6. FileTypeOK'
  BY <1>1, <1>2, <1>4, MaxIs DEF FileTypeOK
<1>7. Standing'
  BY <1>1, <1>2, <1>5 DEF Standing, Rotating
<1>8. Lasting'
  BY <1>2, <1>4 DEF Lasting
<1>9. Shape'
  BY <1>1, <1>2, <1>4, ShapedSame DEF Shape, Hole, Rotating
<1> QED BY <1>6, <1>7, <1>8, <1>9 DEF FilesInv

\* The file is closed, or it was not open and nothing is held back.
LEMMA FileCloses ==
  ASSUME RotatesAssumption, FilesInv, unflushed' = <<>>,
         disk' = WrittenOut(disk, unflushed) \/ (disk' = disk /\ unflushed = <<>>)
  PROVE  /\ disk' \in Disks /\ \A k \in 0 .. Max(Rotates) : k # 0 => disk'[k] = disk[k]
         /\ Lasts(PiecesOf(disk', unflushed'), lines, missing, shrunk)
         /\ Gone(disk', unflushed', lines) => Gone(disk, unflushed, lines)
<1>1. disk \in Disks /\ unflushed \in Seq(Nat) /\ lines \in Nat
  BY DEF FilesInv, FileTypeOK
<1>2. Lasts(PiecesOf(disk, unflushed), lines, missing, shrunk)
  BY DEF FilesInv, Lasting
<1>3. CASE disk' = WrittenOut(disk, unflushed)
  BY <1>1, <1>2, <1>3, WrittenOutIs, LastsWrittenOut
<1>4. CASE disk' = disk /\ unflushed = <<>>
  BY <1>1, <1>2, <1>4
<1> QED BY <1>3, <1>4

LEMMA FileConfigInv == ASSUME RotatesAssumption, FilesInv, FileConfig PROVE FilesInv'
<1>1. FileTypeOK /\ Standing /\ Lasting /\ Shape
  BY DEF FilesInv
<1>2. PICK most \in Rotates : /\ fileAt = "idle" /\ Reopens /\ maxRotate' = most
                           /\ shrunk' = (shrunk \/ most < maxRotate)
                           /\ UNCHANGED <<fileAt, moving, err, lines, missing, failed, crashes>>
  BY DEF FileConfig
<1>3. unflushed' = <<>> /\ fp' \in BOOLEAN
  BY <1>2 DEF Reopens
<1>4. disk' = WrittenOut(disk, unflushed) \/ (disk' = disk /\ unflushed = <<>>)
  <2>1. CASE fp \/ fp'
    BY <1>2, <2>1 DEF Reopens, WrittenOut
  <2>2. CASE ~fp /\ ~fp'
    <3>1. unflushed = <<>>
      BY <1>1, <2>2 DEF Standing
    <3>2. disk' = [disk EXCEPT ![0] = disk[0]]
      BY <1>2, <2>2 DEF Reopens
    <3>3. disk' = disk
      BY <1>1, <3>2 DEF FileTypeOK, Disks
    <3> QED BY <3>1, <3>3
  <2> QED BY <2>1, <2>2
<1>5. fp' => disk' = WrittenOut(disk, unflushed)
  BY <1>2 DEF Reopens, WrittenOut
<1>6. /\ disk' \in Disks /\ \A k \in 0 .. Max(Rotates) : k # 0 => disk'[k] = disk[k]
      /\ Lasts(PiecesOf(disk', unflushed'), lines, missing, shrunk)
      /\ Gone(disk', unflushed', lines) => Gone(disk, unflushed, lines)
  BY <1>3, <1>4, FileCloses
<1>7. fp' => disk'[0] # Absent
  BY <1>1, <1>5, WrittenOutIs DEF FileTypeOK
<1>8. ~shrunk' => ~shrunk /\ maxRotate' = Max(Rotates)
  <2>1. maxRotate \in Nat /\ most \in Nat /\ Max(Rotates) \in Nat /\ most <= Max(Rotates)
    BY <1>1, MaxIs DEF FileTypeOK
  <2> SUFFICES ASSUME ~shrunk' PROVE ~shrunk /\ maxRotate' = Max(Rotates)
    OBVIOUS
  <2>2. ~shrunk /\ ~(most < maxRotate)
    BY <1>2
  <2>3. maxRotate = Max(Rotates)
    BY <1>1, <2>2 DEF Standing
  <2>4. most = Max(Rotates)
    BY <2>1, <2>2, <2>3
  <2> QED BY <1>2, <2>2, <2>4
<1>9. FileTypeOK'
  BY <1>1, <1>2, <1>3, <1>6, EmptySeq DEF FileTypeOK
<1>10. Standing'
  BY <1>2, <1>3, <1>7, <1>8 DEF Standing, Rotating
<1>11. Lasting'
  BY <1>2, <1>6, <1>8 DEF Lasting, Lasts
<1>12. Shape'
  BY <1>1, <1>2, <1>6, <1>8, ShapedSame DEF Shape, Hole, Rotating
<1> QED BY <1>9, <1>10, <1>11, <1>12 DEF FilesInv

LEMMA FileDeinitInv == ASSUME RotatesAssumption, FilesInv, FileDeinit PROVE FilesInv'
<1>1. FileTypeOK /\ Standing /\ Lasting /\ Shape
  BY DEF FilesInv
<1>2. /\ fileAt = "idle" /\ fileAt' = "down" /\ fp' = FALSE /\ unflushed' = <<>>
      /\ disk' = [disk EXCEPT ![0] = IF fp THEN Text(@) \o unflushed ELSE @]
      /\ maxRotate' = maxRotate /\ moving' = moving /\ err' = err
      /\ lines' = lines /\ missing' = missing /\ failed' = failed /\ shrunk' = shrunk
      /\ crashes' = crashes
  BY DEF FileDeinit, observed
<1>3. disk' = WrittenOut(disk, unflushed) \/ (disk' = disk /\ unflushed = <<>>)
  <2>1. CASE fp
    BY <1>2, <2>1 DEF WrittenOut
  <2>2. CASE ~fp
    <3>1. unflushed = <<>>
      BY <1>1, <2>2 DEF Standing
    <3>2. disk' = [disk EXCEPT ![0] = disk[0]]
      BY <1>2, <2>2
    <3>3. disk' = disk
      BY <1>1, <3>2 DEF FileTypeOK, Disks
    <3> QED BY <3>1, <3>3
  <2> QED BY <2>1, <2>2
<1>4. /\ disk' \in Disks /\ \A k \in 0 .. Max(Rotates) : k # 0 => disk'[k] = disk[k]
      /\ Lasts(PiecesOf(disk', unflushed'), lines, missing, shrunk)
      /\ Gone(disk', unflushed', lines) => Gone(disk, unflushed, lines)
  BY <1>2, <1>3, FileCloses
<1>5. FileTypeOK'
  BY <1>1, <1>2, <1>4, EmptySeq DEF FileTypeOK
<1>6. Standing'
  BY <1>1, <1>2 DEF Standing, Rotating
<1>7. Lasting'
  BY <1>2, <1>4 DEF Lasting
<1>8. Shape'
  <2>1. Hole = 0 /\ Hole' = 0
    BY <1>2 DEF Hole, Rotating
  <2>2. ~failed /\ ~shrunk => Shaped(disk', 0, Gone(disk', unflushed', lines))
    BY <1>1, <1>4, <2>1, ShapedSame DEF Shape
  <2> QED BY <1>2, <2>1, <2>2 DEF Shape
<1> QED BY <1>5, <1>6, <1>7, <1>8 DEF FilesInv

LEMMA EndsInv == ASSUME RotatesAssumption, FilesInv, Ends PROVE FilesInv'
<1>1. FileTypeOK /\ Standing /\ Lasting /\ Shape
  BY DEF FilesInv
<1>2. /\ fileAt' = "down" /\ fp' = FALSE /\ unflushed' = <<>>
      /\ missing' = missing \cup ToSet(unflushed) /\ crashes' = crashes + 1 /\ failed' = TRUE
      /\ disk' = disk /\ maxRotate' = maxRotate /\ moving' = moving /\ err' = err
      /\ lines' = lines /\ shrunk' = shrunk
  BY DEF Ends
<1>3. disk \in Disks /\ unflushed \in Seq(Nat) /\ lines \in Nat
  BY <1>1 DEF FileTypeOK
<1>4. Lasts(PiecesOf(disk, <<>>), lines, missing \cup ToSet(unflushed), shrunk)
  <2>1. PICK p \in [Pieces -> Seq(Nat)] : p = PiecesOf(disk, unflushed)
    BY <1>3, PiecesAre DEF Disks
  <2>2. PICK q \in [Pieces -> Seq(Nat)] : q = PiecesOf(disk, <<>>)
    BY <1>3, PiecesAre, EmptySeq DEF Disks
  <2>3. -1 \in Pieces
    BY MaxIs
  <2>4. p[-1] = unflushed /\ q[-1] = <<>>
    BY <2>1, <2>2, <2>3 DEF PiecesOf
  <2>5. \A k \in Pieces : k # -1 => q[k] = p[k]
    BY <2>1, <2>2 DEF PiecesOf
  <2>6. Lasts(p, lines, missing, shrunk)
    BY <1>1, <2>1 DEF Lasting
  <2>7. Lasts(q, lines, missing \cup ToSet(p[-1]), shrunk)
    BY <1>3, <2>4, <2>5, <2>6, LastsLose
  <2> QED BY <2>2, <2>4, <2>7
<1>5. FileTypeOK'
  <2>1. missing \cup ToSet(unflushed) \subseteq 1 .. lines
    BY <1>4 DEF Lasts
  <2>2. missing \cup ToSet(unflushed) \subseteq Nat
    BY <1>3, <2>1
  <2>3. crashes' \in Nat
    BY <1>1, <1>2 DEF FileTypeOK
  <2>4. missing' \subseteq Nat
    BY <1>2, <2>2
  <2> QED BY <1>1, <1>2, <2>3, <2>4, EmptySeq DEF FileTypeOK
<1>6. Standing'
  BY <1>1, <1>2 DEF Standing, Rotating
<1>7. Lasting'
  BY <1>2, <1>4 DEF Lasting
<1>8. Shape'
  BY <1>2 DEF Shape
<1> QED BY <1>5, <1>6, <1>7, <1>8 DEF FilesInv

LEMMA StdioFlushInv == ASSUME RotatesAssumption, FilesInv, StdioFlush PROVE FilesInv'
<1>1. FileTypeOK /\ Standing /\ Lasting /\ Shape
  BY DEF FilesInv
<1>2. /\ fileAt = "idle" /\ fp /\ unflushed' = <<>> /\ disk' = [disk EXCEPT ![0] = @ \o unflushed]
      /\ fp' = fp /\ maxRotate' = maxRotate /\ fileAt' = fileAt /\ moving' = moving /\ err' = err
      /\ lines' = lines /\ missing' = missing /\ failed' = failed /\ shrunk' = shrunk
      /\ crashes' = crashes
  BY DEF StdioFlush, observed
<1>3. Text(disk[0]) = disk[0]
  BY <1>1, <1>2 DEF Standing, Text
<1>4. disk' = WrittenOut(disk, unflushed)
  BY <1>2, <1>3 DEF WrittenOut
<1>5. /\ disk' \in Disks /\ \A k \in 0 .. Max(Rotates) : k # 0 => disk'[k] = disk[k]
      /\ Lasts(PiecesOf(disk', unflushed'), lines, missing, shrunk)
      /\ Gone(disk', unflushed', lines) => Gone(disk, unflushed, lines)
  BY <1>2, <1>4, FileCloses
<1>6. disk'[0] # Absent
  BY <1>1, <1>4, WrittenOutIs DEF FileTypeOK
<1>7. FileTypeOK'
  BY <1>1, <1>2, <1>5, EmptySeq DEF FileTypeOK
<1>8. Standing'
  BY <1>1, <1>2, <1>6 DEF Standing, Rotating
<1>9. Lasting'
  BY <1>2, <1>5 DEF Lasting
<1>10. Shape'
  <2>1. Hole = 0 /\ Hole' = 0
    BY <1>2 DEF Hole, Rotating
  <2>2. ~failed /\ ~shrunk => Shaped(disk', 0, Gone(disk', unflushed', lines))
    BY <1>1, <1>5, <2>1, ShapedSame DEF Shape
  <2> QED BY <1>2, <2>1, <2>2 DEF Shape
<1> QED BY <1>7, <1>8, <1>9, <1>10 DEF FilesInv

\* The file has grown past its size.
LEMMA FileRotatesInv ==
  ASSUME RotatesAssumption, FilesInv, FileWrite, Len(disk[0] \o unflushed) > FileMax
  PROVE  FilesInv'
<1>1. FileTypeOK /\ Standing /\ Lasting /\ Shape
  BY DEF FilesInv
<1>2. /\ fileAt = "idle" /\ fp /\ unflushed' = <<>> /\ disk' = [disk EXCEPT ![0] = @ \o unflushed]
      /\ fileAt' = "remove" /\ moving' = maxRotate - 1 /\ err' = FALSE /\ fp' = FALSE
      /\ maxRotate' = maxRotate
      /\ lines' = lines /\ missing' = missing /\ failed' = failed /\ shrunk' = shrunk
      /\ crashes' = crashes
  BY DEF FileWrite, observed
<1>3. Text(disk[0]) = disk[0]
  BY <1>1, <1>2 DEF Standing, Text
<1>4. disk' = WrittenOut(disk, unflushed)
  BY <1>2, <1>3 DEF WrittenOut
<1>5. /\ disk' \in Disks /\ \A k \in 0 .. Max(Rotates) : k # 0 => disk'[k] = disk[k]
      /\ Lasts(PiecesOf(disk', unflushed'), lines, missing, shrunk)
      /\ Gone(disk', unflushed', lines) => Gone(disk, unflushed, lines)
  BY <1>2, <1>4, FileCloses
<1>6. disk'[0] # Absent
  BY <1>1, <1>4, WrittenOutIs DEF FileTypeOK
<1>7. Len(disk'[0]) > FileMax
  <2>1. 0 \in DOMAIN disk
    BY <1>1, MaxIs DEF FileTypeOK, Disks
  <2>2. PICK c : c = disk[0] \o unflushed
    OBVIOUS
  <2>3. Len(c) > FileMax
    BY <2>2
  <2>4. disk' = [disk EXCEPT ![0] = c]
    BY <1>2, <2>2
  <2> QED BY <2>1, <2>3, <2>4
<1>8. maxRotate \in Nat \ {0} /\ moving' \in Nat /\ moving' < maxRotate'
  <2>1. maxRotate \in Nat \ {0}
    BY <1>1, MaxIs DEF FileTypeOK
  <2> QED BY <1>2, <2>1
<1>9. FileTypeOK'
  BY <1>1, <1>2, <1>5, <1>8, EmptySeq DEF FileTypeOK
<1>10. Standing'
  <2>1. ~shrunk => maxRotate = Max(Rotates)
    BY <1>1 DEF Standing
  <2> QED BY <1>2, <1>8, <2>1 DEF Standing, Rotating
<1>11. Lasting'
  BY <1>2, <1>5 DEF Lasting
<1>12. Shape'
  <2> SUFFICES ASSUME ~failed, ~shrunk PROVE Shaped(disk', Hole', Gone(disk', unflushed', lines'))
    BY <1>2 DEF Shape
  <2>1. Hole = 0 /\ Hole' = Max(Rotates) + 1
    <3>1. maxRotate = Max(Rotates)
      BY <1>1 DEF Standing
    <3> QED BY <1>2, <3>1 DEF Hole, Rotating
  <2>2. Shaped(disk, 0, Gone(disk, unflushed, lines))
    BY <1>1, <2>1 DEF Shape
  <2>3. PICK top \in Nat : top = Max(Rotates)
    BY MaxIs
  <2>4. \A k \in 0 .. Max(Rotates) : k # 0 => 0 < k
    OBVIOUS
  <2>5. Shaped(disk', Max(Rotates) + 1, Gone(disk', unflushed', lines))
    <3> SUFFICES ASSUME NEW k \in 0 .. Max(Rotates)
                 PROVE  /\ disk'[k] # Absent => /\ Len(disk'[k]) > FileMax
                                                /\ \A j \in 0 .. Max(Rotates) : j < k => disk'[j] # Absent
                        /\ Gone(disk', unflushed', lines) => disk'[k] # Absent
      BY DEF Shaped
    <3>1. CASE k = 0
      BY <1>6, <1>7, <3>1
    <3>2. CASE k # 0
      BY <1>5, <1>6, <2>2, <3>2 DEF Shaped
    <3> QED BY <3>1, <3>2
  <2> QED BY <1>2, <2>1, <2>5
<1> QED BY <1>9, <1>10, <1>11, <1>12 DEF FilesInv

LEMMA FileWritesInv ==
  ASSUME RotatesAssumption, FilesInv, FileWrite, ~(Len(disk[0] \o unflushed) > FileMax)
  PROVE  FilesInv'
<1>1. FileTypeOK /\ Standing /\ Lasting /\ Shape
  BY DEF FilesInv
<1>2. /\ fileAt = "idle" /\ fp /\ disk' = [disk EXCEPT ![0] = @ \o unflushed]
      /\ unflushed' = Append(<<>>, lines + 1) /\ lines' = lines + 1
      /\ fp' = fp /\ maxRotate' = maxRotate /\ fileAt' = fileAt /\ moving' = moving /\ err' = err
      /\ missing' = missing /\ failed' = failed /\ shrunk' = shrunk
      /\ crashes' = crashes
  BY DEF FileWrite, Fwrite
<1>3. Text(disk[0]) = disk[0]
  BY <1>1, <1>2 DEF Standing, Text
<1>4. disk' = WrittenOut(disk, unflushed)
  BY <1>2, <1>3 DEF WrittenOut
<1>5. disk \in Disks /\ unflushed \in Seq(Nat) /\ lines \in Nat /\ <<>> \in Seq(Nat)
  BY <1>1, EmptySeq DEF FileTypeOK
<1>6. PICK o \in Nat : o = lines + 1
  BY <1>5
<1>7. lines' = o /\ unflushed' = Added(<<>>, o)
  BY <1>2, <1>6 DEF Added
<1>8. /\ disk' \in Disks /\ disk'[0] # Absent
      /\ \A k \in 0 .. Max(Rotates) : k # 0 => disk'[k] = disk[k]
  BY <1>4, <1>5, WrittenOutIs
<1>9. /\ Lasts(PiecesOf(disk', <<>>), lines, missing, shrunk)
      /\ Gone(disk', <<>>, lines) => Gone(disk, unflushed, lines)
  BY <1>1, <1>4, <1>5, LastsWrittenOut DEF Lasting
<1>10. /\ Added(<<>>, o) \in Seq(Nat) /\ Lasts(PiecesOf(disk', Added(<<>>, o)), o, missing, shrunk)
       /\ Gone(disk', Added(<<>>, o), o) => Gone(disk', <<>>, lines)
  BY <1>5, <1>6, <1>8, <1>9, LastsAdded
<1>11. FileTypeOK'
  BY <1>1, <1>2, <1>7, <1>8, <1>10 DEF FileTypeOK
<1>12. Standing'
  BY <1>1, <1>2, <1>8 DEF Standing, Rotating
<1>13. Lasting'
  BY <1>2, <1>7, <1>10 DEF Lasting
<1>14. Shape'
  <2>1. Hole = 0 /\ Hole' = 0
    BY <1>2 DEF Hole, Rotating
  <2>2. ~failed /\ ~shrunk => Shaped(disk', 0, Gone(disk', unflushed', lines'))
    BY <1>1, <1>7, <1>8, <1>9, <1>10, <2>1, ShapedSame DEF Shape
  <2> QED BY <1>2, <2>1, <2>2 DEF Shape
<1> QED BY <1>11, <1>12, <1>13, <1>14 DEF FilesInv

LEMMA RotateRemoveInv == ASSUME RotatesAssumption, FilesInv, RotateRemove PROVE FilesInv'
<1>1. FileTypeOK /\ Standing /\ Lasting /\ Shape
  BY DEF FilesInv
<1>2. /\ fileAt = "remove" /\ fileAt' = "rename" /\ disk' = [disk EXCEPT ![moving + 1] = Absent]
      /\ unflushed' = unflushed /\ fp' = fp /\ maxRotate' = maxRotate /\ moving' = moving /\ err' = err
      /\ lines' = lines /\ missing' = missing /\ failed' = failed /\ shrunk' = shrunk
      /\ crashes' = crashes
  BY DEF RotateRemove, RemovedFile, observed
<1>3. disk \in Disks /\ unflushed \in Seq(Nat) /\ lines \in Nat /\ moving \in Nat
  BY <1>1 DEF FileTypeOK
<1>4. PICK top \in Nat : top = Max(Rotates)
  BY MaxIs
<1>5. PICK d \in 1 .. top : d = moving + 1
  <2>1. maxRotate \in Nat /\ maxRotate <= top /\ moving < maxRotate
    BY <1>1, <1>2, <1>4, MaxIs DEF Standing, FileTypeOK, Rotating
  <2> QED BY <1>3, <2>1
<1>6. d \in 0 .. Max(Rotates) /\ d \in Pieces /\ d # -1
  <2>1. d \in 0 .. top
    OBVIOUS
  <2> QED BY <1>4, <2>1, MaxIs
<1>7. /\ disk' \in Disks /\ disk'[d] = Absent
      /\ \A k \in 0 .. Max(Rotates) : k # d => disk'[k] = disk[k]
  BY <1>2, <1>3, <1>5, <1>6 DEF Disks
<1>8. shrunk \/ d = Max(Rotates) \/ disk[d] = Absent
  <2> SUFFICES ASSUME ~shrunk, d # Max(Rotates) PROVE disk[d] = Absent
    OBVIOUS
  <2>1. moving # Max(Rotates) - 1
    BY <1>3, <1>4, <1>5
  <2> QED BY <1>1, <1>2, <1>5, <2>1 DEF Standing
<1>9. PICK p \in [Pieces -> Seq(Nat)] : p = PiecesOf(disk, unflushed)
  BY <1>3, PiecesAre DEF Disks
<1>10. PICK q \in [Pieces -> Seq(Nat)] : q = PiecesOf(disk', unflushed)
  BY <1>3, <1>7, PiecesAre DEF Disks
<1>11. q[d] = <<>> /\ p[d] = Text(disk[d]) /\ \A k \in Pieces : k # d => q[k] = p[k]
  <2>1. \A k \in Pieces : k # -1 => k \in 0 .. Max(Rotates)
    BY MaxIs
  <2> QED BY <1>6, <1>7, <1>9, <1>10, <2>1 DEF PiecesOf, Text
<1>12. shrunk \/ d = Max(Rotates) \/ p[d] = <<>>
  BY <1>8, <1>11 DEF Text
<1>13. Lasts(p, lines, missing, shrunk)
  BY <1>1, <1>9 DEF Lasting
<1>14. Lasts(q, lines, missing, shrunk)
  BY <1>3, <1>6, <1>11, <1>12, <1>13, LastsDrop
<1>15. Gone(disk', unflushed, lines) => Gone(disk, unflushed, lines) \/ disk[d] # Absent
  <2> SUFFICES ASSUME disk[d] = Absent PROVE Gone(disk', unflushed, lines) => Gone(disk, unflushed, lines)
    OBVIOUS
  <2>1. p[d] = <<>>
    BY <1>11 DEF Text
  <2>2. \A k \in Pieces : q[k] = p[k]
    BY <1>11, <2>1
  <2>3. q = p
    BY <2>2
  <2> QED BY <1>9, <1>10, <2>3 DEF Gone
<1>16. FileTypeOK'
  BY <1>1, <1>2, <1>7 DEF FileTypeOK
<1>17. Standing'
  BY <1>1, <1>2, <1>5, <1>7 DEF Standing, Rotating
<1>18. Lasting'
  BY <1>2, <1>10, <1>14 DEF Lasting
<1>19. Shape'
  <2> SUFFICES ASSUME ~failed, ~shrunk PROVE Shaped(disk', Hole', Gone(disk', unflushed', lines'))
    BY <1>2 DEF Shape
  <2>1. Hole' = d
    BY <1>2, <1>5 DEF Hole, Rotating
  <2>2. Hole = d \/ (d = Max(Rotates) /\ Hole = Max(Rotates) + 1)
    BY <1>2, <1>3, <1>4, <1>5 DEF Hole, Rotating
  <2>3. Shaped(disk, Hole, Gone(disk, unflushed, lines))
    BY <1>1 DEF Shape
  <2>4. CASE Hole = d
    <3>1. disk[d] = Absent
      <4>1. moving # Max(Rotates) - 1
        BY <1>2, <1>3, <1>4, <1>5, <2>4 DEF Hole, Rotating
      <4> QED BY <1>1, <1>2, <1>5, <4>1 DEF Standing
    <3> QED BY <1>2, <1>7, <1>15, <2>1, <2>3, <2>4, <3>1 DEF Shaped
  <2>5. CASE d = Max(Rotates) /\ Hole = Max(Rotates) + 1
    <3>1. \A k \in 0 .. Max(Rotates) : k # Hole /\ (k # d => k < d)
      BY <1>4, <2>5
    <3> SUFFICES ASSUME NEW k \in 0 .. Max(Rotates), k # d
                 PROVE  /\ disk'[k] # Absent => /\ Len(disk'[k]) > FileMax
                                                /\ \A j \in 0 .. Max(Rotates) : j # d /\ j < k => disk'[j] # Absent
                        /\ Gone(disk', unflushed, lines) => disk'[k] # Absent
      BY <1>2, <2>1 DEF Shaped
    <3>2. disk[d] # Absent => disk[k] # Absent
      BY <1>6, <2>3, <3>1 DEF Shaped
    <3>3. Gone(disk, unflushed, lines) => disk[k] # Absent
      BY <2>3, <3>1 DEF Shaped
    <3>4. disk[k] # Absent => /\ Len(disk[k]) > FileMax
                              /\ \A j \in 0 .. Max(Rotates) : j < k => disk[j] # Absent
      BY <2>3, <3>1 DEF Shaped
    <3> QED BY <1>7, <1>15, <3>2, <3>3, <3>4
  <2> QED BY <2>2, <2>4, <2>5
<1> QED BY <1>16, <1>17, <1>18, <1>19 DEF FilesInv

\* A rename that succeeds, of a file or of none.
LEMMA FileRenamedInv ==
  ASSUME RotatesAssumption, FilesInv, RotateRename,
         disk' = [disk EXCEPT ![moving + 1] = disk[moving], ![moving] = Absent],
         fileAt' = IF moving = 0 THEN "reopen" ELSE "remove",
         moving' = IF moving = 0 THEN 0 ELSE moving - 1,
         err' = err, failed' = failed
  PROVE  FilesInv'
<1>1. FileTypeOK /\ Standing /\ Lasting /\ Shape
  BY DEF FilesInv
<1>2. /\ fileAt = "rename" /\ unflushed' = unflushed /\ fp' = fp /\ maxRotate' = maxRotate
      /\ lines' = lines /\ missing' = missing /\ shrunk' = shrunk /\ crashes' = crashes
  BY DEF RotateRename
<1>3. disk \in Disks /\ unflushed \in Seq(Nat) /\ lines \in Nat
  BY <1>1 DEF FileTypeOK
<1>4. PICK top \in Nat : top = Max(Rotates)
  BY MaxIs
<1>5. PICK d \in 0 .. top - 1 : d = moving
  <2>1. maxRotate \in Nat /\ maxRotate <= top /\ moving < maxRotate /\ moving \in Nat
    BY <1>1, <1>2, <1>4, MaxIs DEF Standing, FileTypeOK, Rotating
  <2> QED BY <2>1
<1>6. PICK e \in 1 .. top : e = d + 1
  OBVIOUS
<1>7. d \in 0 .. Max(Rotates) /\ e \in 0 .. Max(Rotates) /\ d # e /\ d \in Nat
  BY <1>4, <1>6
<1>8. disk[e] = Absent
  BY <1>1, <1>2, <1>5, <1>6 DEF Standing
<1>9. disk' = [disk EXCEPT ![e] = disk[d], ![d] = Absent]
  BY <1>5, <1>6
<1>10. /\ disk' \in Disks /\ disk'[d] = Absent /\ disk'[e] = disk[d]
       /\ \A k \in 0 .. Max(Rotates) : k # d /\ k # e => disk'[k] = disk[k]
  BY <1>3, <1>7, <1>9 DEF Disks
<1>11. PICK p \in [Pieces -> Seq(Nat)] : p = PiecesOf(disk, unflushed)
  BY <1>3, PiecesAre DEF Disks
<1>12. PICK q \in [Pieces -> Seq(Nat)] : q = PiecesOf(disk', unflushed)
  BY <1>3, <1>10, PiecesAre DEF Disks
<1>13. p[e] = <<>> /\ q[e] = p[d] /\ q[d] = <<>>
  BY <1>7, <1>8, <1>10, <1>11, <1>12, MaxIs DEF PiecesOf, Text
<1>14. \A k \in Pieces : k # d /\ k # e => q[k] = p[k]
  <2>1. \A k \in Pieces : k # -1 => k \in 0 .. Max(Rotates)
    BY MaxIs
  <2> SUFFICES ASSUME NEW k \in Pieces, k # d, k # e PROVE q[k] = p[k]
    OBVIOUS
  <2>2. CASE k = -1
    BY <1>11, <1>12, <2>2 DEF PiecesOf
  <2>3. CASE k # -1
    <3>1. disk'[k] = disk[k]
      BY <1>10, <2>1, <2>3
    <3> QED BY <1>11, <1>12, <2>3, <3>1 DEF PiecesOf
  <2> QED BY <2>2, <2>3
<1>15. d \in 0 .. Max(Rotates) - 1
  BY <1>4
<1>16. Lasts(p, lines, missing, shrunk)
  BY <1>1, <1>11 DEF Lasting
<1>17. Lasts(q, lines, missing, shrunk)
  BY <1>3, <1>6, <1>13, <1>14, <1>15, <1>16, LastsMove
<1>18. AllOf(q) = AllOf(p)
  <2>1. Ordered(p)
    BY <1>16 DEF Lasts
  <2>2. /\ p[d + 1] = <<>> /\ q[d + 1] = p[d] /\ q[d] = <<>>
        /\ \A k \in Pieces : k # d /\ k # d + 1 => q[k] = p[k]
    BY <1>6, <1>13, <1>14
  <2> QED BY ONLY RotatesAssumption, p \in [Pieces -> Seq(Nat)], q \in [Pieces -> Seq(Nat)],
                  <1>15, <2>1, <2>2, PiecesMove
<1>19. Gone(disk', unflushed, lines) => Gone(disk, unflushed, lines)
  BY <1>11, <1>12, <1>18 DEF Gone
<1>20. moving' \in Nat /\ moving' + 1 = (IF d = 0 THEN 1 ELSE d) /\ moving' < maxRotate
  <2>1. moving < maxRotate /\ maxRotate \in Nat
    BY <1>1, <1>2, MaxIs DEF Standing, FileTypeOK, Rotating
  <2> QED BY <1>5, <1>7, <2>1
<1>21. fileAt' = (IF d = 0 THEN "reopen" ELSE "remove")
  BY <1>5
<1>22. FileTypeOK'
  BY <1>1, <1>2, <1>10, <1>20, <1>21 DEF FileTypeOK
<1>23. Standing'
  BY <1>1, <1>2, <1>10, <1>20, <1>21 DEF Standing, Rotating
<1>24. Lasting'
  BY <1>2, <1>12, <1>17 DEF Lasting
<1>25. Shape'
  <2> SUFFICES ASSUME ~failed, ~shrunk PROVE Shaped(disk', Hole', Gone(disk', unflushed', lines'))
    BY <1>2 DEF Shape
  <2>1. Hole = e
    BY <1>2, <1>5, <1>6 DEF Hole, Rotating
  <2>2. Hole' = d
    <3>1. CASE d = 0
      BY <1>21, <3>1 DEF Hole, Rotating
    <3>2. CASE d # 0
      <4>1. moving' # Max(Rotates) - 1
        BY <1>4, <1>5, <1>7, <1>20, <3>2
      <4> QED BY <1>20, <1>21, <3>2, <4>1 DEF Hole, Rotating
    <3> QED BY <3>1, <3>2
  <2>3. Shaped(disk, e, Gone(disk, unflushed, lines))
    BY <1>1, <2>1 DEF Shape
  \* Where a file was before.
  <2> DEFINE from(k) == IF k = e THEN d ELSE k
  <2>4. ASSUME NEW k \in 0 .. Max(Rotates), k # d
        PROVE  from(k) \in 0 .. Max(Rotates) /\ from(k) # e /\ disk'[k] = disk[from(k)]
    BY <1>7, <1>10, <2>4
  <2>5. ASSUME NEW k \in 0 .. Max(Rotates), NEW j \in 0 .. Max(Rotates), k # d, j # d, j < k
        PROVE  from(j) < from(k)
    BY <1>6, <1>7, <2>5
  <2> HIDE DEF from
  <2> SUFFICES ASSUME NEW k \in 0 .. Max(Rotates), k # d
               PROVE  /\ disk'[k] # Absent => /\ Len(disk'[k]) > FileMax
                                              /\ \A j \in 0 .. Max(Rotates) : j # d /\ j < k => disk'[j] # Absent
                      /\ Gone(disk', unflushed, lines) => disk'[k] # Absent
    BY <1>2, <2>2 DEF Shaped
  <2>6. disk'[k] # Absent => Len(disk'[k]) > FileMax
    BY <2>3, <2>4 DEF Shaped
  <2>7. Gone(disk', unflushed, lines) => disk'[k] # Absent
    BY <1>19, <2>3, <2>4 DEF Shaped
  <2>8. ASSUME disk'[k] # Absent, NEW j \in 0 .. Max(Rotates), j # d, j < k
        PROVE  disk'[j] # Absent
    <3>1. from(j) < from(k)
      BY <2>5, <2>8
    <3>2. /\ from(k) \in 0 .. Max(Rotates) /\ from(k) # e /\ disk'[k] = disk[from(k)]
          /\ from(j) \in 0 .. Max(Rotates) /\ from(j) # e /\ disk'[j] = disk[from(j)]
      BY <2>4, <2>8
    <3> QED BY <2>3, <2>8, <3>1, <3>2 DEF Shaped
  <2> QED BY <2>6, <2>7, <2>8
<1> QED BY <1>22, <1>23, <1>24, <1>25 DEF FilesInv

LEMMA RotateRenameInv == ASSUME RotatesAssumption, FilesInv, RotateRename PROVE FilesInv'
<1>1. FileTypeOK /\ Standing /\ Lasting /\ Shape
  BY DEF FilesInv
<1>2. CASE /\ disk' = [disk EXCEPT ![moving + 1] = disk[moving], ![moving] = Absent]
           /\ fileAt' = IF moving = 0 THEN "reopen" ELSE "remove"
           /\ moving' = IF moving = 0 THEN 0 ELSE moving - 1
           /\ err' = err /\ failed' = failed
  BY <1>2, FileRenamedInv
<1>3. CASE /\ fileAt' = "reopen" /\ err' = TRUE /\ failed' = TRUE /\ moving' = 0 /\ disk' = disk
  <2>1. /\ fileAt = "rename" /\ unflushed' = unflushed /\ fp' = fp /\ maxRotate' = maxRotate
        /\ lines' = lines /\ missing' = missing /\ shrunk' = shrunk /\ crashes' = crashes
    BY DEF RotateRename
  <2>2. FileTypeOK'
    BY <1>1, <1>3, <2>1 DEF FileTypeOK
  <2>3. Standing'
    BY <1>1, <1>3, <2>1 DEF Standing, Rotating
  <2>4. Lasting'
    BY <1>1, <1>3, <2>1 DEF Lasting
  <2>5. Shape'
    BY <1>3 DEF Shape
  <2> QED BY <2>2, <2>3, <2>4, <2>5 DEF FilesInv
<1> QED BY <1>2, <1>3 DEF RotateRename

LEMMA RotateReopenInv == ASSUME RotatesAssumption, FilesInv, RotateReopen PROVE FilesInv'
<1>1. FileTypeOK /\ Standing /\ Lasting /\ Shape
  BY DEF FilesInv
<1>2. /\ fileAt = "reopen" /\ moving' = 0 /\ err' = FALSE /\ fp' \in BOOLEAN
      /\ disk' = disk \/ disk' = [disk EXCEPT ![0] = Text(disk[0])]
      /\ fp' => disk' = [disk EXCEPT ![0] = Text(disk[0])]
      /\ maxRotate' = maxRotate /\ missing' = missing /\ shrunk' = shrunk
  BY DEF RotateReopen, Opens, Fwrite, observed
<1>3. disk \in Disks /\ unflushed \in Seq(Nat) /\ unflushed = <<>> /\ lines \in Nat
  BY <1>1, <1>2 DEF FileTypeOK, Standing
<1>4. /\ disk' \in Disks /\ \A k \in 0 .. Max(Rotates) : k # 0 => disk'[k] = disk[k]
      /\ Lasts(PiecesOf(disk', unflushed), lines, missing, shrunk)
      /\ Gone(disk', unflushed, lines) => Gone(disk, unflushed, lines)
  BY <1>1, <1>2, <1>3, LastsOpened DEF Lasting
<1>5. fp' => disk'[0] # Absent
  <2> SUFFICES ASSUME fp' PROVE disk'[0] # Absent
    OBVIOUS
  <2>1. 0 \in 0 .. Max(Rotates)
    BY MaxIs
  <2>2. Text(disk[0]) \in Seq(Nat)
    BY <1>3, <2>1, PiecesAre DEF Disks
  <2>3. disk'[0] = Text(disk[0])
    BY <1>2, <1>3, <2>1 DEF Disks
  <2> QED BY <2>2, <2>3, RotatesAssumption DEF RotatesAssumption
<1>6. Hole = 0 /\ (fileAt' \in {"idle", "down"} => Hole' = 0)
  BY <1>2 DEF Hole, Rotating
\* The line is dropped, or there is no file to write it to.
<1>7. CASE /\ fileAt' = "idle" \/ (fileAt' = "down" /\ ~fp')
           /\ unflushed' = unflushed /\ lines' = lines
           /\ failed' \in BOOLEAN /\ (~failed' => ~failed) /\ crashes' \in Nat
  <2>1. FileTypeOK'
    BY <1>1, <1>2, <1>3, <1>4, <1>7 DEF FileTypeOK
  <2>2. Standing'
    BY <1>1, <1>2, <1>3, <1>5, <1>7 DEF Standing, Rotating
  <2>3. Lasting'
    BY <1>2, <1>4, <1>7 DEF Lasting
  <2>4. Shape'
    <3>1. ~failed /\ ~shrunk => Shaped(disk', 0, Gone(disk', unflushed', lines'))
      BY <1>1, <1>4, <1>6, <1>7, ShapedSame DEF Shape
    <3> QED BY <1>2, <1>6, <1>7, <3>1 DEF Shape
  <2> QED BY <2>1, <2>2, <2>3, <2>4 DEF FilesInv
<1>8. CASE /\ fp' /\ fileAt' = "idle" /\ unflushed' = Append(unflushed, lines + 1) /\ lines' = lines + 1
           /\ failed' = failed /\ crashes' = crashes
  <2>1. PICK o \in Nat : o = lines + 1
    BY <1>3
  <2>2. lines' = o /\ unflushed' = Added(unflushed, o)
    BY <1>8, <2>1 DEF Added
  <2>3. /\ Added(unflushed, o) \in Seq(Nat) /\ Lasts(PiecesOf(disk', Added(unflushed, o)), o, missing, shrunk)
        /\ Gone(disk', Added(unflushed, o), o) => Gone(disk', unflushed, lines)
    BY <1>3, <1>4, <2>1, LastsAdded
  <2>4. FileTypeOK'
    BY <1>1, <1>2, <1>4, <1>8, <2>2, <2>3 DEF FileTypeOK
  <2>5. Standing'
    BY <1>1, <1>2, <1>5, <1>8 DEF Standing, Rotating
  <2>6. Lasting'
    BY <1>2, <2>2, <2>3 DEF Lasting
  <2>7. Shape'
    <3>1. ~failed /\ ~shrunk => Shaped(disk', 0, Gone(disk', unflushed', lines'))
      BY <1>1, <1>4, <1>6, <2>2, <2>3, ShapedSame DEF Shape
    <3> QED BY <1>2, <1>6, <1>8, <3>1 DEF Shape
  <2> QED BY <2>4, <2>5, <2>6, <2>7 DEF FilesInv
<1> QED
  <2>1. crashes + 1 \in Nat /\ crashes \in Nat /\ failed \in BOOLEAN
    BY <1>1 DEF FileTypeOK
  <2>2. CASE err
    BY <1>7, <2>1, <2>2 DEF RotateReopen, observed
  <2>3. CASE ~err /\ fp'
    BY <1>8, <2>3 DEF RotateReopen, Fwrite
  <2>4. CASE ~err /\ ~fp'
    BY <1>7, <2>1, <2>4 DEF RotateReopen
  <2> QED BY <2>2, <2>3, <2>4

LEMMA FileStep == ASSUME RotatesAssumption, FilesInv, [FileNext]_filesVars PROVE FilesInv'
<1>1. CASE FileNext
  <2>1. CASE FileStarts
    BY <2>1, FileStartsInv
  <2>2. CASE FileConfig
    BY <2>2, FileConfigInv
  <2>3. CASE FileDeinit
    BY <2>3, FileDeinitInv
  <2>4. CASE FileCrash
    BY <2>4, EndsInv DEF FileCrash
  <2>5. CASE FileWrite
    <3>1. CASE Len(disk[0] \o unflushed) > FileMax
      BY <2>5, <3>1, FileRotatesInv
    <3>2. CASE ~(Len(disk[0] \o unflushed) > FileMax)
      BY <2>5, <3>2, FileWritesInv
    <3> QED BY <3>1, <3>2
  <2>6. CASE FileWriteNull
    BY <2>6, EndsInv DEF FileWriteNull
  <2>7. CASE RotateRemove
    BY <2>7, RotateRemoveInv
  <2>8. CASE RotateRename
    BY <2>8, RotateRenameInv
  <2>9. CASE RotateReopen
    BY <2>9, RotateReopenInv
  <2>10. CASE StdioFlush
    BY <2>10, StdioFlushInv
  <2> QED BY <1>1, <2>1, <2>2, <2>3, <2>4, <2>5, <2>6, <2>7, <2>8, <2>9, <2>10 DEF FileNext
<1>2. CASE UNCHANGED filesVars
  <2>1. /\ disk' = disk /\ unflushed' = unflushed /\ fp' = fp /\ maxRotate' = maxRotate
        /\ fileAt' = fileAt /\ moving' = moving /\ err' = err /\ lines' = lines /\ missing' = missing
        /\ failed' = failed /\ shrunk' = shrunk /\ crashes' = crashes
    BY <1>2 DEF filesVars, fileState
  <2>2. FileTypeOK'
    BY <2>1 DEF FilesInv, FileTypeOK
  <2>3. Standing'
    BY <2>1 DEF FilesInv, Standing, Rotating
  <2>4. Lasting'
    BY <2>1 DEF FilesInv, Lasting
  <2>5. Hole' = Hole
    BY <2>1 DEF Hole, Rotating
  <2>6. Shape'
    BY <2>1, <2>5 DEF FilesInv, Shape
  <2> QED BY <2>2, <2>3, <2>4, <2>6 DEF FilesInv
<1> QED BY <1>1, <1>2

\* What is so at the end of every call: when a line is gone and nothing failed, all
\* the backups are there and full.
LEMMA FilesInvKeeps == ASSUME RotatesAssumption, FilesInv PROVE FilesKeepTheLast
<1>1. FileTypeOK /\ Standing /\ Lasting /\ Shape
  BY DEF FilesInv
<1>2. disk \in Disks /\ unflushed \in Seq(Nat) /\ lines \in Nat
  BY <1>1 DEF FileTypeOK
<1>3. PICK p \in [Pieces -> Seq(Nat)] : p = PiecesOf(disk, unflushed)
  BY <1>2, PiecesAre DEF Disks
<1>4. \A k \in Pieces : p[k] = Piece(k)
  BY <1>3 DEF PiecesOf, Piece
<1>5. KeptLines = AllOf(p)
  BY <1>4 DEF KeptLines, AllOf
<1>6. Lasts(p, lines, missing, shrunk)
  BY <1>1, <1>3 DEF Lasting
<1>7. InOrder
  BY <1>4, <1>6 DEF InOrder, Lasts, Ordered
<1>8. ASSUME ~shrunk
      PROVE  \E first \in 0 .. lines : KeptLines = {l \in first + 1 .. lines : l \notin missing}
  BY <1>5, <1>6, <1>8 DEF Lasts, NoGap
<1>9. ASSUME ~shrunk, fileAt = "idle", ~failed, KeptLines # 1 .. lines, NEW k \in 1 .. maxRotate
      PROVE  Len(Text(disk[k])) > FileMax
  <2>1. maxRotate = Max(Rotates)
    BY <1>1, <1>9 DEF Standing
  <2>2. PICK top \in Nat : top = Max(Rotates)
    BY MaxIs
  <2>3. k \in 0 .. Max(Rotates) /\ k # 0
    BY <2>1, <2>2
  <2>4. Hole = 0
    BY <1>9 DEF Hole, Rotating
  <2>5. Gone(disk, unflushed, lines)
    BY <1>3, <1>5, <1>9 DEF Gone
  <2>6. disk[k] # Absent /\ Len(disk[k]) > FileMax
    BY <1>1, <1>9, <2>3, <2>4, <2>5 DEF Shape, Shaped
  <2> QED BY <2>6 DEF Text
<1> QED BY <1>7, <1>8, <1>9 DEF FilesKeepTheLast

\* The files of the rotating log keep the last lines, in order and without a gap,
\* through renames that fail and a process that ends; a line that leaves leaves by
\* the oldest of full files (elog_file.c:67-107).
THEOREM FilesAreKept == FileSpec => []FilesKeepTheLast
<1>1. FileInit => FilesInv
  BY FileInitInv, RotatesAssumption
<1>2. FilesInv /\ [FileNext]_filesVars => FilesInv'
  BY FileStep, RotatesAssumption
<1>3. FilesInv => FilesKeepTheLast
  BY FilesInvKeeps, RotatesAssumption
<1> QED BY <1>1, <1>2, <1>3, PTL DEF FileSpec
=============================================================================
