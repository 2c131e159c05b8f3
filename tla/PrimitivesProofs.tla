-------------------------- MODULE PrimitivesProofs --------------------------
(***************************************************************************)
(* Proofs about the primitives the programs are built on: the queue of     *)
(* utils/dataqueue.c (DataQueue) and what components/source/sysapi offers: *)
(* the read-write lock (RWLock), overlapped operations (Iocp), the event   *)
(* loop (Nio), fibers (Fiber) and the socket calls that wait (Sockets).    *)
(* They share nothing.  Each section gives a component's inductive         *)
(* invariant, shows that the initial states have it and that every action  *)
(* keeps it, and ends in the theorem about its property.                   *)
(***************************************************************************)
EXTENDS DataQueue, RWLock, Iocp, Nio, Fiber, Sockets,
        FiniteSetTheorems, SequenceTheorems, TLAPS

-----------------------------------------------------------------------------
(* Sequences, as the queue and the byte stream use them.                    *)

\* The numbers from 1, and some more after them.
LEMMA NumbersGrow ==
  ASSUME NEW n \in Nat, NEW k \in Nat
  PROVE  [i \in 1 .. n |-> i] \o [i \in 1 .. k |-> n + i] = [i \in 1 .. n + k |-> i]
<1> DEFINE s == [i \in 1 .. n |-> i]
           t == [i \in 1 .. k |-> n + i]
           u == [i \in 1 .. n + k |-> i]
<1>1. s \in Seq(Int) /\ t \in Seq(Int) /\ u \in Seq(Int) /\ Len(s) = n /\ Len(t) = k
      /\ Len(u) = n + k
  OBVIOUS
<1>2. /\ s \o t \in Seq(Int) /\ Len(s \o t) = Len(u)
      /\ \A i \in 1 .. n + k : (s \o t)[i] = IF i <= n THEN s[i] ELSE t[i - n]
  BY <1>1, ConcatProperties
<1>3. \A i \in 1 .. Len(s \o t) : (s \o t)[i] = u[i]
  BY <1>1, <1>2
<1> QED BY <1>1, <1>2, <1>3, SeqEqual

\* What is cut off at the front and what is left are the whole.
LEMMA CutInTwo ==
  ASSUME NEW S, NEW s \in Seq(S), NEW k \in 0 .. Len(s)
  PROVE  /\ SubSeq(s, 1, k) \in Seq(S) /\ SubSeq(s, k + 1, Len(s)) \in Seq(S)
         /\ SubSeq(s, 1, k) \o SubSeq(s, k + 1, Len(s)) = s
<1>1. Len(s) \in Nat
  BY LenProperties
<1>2. \A i \in 1 .. Len(s) : s[i] \in S
  BY ElementOfSeq
<1>3. SubSeq(s, 1, k) \in Seq(S) /\ SubSeq(s, k + 1, Len(s)) \in Seq(S)
  BY <1>1, <1>2, SubSeqProperties
<1>4. SubSeq(s, 1, k) \o SubSeq(s, k + 1, Len(s)) = SubSeq(s, 1, Len(s))
  <2>1. 1 \in 1 .. Len(s) + 1 /\ k \in 1 - 1 .. Len(s) /\ Len(s) \in k .. Len(s)
    BY <1>1
  <2> QED BY <2>1, ConcatAdjacentSubSeq
<1> QED BY <1>3, <1>4, SubSeqFull

LEMMA JoinThree ==
  ASSUME NEW S, NEW s \in Seq(S), NEW t \in Seq(S), NEW u \in Seq(S)
  PROVE  s \o t \in Seq(S) /\ (s \o t) \o u = s \o (t \o u)
<1>1. s \o t \in Seq(S)
  BY ConcatProperties
<1> QED BY <1>1, ConcatAssociative

-----------------------------------------------------------------------------
(***************************************************************************)
(* DataQueue.  The property is inductive once it is known that only the    *)
(* program's consumers are in a call: with one consumer, nobody else can   *)
(* be asleep; with consumers that take all, nothing stays to sleep over.   *)
(***************************************************************************)
\* A thread in PopWait is one the program has.
InCall == \A c \in Consumers : cst[c] # "out" => c \in active

QueueInv == NothingLeftBehind /\ InCall

\* The loop of PopWait passes no more nodes than there are, one at least if there
\* is one, and all of them if all were asked for.
LEMMA TakenInRange ==
  ASSUME QueueAssumption, TypeOK, NEW k \in asks \cup {All}
  PROVE  /\ Taken(k) \in 0 .. Len(list)
         /\ list # <<>> => Taken(k) # 0
         /\ k = All => Taken(k) = Len(list)
<1>1. Len(list) \in Nat /\ (list # <<>> => Len(list) # 0)
  BY LenProperties, EmptySeq DEF TypeOK
<1>2. k = All \/ k \in Nat \ {0}
  BY DEF QueueAssumption, TypeOK
<1> QED BY <1>1, <1>2 DEF Taken

LEMMA QueueInitInv == QueueAssumption /\ Init => QueueInv
<1> SUFFICES ASSUME QueueAssumption, Init PROVE QueueInv
  OBVIOUS
<1>0. <<>> \in Seq(1 .. MaxItems)
  BY EmptySeq
<1>1. TypeOK
  BY <1>0 DEF QueueAssumption, Init, TypeOK
<1>2. Conserved
  <2>1. <<>> \o <<>> = <<>>
    BY <1>0, ConcatEmptySeq
  <2>2. [j \in 1 .. 0 |-> j] = <<>>
    OBVIOUS
  <2> QED BY <2>1, <2>2 DEF Init, Conserved
<1>3. NoSleepWithWork /\ WakeNotLost /\ InCall
  BY DEF Init, NoSleepWithWork, WakeNotLost, Waiting, InCall
<1> QED BY <1>1, <1>2, <1>3 DEF QueueInv, NothingLeftBehind

\* The only consumer is the one that is in a call.
LEMMA OnlyOne ==
  ASSUME QueueAssumption, TypeOK, InCall, Cardinality(active) = 1, NEW c \in active
  PROVE  active = {c} /\ \A d \in Consumers : d # c => cst[d] = "out"
<1>1. IsFiniteSet(active)
  BY FS_Subset DEF QueueAssumption, TypeOK
<1>2. active = {c}
  BY <1>1, FS_Singleton
<1> QED BY <1>2 DEF InCall

\* What comes out and what stays are what was there.
LEMMA FrontComesOut ==
  ASSUME TypeOK, Conserved, NEW k \in 0 .. Len(list), TakeFront(k), UNCHANGED pushed
  PROVE  /\ list' \in Seq(1 .. MaxItems) /\ out' \in Seq(1 .. MaxItems) /\ Conserved'
         /\ k = Len(list) => list' = <<>>
<1> DEFINE S == 1 .. MaxItems
           front == SubSeq(list, 1, k)
           back == SubSeq(list, k + 1, Len(list))
<1>1. list \in Seq(S) /\ out \in Seq(S)
  BY DEF TypeOK
<1>2. front \in Seq(S) /\ back \in Seq(S) /\ front \o back = list
  BY <1>1, CutInTwo
<1>3. out' = out \o front /\ list' = back
  BY DEF TakeFront
<1>4. k = Len(list) => back = <<>>
  <2>1. Len(list) \in Nat /\ k + 1 \in Int /\ (k = Len(list) => Len(list) < k + 1)
    BY <1>1, LenProperties
  <2> QED BY <2>1, SubSeqEmpty
<1> HIDE DEF S, front, back
<1>5. out \o front \in Seq(S) /\ (out \o front) \o back = out \o (front \o back)
  <2>1. front \in Seq(S) /\ back \in Seq(S)
    BY <1>2
  <2> QED BY <1>1, <2>1, JoinThree, SMTT(40)
<1>6. Conserved'
  BY <1>2, <1>3, <1>5 DEF Conserved
<1> QED BY <1>2, <1>3, <1>4, <1>5, <1>6 DEF S

\* A push appends items of the right numbers.
LEMMA PushAppends ==
  ASSUME QueueAssumption, TypeOK, Conserved, NEW k \in 1 .. MaxBatch, pushed + k <= MaxItems,
         list' = list \o [j \in 1 .. k |-> pushed + j], pushed' = pushed + k, UNCHANGED out
  PROVE  /\ pushed' \in 0 .. MaxItems /\ list' \in Seq(1 .. MaxItems)
         /\ Len(list') > Len(list) /\ SubSeq(list', 1, Len(list)) = list
         /\ Conserved'
<1> DEFINE S == 1 .. MaxItems
           new == [j \in 1 .. k |-> pushed + j]
<1>1. pushed \in Nat /\ k \in Nat \ {0} /\ MaxItems \in Nat /\ pushed' \in 0 .. MaxItems
  BY DEF QueueAssumption, TypeOK
<1>2. new \in Seq(S) /\ Len(new) = k
  BY <1>1
<1>3. list \in Seq(S) /\ out \in Seq(S)
  BY DEF TypeOK
<1>4. Conserved'
  <2>1. (out \o list) \o new = [j \in 1 .. pushed + k |-> j]
    BY <1>1, NumbersGrow DEF Conserved
  <2> HIDE DEF S, new
  <2>2. (out \o list) \o new = out \o (list \o new)
    <3>1. new \in Seq(S) /\ list \in Seq(S) /\ out \in Seq(S)
      BY <1>2, <1>3
    <3> QED BY <3>1, JoinThree, SMTT(40)
  <2> QED BY <2>1, <2>2 DEF Conserved, new
<1> HIDE DEF S, new
<1>5. list' = list \o new
  BY DEF new
<1>6. list' \in Seq(S) /\ Len(list') = Len(list) + k /\ Len(list) \in Nat
  <2>1. list \o new \in Seq(S) /\ Len(list \o new) = Len(list) + Len(new)
    BY <1>2, <1>3, ConcatProperties, Zenon
  <2>2. Len(list) \in Nat
    BY <1>3, LenProperties, Zenon
  <2> QED BY <1>2, <1>5, <2>1, <2>2
<1>7. SubSeq(list', 1, Len(list)) = list
  <2>1. CASE Len(list) = 0
    <3>1. list = <<>>
      BY <1>3, <2>1, EmptySeq
    <3>2. SubSeq(list', 1, 0) = <<>>
      BY SubSeqEmpty
    <3> QED BY <2>1, <3>1, <3>2
  <2>2. CASE Len(list) # 0
    <3>1. 1 \in 1 .. Len(list) /\ Len(list) \in 1 .. Len(list)
      BY <1>6, <2>2
    <3>2. SubSeq(list \o new, 1, Len(list)) = SubSeq(list, 1, Len(list))
      BY <1>2, <1>3, <3>1, SubSeqOfConcat1
    <3> QED BY <1>3, <1>5, <3>2, SubSeqFull
  <2> QED BY <2>1, <2>2
<1> QED BY <1>1, <1>4, <1>6, <1>7 DEF S

\* What a signal may change.
LEMMA SignalReleases ==
  ASSUME TypeOK, InCall, Signal, UNCHANGED active
  PROVE  /\ cst' \in [Consumers -> {"out", "waiting", "signalled", "timedout"}] /\ InCall'
         /\ Waiting # {} => \E c \in Waiting : cst'[c] = "signalled"
         /\ Waiting' \subseteq Waiting
<1>1. CASE Waiting = {}
  BY <1>1 DEF Signal, TypeOK, InCall, Waiting
<1>2. ASSUME NEW c \in Waiting, cst' = [cst EXCEPT ![c] = "signalled"]
      PROVE  /\ cst' \in [Consumers -> {"out", "waiting", "signalled", "timedout"}] /\ InCall'
             /\ cst'[c] = "signalled" /\ Waiting' \subseteq Waiting
  <2>1. c \in Consumers /\ c \in active /\ \A d \in Consumers : d # c => cst'[d] = cst[d]
    BY <1>2 DEF Waiting, TypeOK, InCall
  <2>2. cst' \in [Consumers -> {"out", "waiting", "signalled", "timedout"}] /\ cst'[c] = "signalled"
    BY <1>2, <2>1 DEF TypeOK
  <2> QED BY <2>1, <2>2 DEF Waiting, InCall
<1> QED BY <1>1, <1>2 DEF Signal

\* A consumer that tests, or whose time is over, and takes k.
LEMMA ConsumerPops ==
  ASSUME QueueAssumption, QueueInv, NEW c \in active, NEW k \in asks \cup {All},
         \/ TestAndPop(c, k)
         \/ TakeFront(Taken(k)) /\ cst' = [cst EXCEPT ![c] = "out"] /\ UNCHANGED wakeup,
         want' \in [Consumers -> asks \cup {All}],
         UNCHANGED <<active, asks, wst, pushed>>
  PROVE  QueueInv'
<1>0. TypeOK /\ Conserved /\ NoSleepWithWork /\ WakeNotLost /\ InCall /\ c \in Consumers
  BY DEF QueueInv, NothingLeftBehind, TypeOK
<1>1. CASE /\ list = <<>> /\ wakeup = 0 /\ cst' = [cst EXCEPT ![c] = "waiting"]
           /\ UNCHANGED <<list, wakeup, out>>
  <2>1. TypeOK' /\ InCall'
    BY <1>0, <1>1 DEF TypeOK, InCall
  <2>2. Conserved' /\ NoSleepWithWork' /\ WakeNotLost'
    BY <1>0, <1>1 DEF Conserved, NoSleepWithWork, WakeNotLost
  <2> QED BY <2>1, <2>2 DEF QueueInv, NothingLeftBehind
<1>2. CASE /\ TakeFront(Taken(k)) /\ cst' = [cst EXCEPT ![c] = "out"]
           /\ wakeup' \in {0, wakeup}
  <2>1. Taken(k) \in 0 .. Len(list) /\ (k = All => Taken(k) = Len(list))
    BY <1>0, TakenInRange
  <2>2. /\ list' \in Seq(1 .. MaxItems) /\ out' \in Seq(1 .. MaxItems) /\ Conserved'
        /\ k = All => list' = <<>>
    BY <1>0, <1>2, <2>1, FrontComesOut
  <2>3. /\ cst'[c] = "out" /\ \A d \in Consumers : d # c => cst'[d] = cst[d]
        /\ cst' \in [Consumers -> {"out", "waiting", "signalled", "timedout"}]
    BY <1>0, <1>2 DEF TypeOK
  <2>4. TypeOK'
    BY <1>0, <1>2, <2>2, <2>3 DEF TypeOK
  <2>5. InCall'
    BY <1>0, <2>3 DEF InCall
  <2>6. Cardinality(active) = 1 => Waiting' = {}
    BY <1>0, <2>3, OnlyOne DEF Waiting
  <2>7. asks = {All} => list' = <<>>
    BY <2>2
  <2>8. NoSleepWithWork' /\ WakeNotLost'
    BY <2>6, <2>7 DEF NoSleepWithWork, WakeNotLost, OneSignalIsEnough
  <2> QED BY <2>2, <2>4, <2>5, <2>8 DEF QueueInv, NothingLeftBehind
<1> QED BY <1>1, <1>2 DEF TestAndPop

LEMMA QueueNextInv == QueueAssumption /\ QueueInv /\ [Next]_vars => QueueInv'
<1> SUFFICES ASSUME QueueAssumption, QueueInv, [Next]_vars PROVE QueueInv'
  OBVIOUS
<1>0. TypeOK /\ Conserved /\ NoSleepWithWork /\ WakeNotLost /\ InCall
  BY DEF QueueInv, NothingLeftBehind
<1>1. ASSUME Push, UNCHANGED program PROVE QueueInv'
  <2>1. PICK k \in 1 .. MaxBatch :
          /\ pushed + k <= MaxItems
          /\ list' = list \o [j \in 1 .. k |-> pushed + j] /\ pushed' = pushed + k
          /\ IF MustSignal THEN Signal ELSE UNCHANGED cst
          /\ UNCHANGED <<wakeup, want, wst, out>>
    BY <1>1 DEF Push
  <2>2. pushed' \in 0 .. MaxItems /\ list' \in Seq(1 .. MaxItems) /\ Conserved'
    BY <1>0, <2>1, PushAppends
  <2>3. /\ cst' \in [Consumers -> {"out", "waiting", "signalled", "timedout"}] /\ InCall'
        /\ MustSignal /\ Waiting # {} => \E c \in Waiting : cst'[c] = "signalled"
        /\ Waiting' \subseteq Waiting
        /\ ~MustSignal => UNCHANGED cst
    <3>1. CASE MustSignal
      BY <1>0, <1>1, <2>1, <3>1, SignalReleases DEF program
    <3>2. CASE ~MustSignal
      BY <1>0, <1>1, <2>1, <3>2 DEF program, TypeOK, InCall, Waiting
    <3> QED BY <3>1, <3>2
  <2>4. TypeOK'
    BY <1>0, <1>1, <2>1, <2>2, <2>3 DEF program, TypeOK
  <2>5. WakeNotLost'
    BY <1>0, <1>1, <2>1, <2>3 DEF program, WakeNotLost
  <2>6. NoSleepWithWork'
    <3>1. CASE MustSignal
      BY <2>3, <3>1 DEF NoSleepWithWork, Waiting
    <3>2. CASE ~MustSignal
      BY <1>0, <1>1, <2>1, <2>3, <3>2 DEF program, MustSignal, NoSleepWithWork,
                                           OneSignalIsEnough, Waiting
    <3> QED BY <3>1, <3>2
  <2> QED BY <2>2, <2>3, <2>4, <2>5, <2>6 DEF QueueInv, NothingLeftBehind
<1>2. ASSUME Clean, UNCHANGED program PROVE QueueInv'
  <2>1. Len(list) \in 0 .. Len(list)
    BY <1>0, LenProperties DEF TypeOK
  <2>2. /\ list' \in Seq(1 .. MaxItems) /\ out' \in Seq(1 .. MaxItems) /\ Conserved'
        /\ list' = <<>>
    BY <1>0, <1>2, <2>1, FrontComesOut DEF Clean
  <2>3. TypeOK' /\ InCall' /\ NoSleepWithWork' /\ WakeNotLost'
    BY <1>0, <1>2, <2>2 DEF Clean, program, TypeOK, InCall, NoSleepWithWork, WakeNotLost, Waiting
  <2> QED BY <2>2, <2>3 DEF QueueInv, NothingLeftBehind
<1>3. ASSUME NEW c \in Consumers, Pop(c), UNCHANGED program PROVE QueueInv'
  <2>1. CASE PopEnter(c)
    <3>1. PICK k \in asks : want' = [want EXCEPT ![c] = k] /\ TestAndPop(c, k)
      BY <2>1 DEF PopEnter
    <3>2. want' \in [Consumers -> asks \cup {All}]
      BY <1>0, <3>1 DEF TypeOK
    <3> QED BY <1>3, <2>1, <3>1, <3>2, ConsumerPops DEF PopEnter, program
  <2>2. CASE PopAgain(c) \/ PopTimedOut(c)
    <3>1. c \in active /\ want[c] \in asks \cup {All} /\ want' \in [Consumers -> asks \cup {All}]
      BY <1>0, <2>2 DEF PopAgain, PopTimedOut, InCall, TypeOK
    <3>2. \/ TestAndPop(c, want[c])
          \/ /\ TakeFront(Taken(want[c])) /\ cst' = [cst EXCEPT ![c] = "out"]
             /\ UNCHANGED wakeup
      BY <2>2 DEF PopAgain, PopTimedOut
    <3>3. UNCHANGED <<active, asks, wst, pushed>>
      BY <1>3, <2>2 DEF PopAgain, PopTimedOut, program
    <3> QED BY <3>1, <3>2, <3>3, ConsumerPops
  <2> QED BY <1>3, <2>1, <2>2 DEF Pop
<1>4. ASSUME NEW c \in Consumers, WakesUp(c), UNCHANGED program PROVE QueueInv'
  <2>1. PICK s \in {"signalled", "timedout"} : cst' = [cst EXCEPT ![c] = s]
    BY <1>4 DEF WakesUp
  <2>2. /\ c \in active /\ cst'[c] \in {"signalled", "timedout"} /\ Waiting' \subseteq Waiting
        /\ \A d \in Consumers : d # c => cst'[d] = cst[d]
        /\ cst' \in [Consumers -> {"out", "waiting", "signalled", "timedout"}]
    BY <1>0, <1>4, <2>1 DEF WakesUp, InCall, TypeOK, Waiting
  <2>3. TypeOK' /\ InCall'
    BY <1>0, <1>4, <2>2 DEF WakesUp, program, TypeOK, InCall
  <2>4. Conserved' /\ NoSleepWithWork' /\ WakeNotLost'
    BY <1>0, <1>4, <2>2 DEF WakesUp, program, Conserved, NoSleepWithWork, WakeNotLost
  <2> QED BY <2>3, <2>4 DEF QueueInv, NothingLeftBehind
<1>5. ASSUME NEW w \in Wakers, WakeFlag(w), UNCHANGED program PROVE QueueInv'
  <2>1. TypeOK' /\ InCall'
    BY <1>0, <1>5 DEF WakeFlag, program, TypeOK, InCall
  <2>2. Conserved' /\ NoSleepWithWork'
    BY <1>0, <1>5 DEF WakeFlag, program, Conserved, NoSleepWithWork, OneSignalIsEnough, Waiting
  <2>3. WakeNotLost'
    BY <1>0, <1>5 DEF WakeFlag, program, TypeOK, WakeNotLost, Waiting
  <2> QED BY <2>1, <2>2, <2>3 DEF QueueInv, NothingLeftBehind
<1>6. ASSUME NEW w \in Wakers, WakeSignal(w), UNCHANGED program PROVE QueueInv'
  <2>1. /\ cst' \in [Consumers -> {"out", "waiting", "signalled", "timedout"}] /\ InCall'
        /\ Waiting # {} => \E c \in Waiting : cst'[c] = "signalled"
        /\ Waiting' \subseteq Waiting
    BY <1>0, <1>6, SignalReleases DEF WakeSignal, program
  <2>2. TypeOK'
    BY <1>0, <1>6, <2>1 DEF WakeSignal, program, TypeOK
  <2>3. Conserved' /\ NoSleepWithWork'
    BY <1>0, <1>6, <2>1 DEF WakeSignal, program, Conserved, NoSleepWithWork, Waiting
  <2>4. WakeNotLost'
    <3>1. ASSUME Cardinality(active) = 1, Waiting # {} PROVE Waiting' = {}
      <4>1. PICK c \in Waiting : cst'[c] = "signalled"
        BY <2>1, <3>1
      <4>2. Waiting \subseteq {c}
        BY <1>0, <3>1, OnlyOne DEF Waiting, InCall
      <4> QED BY <2>1, <4>1, <4>2 DEF Waiting
    <3> QED BY <1>6, <2>1, <3>1 DEF program, WakeNotLost
  <2> QED BY <2>1, <2>2, <2>3, <2>4 DEF QueueInv, NothingLeftBehind
<1>7. CASE UNCHANGED vars
  BY <1>0, <1>7 DEF vars, program, QueueInv, NothingLeftBehind, TypeOK, Conserved,
                    NoSleepWithWork, OneSignalIsEnough, WakeNotLost, Waiting, InCall
<1> QED BY <1>1, <1>2, <1>3, <1>4, <1>5, <1>6, <1>7 DEF Next

\* No item is lost or slept over and no wake-up forgotten, for any number of
\* consumers, wakers and items (dataqueue.c:36-102).
THEOREM QueueLeavesNothing == Spec => []NothingLeftBehind
<1>1. QueueInv => NothingLeftBehind
  BY DEF QueueInv
<1> QED BY <1>1, QueueAssumption, QueueInitInv, QueueNextInv, PTL DEF Spec

\* Every critical section is a put, a take, or nothing seen from outside.
THEOREM QueueIsFifo == Spec => IsFifo
<1>1. Init => Fifo!Init
  BY DEF Init, Fifo!Init
<1>2. QueueAssumption /\ QueueInv /\ [Next]_vars => [Fifo!Next]_<<list, out>>
  <2> SUFFICES ASSUME QueueAssumption, QueueInv, [Next]_vars
               PROVE  [Fifo!Next]_<<list, out>>
    OBVIOUS
  <2>0. TypeOK /\ Conserved /\ list \in Seq(1 .. MaxItems) /\ out \in Seq(1 .. MaxItems)
    BY DEF QueueInv, NothingLeftBehind, TypeOK
  <2>1. ASSUME Push PROVE Fifo!Put
    BY <2>0, <2>1, PushAppends DEF Push, Fifo!Put
  <2>2. ASSUME NEW k \in 0 .. Len(list), TakeFront(k) PROVE [Fifo!Next]_<<list, out>>
    <3>1. CASE k = 0
      <4>1. SubSeq(list, 1, 0) = <<>> /\ SubSeq(list, 1, Len(list)) = list
        BY <2>0, SubSeqEmpty, SubSeqFull
      <4>2. out \o <<>> = out
        BY <2>0, ConcatEmptySeq
      <4>3. out' = out /\ list' = list
        <5>1. out' = out \o SubSeq(list, 1, 0) /\ list' = SubSeq(list, 0 + 1, Len(list))
          BY <2>2, <3>1 DEF TakeFront
        <5>2. 0 + 1 = 1
          OBVIOUS
        <5> QED BY <4>1, <4>2, <5>1, <5>2, Zenon
      <4> QED BY <4>3
    <3>2. CASE k # 0
      <4>1. k \in 1 .. Len(list)
        BY <2>0, <3>2, LenProperties
      <4> QED BY <2>2, <4>1 DEF TakeFront, Fifo!Take, Fifo!Next
    <3> QED BY <3>1, <3>2
  <2>3. ASSUME NEW c \in Consumers, Pop(c) PROVE [Fifo!Next]_<<list, out>>
    <3>1. PICK k \in asks \cup {All} : TakeFront(Taken(k)) \/ UNCHANGED <<list, out>>
      BY <2>0, <2>3 DEF Pop, PopEnter, PopAgain, PopTimedOut, TestAndPop, TypeOK
    <3> QED BY <2>0, <2>2, <3>1, TakenInRange
  <2>4. ASSUME Clean PROVE [Fifo!Next]_<<list, out>>
    BY <2>0, <2>2, <2>4, LenProperties DEF Clean
  <2>5. ASSUME NEW c \in Consumers, WakesUp(c) PROVE UNCHANGED <<list, out>>
    BY <2>5 DEF WakesUp
  <2>6. ASSUME NEW w \in Wakers, WakeFlag(w) \/ WakeSignal(w) PROVE UNCHANGED <<list, out>>
    BY <2>6 DEF WakeFlag, WakeSignal
  <2>7. CASE UNCHANGED vars
    BY <2>7 DEF vars
  <2> QED BY <2>1, <2>3, <2>4, <2>5, <2>6, <2>7 DEF Next, Fifo!Next
<1> QED BY <1>1, <1>2, QueueAssumption, QueueInitInv, QueueNextInv, PTL
        DEF Spec, IsFifo, Fifo!Spec

-----------------------------------------------------------------------------
(***************************************************************************)
(* RWLock.  RwInv says who may be where together: a first reader between   *)
(* counting and taking write_ev is alone among the counted, whoever has    *)
(* write_ev for writing is alone inside, and write_ev is set only when     *)
(* nobody is inside.  Exclusion alone is not inductive: nothing in it says *)
(* that the count is the number of the counted, or which event a thread    *)
(* between two steps has taken.                                            *)
(***************************************************************************)

RwPlaces == {"out", "reading", "first", "reader", "leaving",
             "writing", "taken", "writer", "free", "freed"}

RwTypeOK ==
  /\ readEv \in BOOLEAN /\ writeEv \in BOOLEAN /\ waitEv \in BOOLEAN
  /\ exclusiveLock \in BOOLEAN /\ readCnt \in Nat
  /\ rwAt \in [RwThreads -> RwPlaces]

\* The readers __read_cnt counts; the threads that took write_ev to write; and
\* all for which write_ev is reset.
AsCounted == {"first", "reader", "leaving"}
AsWriter == {"taken", "writer", "free"}
Inside == {"reader", "leaving", "taken", "writer", "free"}

Counted == {t \in RwThreads : rwAt[t] \in AsCounted}

CountAgrees == IsFiniteSet(Counted) /\ readCnt = Cardinality(Counted)

\* Who may be where together, and which events that leaves set.
Apart ==
  /\ \A t \in RwThreads : rwAt[t] = "first" => ~waitEv
  /\ \A t, u \in RwThreads : rwAt[t] = "first" /\ rwAt[u] \in AsCounted => u = t
  /\ \A t \in RwThreads : writeEv => rwAt[t] \notin Inside
  /\ \A t, u \in RwThreads : rwAt[t] \in AsWriter /\ rwAt[u] \in Inside => u = t

FlagAgrees == exclusiveLock <=> \E t \in RwThreads : rwAt[t] = "writer"

RwInv == RwTypeOK /\ CountAgrees /\ Apart /\ FlagAgrees

LEMMA RwInitInv == RwInit => RwInv
<1> SUFFICES ASSUME RwInit PROVE RwInv
  OBVIOUS
<1>0. \A t \in RwThreads : rwAt[t] = "out"
  BY DEF RwInit
<1>1. Counted = {}
  BY <1>0 DEF Counted, AsCounted
<1>2. RwTypeOK
  <2>1. rwAt \in [RwThreads -> RwPlaces]
    BY DEF RwInit, RwPlaces
  <2> QED BY <2>1 DEF RwInit, RwTypeOK
<1>3. CountAgrees
  BY <1>1, FS_EmptySet DEF RwInit, CountAgrees
<1>4. Apart /\ FlagAgrees
  BY <1>0 DEF RwInit, Apart, FlagAgrees, AsWriter, Inside
<1> QED BY <1>2, <1>3, <1>4 DEF RwInv

LEMMA CountedAdd ==
  ASSUME IsFiniteSet(Counted), readCnt = Cardinality(Counted),
         NEW t, t \notin Counted, Counted' = Counted \cup {t}, readCnt' = readCnt + 1
  PROVE  IsFiniteSet(Counted') /\ readCnt' = Cardinality(Counted')
  BY FS_AddElement

LEMMA CountedRemove ==
  ASSUME IsFiniteSet(Counted), readCnt = Cardinality(Counted),
         NEW t \in Counted, Counted' = Counted \ {t}, readCnt' = readCnt - 1
  PROVE  IsFiniteSet(Counted') /\ readCnt' = Cardinality(Counted')
  BY FS_RemoveElement

LEMMA RwNextInv == RwInv /\ [RwNext]_rwVars => RwInv'
<1> SUFFICES ASSUME RwInv, [RwNext]_rwVars PROVE RwInv'
  OBVIOUS
<1>0. RwTypeOK /\ CountAgrees /\ Apart /\ FlagAgrees
  BY DEF RwInv
<1> USE DEF RwTypeOK, RwPlaces, At, Inside, AsCounted, AsWriter
<1>1. ASSUME NEW t \in RwThreads, LockRead(t) PROVE RwInv'
  <2>1. RwTypeOK' /\ Apart' /\ FlagAgrees'
    BY <1>0, <1>1 DEF LockRead, Apart, FlagAgrees
  <2>2. Counted' = Counted
    BY <1>0, <1>1 DEF LockRead, Counted
  <2> QED BY <1>0, <1>1, <2>1, <2>2 DEF LockRead, CountAgrees, RwInv
<1>2. ASSUME NEW t \in RwThreads, LockWrite(t) PROVE RwInv'
  <2>1. RwTypeOK' /\ Apart' /\ FlagAgrees'
    BY <1>0, <1>2 DEF LockWrite, Apart, FlagAgrees
  <2>2. Counted' = Counted
    BY <1>0, <1>2 DEF LockWrite, Counted
  <2> QED BY <1>0, <1>2, <2>1, <2>2 DEF LockWrite, CountAgrees, RwInv
<1>3. ASSUME NEW t \in RwThreads, CountReader(t) PROVE RwInv'
  <2>1. t \notin Counted /\ Counted' = Counted \cup {t}
    BY <1>0, <1>3 DEF CountReader, Counted
  <2>2. CountAgrees'
    BY <1>0, <1>3, <2>1, CountedAdd DEF CountReader, CountAgrees
  <2>3. readCnt = 0 <=> Counted = {}
    BY <1>0, FS_EmptySet DEF CountAgrees
  <2>4. RwTypeOK' /\ FlagAgrees'
    <3>1. \/ waitEv' = FALSE /\ rwAt' = [rwAt EXCEPT ![t] = "first"]
          \/ waitEv' = waitEv /\ rwAt' = [rwAt EXCEPT ![t] = "reader"]
      BY <1>3 DEF CountReader
    <3>2. rwAt[t] = "reading" /\ rwAt' \in [RwThreads -> RwPlaces]
      BY <1>0, <1>3, <3>1 DEF CountReader
    <3>3. FlagAgrees'
      BY <1>0, <1>3, <3>1, <3>2 DEF CountReader, FlagAgrees
    <3>4. readCnt' \in Nat /\ UNCHANGED <<readEv, writeEv, exclusiveLock>>
      BY <1>0, <1>3 DEF CountReader
    <3>5. waitEv' \in BOOLEAN
      BY <1>0, <3>1
    <3> QED BY <1>0, <3>2, <3>3, <3>4, <3>5
  <2>5. Apart'
    <3>1. CASE readCnt = 0
      <4>1. \A u \in RwThreads : rwAt[u] \notin AsCounted
        BY <2>3, <3>1 DEF Counted
      <4> QED BY <1>0, <1>3, <3>1, <4>1 DEF CountReader, NeedsWriteEv, Apart
    <3>2. CASE readCnt # 0
      <4>1. PICK u \in RwThreads : rwAt[u] \in {"reader", "leaving"}
        BY <1>0, <1>3, <2>3, <3>2 DEF CountReader, Counted, Apart
      <4>2. ~writeEv /\ \A v \in RwThreads : rwAt[v] \notin AsWriter
        BY <1>0, <4>1 DEF Apart
      <4> QED BY <1>0, <1>3, <3>2, <4>2 DEF CountReader, NeedsWriteEv, Apart
    <3> QED BY <3>1, <3>2
  <2> QED BY <2>2, <2>4, <2>5 DEF RwInv
<1>4. ASSUME NEW t \in RwThreads, FirstReader(t) PROVE RwInv'
  <2>1. RwTypeOK' /\ Apart' /\ FlagAgrees'
    BY <1>0, <1>4 DEF FirstReader, Apart, FlagAgrees
  <2>2. Counted' = Counted
    BY <1>0, <1>4 DEF FirstReader, Counted
  <2> QED BY <1>0, <1>4, <2>1, <2>2 DEF FirstReader, CountAgrees, RwInv
<1>5. ASSUME NEW t \in RwThreads, TakeWriteEv(t) PROVE RwInv'
  <2>1. RwTypeOK' /\ Apart' /\ FlagAgrees'
    BY <1>0, <1>5 DEF TakeWriteEv, Apart, FlagAgrees
  <2>2. Counted' = Counted
    BY <1>0, <1>5 DEF TakeWriteEv, Counted
  <2> QED BY <1>0, <1>5, <2>1, <2>2 DEF TakeWriteEv, CountAgrees, RwInv
<1>6. ASSUME NEW t \in RwThreads, SetExclusive(t) PROVE RwInv'
  <2>1. RwTypeOK' /\ Apart' /\ FlagAgrees'
    BY <1>0, <1>6 DEF SetExclusive, Apart, FlagAgrees
  <2>2. Counted' = Counted
    BY <1>0, <1>6 DEF SetExclusive, Counted
  <2> QED BY <1>0, <1>6, <2>1, <2>2 DEF SetExclusive, CountAgrees, RwInv
<1>7. ASSUME NEW t \in RwThreads, RwUnlock(t) PROVE RwInv'
  <2>1. exclusiveLock <=> rwAt[t] = "writer"
    BY <1>0, <1>7 DEF RwUnlock, Apart, FlagAgrees
  <2>2. RwTypeOK' /\ Apart' /\ FlagAgrees'
    BY <1>0, <1>7, <2>1 DEF RwUnlock, Apart, FlagAgrees
  <2>3. Counted' = Counted
    BY <1>0, <1>7, <2>1 DEF RwUnlock, Counted
  <2> QED BY <1>0, <1>7, <2>2, <2>3 DEF RwUnlock, CountAgrees, RwInv
<1>8. ASSUME NEW t \in RwThreads, FreeWriters(t) PROVE RwInv'
  <2>1. RwTypeOK' /\ Apart' /\ FlagAgrees'
    BY <1>0, <1>8 DEF FreeWriters, Apart, FlagAgrees
  <2>2. Counted' = Counted
    BY <1>0, <1>8 DEF FreeWriters, Counted
  <2> QED BY <1>0, <1>8, <2>1, <2>2 DEF FreeWriters, CountAgrees, RwInv
<1>9. ASSUME NEW t \in RwThreads, FreeReaders(t) PROVE RwInv'
  <2>1. RwTypeOK' /\ Apart' /\ FlagAgrees'
    BY <1>0, <1>9 DEF FreeReaders, Apart, FlagAgrees
  <2>2. Counted' = Counted
    BY <1>0, <1>9 DEF FreeReaders, Counted
  <2> QED BY <1>0, <1>9, <2>1, <2>2 DEF FreeReaders, CountAgrees, RwInv
<1>10. ASSUME NEW t \in RwThreads, ReaderLeaves(t) PROVE RwInv'
  <2>1. t \in Counted /\ Counted' = Counted \ {t}
    BY <1>0, <1>10 DEF ReaderLeaves, Counted
  <2>2. IsFiniteSet(Counted') /\ readCnt' = Cardinality(Counted')
    BY <1>0, <1>10, <2>1, CountedRemove DEF ReaderLeaves, CountAgrees
  <2>3. readCnt' \in Nat
    BY <2>2, FS_CardinalityType
  <2>4. readCnt = 1 => Counted' = {}
    BY <1>0, <1>10, <2>2, FS_EmptySet DEF ReaderLeaves, CountAgrees
  <2>5. RwTypeOK' /\ FlagAgrees'
    BY <1>0, <1>10, <2>3 DEF ReaderLeaves, FlagAgrees
  <2>6. Apart'
    BY <1>0, <1>10, <2>4 DEF ReaderLeaves, Counted, Apart
  <2> QED BY <2>2, <2>5, <2>6 DEF CountAgrees, RwInv
<1>11. CASE UNCHANGED rwVars
  BY <1>0, <1>11 DEF RwInv, rwVars, Counted, CountAgrees, Apart, FlagAgrees
<1> QED BY <1>1, <1>2, <1>3, <1>4, <1>5, <1>6, <1>7, <1>8, <1>9, <1>10, <1>11
        DEF RwNext, GoesOn

\* Whoever writes is alone, and the unprotected flag says who is leaving, for any
\* number of threads and rounds (ipc.c:345-387).
THEOREM WritersAlone == RwSpec => []WritersExclude
<1>1. RwInv => WritersExclude
  <2> SUFFICES ASSUME RwInv PROVE WritersExclude
    OBVIOUS
  <2>1. ASSUME NEW t \in RwThreads, rwAt[t] \in AsWriter
        PROVE  Cardinality(InState({"taken", "writer", "free", "reader", "leaving"})) = 1
    <3>1. InState({"taken", "writer", "free", "reader", "leaving"}) = {t}
      BY <2>1 DEF RwInv, Apart, AsWriter, Inside, InState
    <3> QED BY <3>1, FS_Singleton
  <2> QED BY <2>1 DEF RwInv, FlagAgrees, WritersExclude, AsWriter, InState
<1> QED BY <1>1, RwInitInv, RwNextInv, PTL DEF RwSpec

-----------------------------------------------------------------------------
(***************************************************************************)
(* Iocp.  IocpInv adds to the property how the flags of one overlapped go  *)
(* together (Life), and that each open socket has one owner.               *)
(***************************************************************************)

IocpTypeOK ==
  /\ mem \in [Ol -> {"none", "malloc", "freed"}]
  /\ opcode \in [Ol -> Opcodes]
  /\ commit \in [Ol -> BOOLEAN] /\ freeLater \in [Ol -> BOOLEAN]
  /\ hold \in [Ol -> BOOLEAN]
  /\ acceptsocket \in [Ol -> IoSockets \cup {NoSocket}]
  /\ kernel \in [Ol -> {"idle", "pending", "queued"}]
  /\ sock \in [IoSockets -> {"none", "open", "given", "closed", "twice"}]

\* The life of one overlapped.
Life(o) ==
  /\ mem[o] = "none" => ~commit[o] /\ ~freeLater[o] /\ ~hold[o] /\ kernel[o] = "idle"
  /\ mem[o] = "malloc" => /\ commit[o] <=> kernel[o] # "idle"
                          /\ hold[o] <=> ~freeLater[o]
                          /\ freeLater[o] => commit[o]
  /\ mem[o] = "freed" => ~hold[o] /\ kernel[o] = "idle"
  /\ acceptsocket[o] # NoSocket => hold[o]

\* A socket made for AcceptEx is open as long as one overlapped, and only one,
\* has it.
OneOwner ==
  /\ \A o \in Ol : acceptsocket[o] # NoSocket => sock[acceptsocket[o]] = "open"
  /\ \A s \in IoSockets : sock[s] = "open" => \E o \in Ol : acceptsocket[o] = s
  /\ \A o, p \in Ol : acceptsocket[o] # NoSocket /\ acceptsocket[p] = acceptsocket[o] => p = o
  /\ \A s \in IoSockets : sock[s] # "twice"

IocpInv == IocpTypeOK /\ (\A o \in Ol : Life(o)) /\ OneOwner

LEMMA IocpInitInv == IocpInit => IocpInv
<1> SUFFICES ASSUME IocpInit PROVE IocpInv
  OBVIOUS
<1>1. IocpTypeOK
  BY DEF IocpInit, IocpTypeOK, Opcodes
<1>2. \A o \in Ol : Life(o)
  BY DEF IocpInit, Life
<1>3. OneOwner
  BY DEF IocpInit, OneOwner
<1> QED BY <1>1, <1>2, <1>3 DEF IocpInv

\* closesocket of the socket of an overlapped that gives it up.
LEMMA SocketGivenUp ==
  ASSUME IocpAssumption, IocpTypeOK, OneOwner, NEW o \in Ol,
         acceptsocket' = [acceptsocket EXCEPT ![o] = NoSocket],
         \/ sock' = SockAfterClose(acceptsocket[o])
         \/ /\ acceptsocket[o] # NoSocket
            /\ sock' = [sock EXCEPT ![acceptsocket[o]] = "given"]
  PROVE  /\ OneOwner'
         /\ acceptsocket' \in [Ol -> IoSockets \cup {NoSocket}]
         /\ sock' \in [IoSockets -> {"none", "open", "given", "closed", "twice"}]
<1>1. CASE acceptsocket[o] = NoSocket
  <2>1. UNCHANGED <<acceptsocket, sock>>
    BY <1>1 DEF IocpTypeOK, SockAfterClose
  <2> QED BY <2>1 DEF IocpTypeOK, OneOwner
<1>2. CASE acceptsocket[o] # NoSocket
  <2> DEFINE s == acceptsocket[o]
  <2>1. s \in IoSockets /\ sock[s] = "open"
    BY <1>2 DEF IocpTypeOK, OneOwner
  <2>2. PICK x \in {"closed", "given"} : sock' = [sock EXCEPT ![s] = x]
    BY <1>2, <2>1 DEF SockAfterClose
  <2>3. \A p \in Ol : acceptsocket'[p] = IF p = o THEN NoSocket ELSE acceptsocket[p]
    BY DEF IocpTypeOK
  <2>4. \A q \in IoSockets : sock'[q] = IF q = s THEN x ELSE sock[q]
    BY <2>2 DEF IocpTypeOK
  <2>5. OneOwner'
    BY <1>2, <2>1, <2>3, <2>4 DEF IocpTypeOK, OneOwner, IocpAssumption
  <2> QED BY <2>2, <2>5 DEF IocpTypeOK
<1> QED BY <1>1, <1>2

LEMMA CommitKeeps ==
  ASSUME IocpAssumption, IocpInv, NEW o \in Ol, CommitOverlapped(o)
  PROVE  IocpInv'
<1>0. IocpTypeOK /\ OneOwner /\ \A p \in Ol : Life(p)
  BY DEF IocpInv
<1>1. /\ hold[o] /\ ~commit[o] /\ kernel[o] = "idle" /\ mem[o] = "malloc"
      /\ UNCHANGED <<mem, opcode, freeLater, hold>>
  BY <1>0 DEF CommitOverlapped, IocpTypeOK, Life
<1>2. Refused \/ Issues(o)
  BY DEF CommitOverlapped, CommitAccept, Refused
<1>3. /\ kernel' \in [Ol -> {"idle", "pending", "queued"}]
      /\ commit' \in [Ol -> BOOLEAN]
      /\ \A p \in Ol : p # o => kernel'[p] = kernel[p] /\ commit'[p] = commit[p]
      /\ commit'[o] <=> kernel'[o] # "idle"
  BY <1>0, <1>1, <1>2 DEF Refused, Issues, IocpTypeOK
<1>4. CASE UNCHANGED <<acceptsocket, sock>>
  <2>1. OneOwner' /\ IocpTypeOK'
    BY <1>0, <1>1, <1>3, <1>4 DEF IocpTypeOK, OneOwner
  <2>2. \A p \in Ol : Life(p)'
    BY <1>0, <1>1, <1>3, <1>4 DEF Life
  <2> QED BY <2>1, <2>2 DEF IocpInv
<1>5. ASSUME NEW s \in IoSockets,
             s = acceptsocket[o] \/ (acceptsocket[o] = NoSocket /\ sock[s] = "none"),
             \/ /\ sock' = [sock EXCEPT ![s] = "open"]
                /\ acceptsocket' = [acceptsocket EXCEPT ![o] = s]
             \/ /\ acceptsocket' = [acceptsocket EXCEPT ![o] = NoSocket]
                /\ sock' = [sock EXCEPT ![s] = "closed"]
      PROVE  IocpInv'
  <2>1. OneOwner'
    BY <1>0, <1>5 DEF IocpTypeOK, OneOwner, IocpAssumption
  <2>2. IocpTypeOK'
    BY <1>0, <1>1, <1>3, <1>5 DEF IocpTypeOK
  <2>3. \A p \in Ol : p # o => acceptsocket'[p] = acceptsocket[p]
    BY <1>0, <1>5 DEF IocpTypeOK
  <2>4. \A p \in Ol : Life(p)'
    BY <1>0, <1>1, <1>3, <2>3 DEF Life
  <2> QED BY <2>1, <2>2, <2>4 DEF IocpInv
<1>6. CASE ~UNCHANGED <<acceptsocket, sock>>
  <2>1. PICK s \in IF acceptsocket[o] # NoSocket THEN {acceptsocket[o]}
                   ELSE {t \in IoSockets : sock[t] = "none"} :
          \/ /\ Issues(o) /\ sock' = [sock EXCEPT ![s] = "open"]
             /\ acceptsocket' = [acceptsocket EXCEPT ![o] = s]
          \/ /\ Refused /\ acceptsocket' = [acceptsocket EXCEPT ![o] = NoSocket]
             /\ sock' = [sock EXCEPT ![s] = IF @ \in {"none", "open"} THEN "closed" ELSE "twice"]
    BY <1>6 DEF CommitOverlapped, CommitAccept
  <2>2. /\ s \in IoSockets /\ sock[s] \in {"none", "open"}
        /\ s = acceptsocket[o] \/ (acceptsocket[o] = NoSocket /\ sock[s] = "none")
    BY <1>0, <2>1 DEF IocpTypeOK, OneOwner
  <2> QED BY <1>5, <2>1, <2>2
<1> QED BY <1>4, <1>6

LEMMA IocpNextInv == IocpAssumption /\ IocpInv /\ [IocpNext]_iocpVars => IocpInv'
<1> SUFFICES ASSUME IocpAssumption, IocpInv, [IocpNext]_iocpVars PROVE IocpInv'
  OBVIOUS
<1>0. IocpTypeOK /\ OneOwner /\ \A p \in Ol : Life(p)
  BY DEF IocpInv
<1>1. ASSUME NEW o \in Ol, AllocOverlapped(o) PROVE IocpInv'
  <2>1. IocpTypeOK' /\ OneOwner'
    BY <1>0, <1>1 DEF AllocOverlapped, IocpTypeOK, OneOwner
  <2>2. \A p \in Ol : Life(p)'
    BY <1>0, <1>1 DEF AllocOverlapped, IocpTypeOK, Life
  <2> QED BY <2>1, <2>2 DEF IocpInv
<1>2. ASSUME NEW o \in Ol, FreeOverlapped(o) PROVE IocpInv'
  <2>1. /\ OneOwner'
        /\ acceptsocket' \in [Ol -> IoSockets \cup {NoSocket}]
        /\ sock' \in [IoSockets -> {"none", "open", "given", "closed", "twice"}]
    BY <1>0, <1>2, SocketGivenUp DEF FreeOverlapped
  <2>2. IocpTypeOK'
    BY <1>0, <1>2, <2>1, ZenonT(40) DEF FreeOverlapped, IocpTypeOK
  <2>3. \A p \in Ol : Life(p)'
    BY <1>0, <1>2 DEF FreeOverlapped, IocpTypeOK, Life
  <2> QED BY <2>1, <2>2, <2>3 DEF IocpInv
<1>3. ASSUME NEW o \in Ol, CommitOverlapped(o) PROVE IocpInv'
  BY <1>3, CommitKeeps
<1>4. ASSUME NEW o \in Ol, Completes(o) \/ OverlappedCheck(o) PROVE IocpInv'
  <2>1. OneOwner' /\ UNCHANGED <<opcode, freeLater, acceptsocket, hold, sock>>
    BY <1>0, <1>4 DEF Completes, OverlappedCheck, OneOwner
  <2>2. /\ mem' \in [Ol -> {"none", "malloc", "freed"}] /\ commit' \in [Ol -> BOOLEAN]
        /\ kernel' \in [Ol -> {"idle", "pending", "queued"}]
    BY <1>0, <1>4, ZenonT(40) DEF Completes, OverlappedCheck, IocpTypeOK
  <2>3. \A p \in Ol : Life(p)'
    BY <1>0, <1>4 DEF Completes, OverlappedCheck, IocpTypeOK, Life
  <2> QED BY <1>0, <2>1, <2>2, <2>3 DEF IocpInv, IocpTypeOK
<1>5. ASSUME NEW o \in Ol, AcceptFirst(o) PROVE IocpInv'
  <2>1. /\ OneOwner'
        /\ acceptsocket' \in [Ol -> IoSockets \cup {NoSocket}]
        /\ sock' \in [IoSockets -> {"none", "open", "given", "closed", "twice"}]
    BY <1>0, <1>5, SocketGivenUp DEF AcceptFirst
  <2>2. IocpTypeOK'
    BY <1>0, <1>5, <2>1 DEF AcceptFirst, IocpTypeOK
  <2>3. \A p \in Ol : Life(p)'
    BY <1>0, <1>5 DEF AcceptFirst, IocpTypeOK, Life
  <2> QED BY <2>1, <2>2, <2>3 DEF IocpInv
<1>6. CASE UNCHANGED iocpVars
  BY <1>0, <1>6 DEF iocpVars, IocpInv, IocpTypeOK, OneOwner, Life
<1> QED BY <1>1, <1>2, <1>3, <1>4, <1>5, <1>6 DEF IocpNext

\* The kernel never writes to an overlapped that was given back, and no socket
\* made for AcceptEx is closed twice or left open, for any number of overlappeds
\* and sockets (io.c:376-395, 445-468, 654-666, 776-790).
THEOREM OverlappedsHaveOwners == IocpSpec => []OverlappedsOwned
<1>1. IocpInv => OverlappedsOwned
  <2> SUFFICES ASSUME IocpInv PROVE OverlappedsOwned
    OBVIOUS
  <2>0. IocpTypeOK /\ OneOwner /\ \A p \in Ol : Life(p)
    BY DEF IocpInv
  <2>1. ASSUME NEW o \in Ol
        PROVE  /\ mem[o] = "freed" => kernel[o] = "idle" /\ ~hold[o]
               /\ mem[o] = "malloc" => hold[o] \/ (freeLater[o] /\ kernel[o] # "idle")
               /\ commit[o] /\ mem[o] = "malloc" <=> kernel[o] # "idle"
    BY <2>0 DEF IocpTypeOK, Life
  <2>2. ASSUME NEW s \in IoSockets
        PROVE  sock[s] = "open" <=> Cardinality({o \in Ol : acceptsocket[o] = s}) = 1
    <3> DEFINE Owners == {o \in Ol : acceptsocket[o] = s}
    <3>1. CASE sock[s] = "open"
      <4>1. PICK o \in Ol : acceptsocket[o] = s
        BY <2>0, <3>1 DEF OneOwner
      <4>2. Owners = {o}
        BY <2>0, <4>1, IocpAssumption DEF OneOwner, IocpAssumption
      <4> QED BY <3>1, <4>2, FS_Singleton
    <3>2. CASE sock[s] # "open"
      <4>1. Owners = {}
        BY <2>0, <3>2, IocpAssumption DEF OneOwner, IocpAssumption
      <4> QED BY <3>2, <4>1, FS_EmptySet
    <3> QED BY <3>1, <3>2
  <2> QED BY <2>0, <2>1, <2>2 DEF OverlappedsOwned, OneOwner
<1> QED BY <1>1, IocpAssumption, IocpInitInv, IocpNextInv, PTL DEF IocpSpec

-----------------------------------------------------------------------------
(***************************************************************************)
(* Nio.  NioInv: a descriptor is armed for its mask or its event has not   *)
(* been handled, whatever the loop does; and a raised flag always has a    *)
(* byte, someone about to write one, or a loop about to clear it.          *)
(***************************************************************************)

NioTypeOK ==
  /\ made \in BOOLEAN
  /\ eventMask \in [Fds -> SUBSET Ops] /\ armed \in [Fds -> SUBSET Ops]
  /\ loopAt \in {"handling", "waiting", "clearing"}
  /\ nioBytes \in Nat /\ nioWakeup \in {0, 1}
  /\ pushAt \in [Pushers -> {"out", "pushed", "flagged"}]
  /\ work \in Nat /\ pushes \in Nat

\* A descriptor is armed for its mask, or its event has not been handled.
ArmedOrHandled ==
  /\ \A f \in Fds : eventMask[f] \subseteq armed[f] \/ \E e \in events : e.fd = f
  /\ loopAt = "waiting" \/ ~made => events = {}

\* As long as the flag is raised, a byte is there or will be, or the loop has
\* read it and is about to clear the flag; and a loop that sleeps over work has
\* been told, or will be.
FlagHasByte ==
  /\ ~made => loopAt = "handling" /\ \A p \in Pushers : pushAt[p] = "out"
  /\ made /\ nioWakeup = 1 =>
       nioBytes > 0 \/ loopAt = "clearing" \/ \E p \in Pushers : pushAt[p] = "flagged"

NioInv == NioTypeOK /\ ArmedOrHandled /\ FlagHasByte /\ NoWorkIsMissed

LEMMA NioInitInv == NioInit => NioInv
<1> SUFFICES ASSUME NioInit PROVE NioInv
  OBVIOUS
<1>1. NioTypeOK
  BY DEF NioInit, NioTypeOK
<1>2. ArmedOrHandled /\ FlagHasByte /\ NoWorkIsMissed
  BY DEF NioInit, ArmedOrHandled, FlagHasByte, NoWorkIsMissed
<1> QED BY <1>1, <1>2 DEF NioInv

\* nioCommit and close leave the descriptor they are given armed for its mask,
\* and the others as they were.
LEMMA CommitArms ==
  ASSUME NioTypeOK, NEW f \in Fds, NEW mask \in SUBSET Ops, NEW op \in Ops,
         Commit(f, mask, op) \/ Closes(f)
  PROVE  /\ eventMask' \in [Fds -> SUBSET Ops] /\ armed' \in [Fds -> SUBSET Ops]
         /\ eventMask'[f] \subseteq armed'[f]
         /\ \A g \in Fds : g # f => eventMask'[g] = eventMask[g] /\ armed'[g] = armed[g]
  BY DEF NioTypeOK, Commit, Interest, Closes

\* What touches descriptors leaves the wake-up alone.
LEMMA WakeSame ==
  ASSUME FlagHasByte, NoWorkIsMissed, UNCHANGED <<made, loopAt, wakeVars>>
  PROVE  FlagHasByte' /\ NoWorkIsMissed'
  BY DEF FlagHasByte, NoWorkIsMissed, wakeVars

LEMMA NioNextInv == NioAssumption /\ NioInv /\ [NioNext]_nioVars => NioInv'
<1> SUFFICES ASSUME NioAssumption, NioInv, [NioNext]_nioVars PROVE NioInv'
  OBVIOUS
<1>0. NioTypeOK /\ ArmedOrHandled /\ FlagHasByte /\ NoWorkIsMissed
  BY DEF NioInv
<1>1. CASE NioCreate \/ NioClose
  <2>1. NioTypeOK' /\ ArmedOrHandled'
    BY <1>0, <1>1 DEF NioCreate, NioClose, fdVars, NioTypeOK, ArmedOrHandled
  <2>2. FlagHasByte' /\ NoWorkIsMissed'
    BY <1>0, <1>1 DEF NioCreate, NioClose, NioTypeOK, FlagHasByte, NoWorkIsMissed
  <2> QED BY <2>1, <2>2 DEF NioInv
<1>2. CASE HandleEvent
  <2>1. PICK e \in events :
          /\ loopAt = "handling" /\ e.fd \in Fds /\ events' = events \ {e}
          /\ \/ Commit(e.fd, MaskAfter(eventMask[e.fd], e.ev), "READ")
             \/ Closes(e.fd)
          /\ UNCHANGED <<made, loopAt, wakeVars>>
    BY <1>2 DEF HandleEvent
  <2>2. MaskAfter(eventMask[e.fd], e.ev) \in SUBSET Ops /\ "READ" \in Ops
    BY <1>0, <2>1 DEF NioTypeOK, MaskAfter, Ops
  <2>3. /\ eventMask' \in [Fds -> SUBSET Ops] /\ armed' \in [Fds -> SUBSET Ops]
        /\ eventMask'[e.fd] \subseteq armed'[e.fd]
        /\ \A g \in Fds : g # e.fd => eventMask'[g] = eventMask[g] /\ armed'[g] = armed[g]
    BY <1>0, <2>1, <2>2, CommitArms
  <2>4. ArmedOrHandled'
    BY <1>0, <2>1, <2>3 DEF ArmedOrHandled
  <2>5. NioTypeOK'
    BY <1>0, <2>1, <2>3 DEF NioTypeOK, wakeVars
  <2> QED BY <1>0, <2>1, <2>4, <2>5, WakeSame DEF NioInv
<1>3. CASE HandleWake
  <2>1. NioTypeOK'
    BY <1>0, <1>3 DEF HandleWake, WakeCheck, NioTypeOK, fdVars
  <2>2. ArmedOrHandled'
    <3>1. \A f \in Fds : (\E e \in events : e.fd = f) => \E e \in events' : e.fd = f
      <4>1. CASE UNCHANGED events
        BY <4>1
      <4>2. CASE \E e \in events : e.fd = WakeFd /\ events' = events \ {e}
        BY <4>2 DEF NioAssumption
      <4> QED BY <1>3, <4>1, <4>2 DEF HandleWake
    <3>2. loopAt' # "waiting" /\ UNCHANGED <<eventMask, armed>>
      BY <1>3 DEF HandleWake, fdVars
    <3>3. UNCHANGED made /\ (~made => events' = {})
      BY <1>0, <1>3 DEF HandleWake, ArmedOrHandled
    <3> QED BY <1>0, <3>1, <3>2, <3>3 DEF ArmedOrHandled
  <2>3. UNCHANGED <<made, pushAt, work>> /\ loopAt # "waiting" /\ loopAt' # "waiting"
    BY <1>3 DEF HandleWake
  <2>4. CASE loopAt = "handling" /\ loopAt' = "clearing"
    <3>1. made
      BY <1>0, <1>3, <2>4 DEF HandleWake, ArmedOrHandled
    <3>2. FlagHasByte' /\ NoWorkIsMissed'
      BY <2>3, <2>4, <3>1 DEF FlagHasByte, NoWorkIsMissed
    <3> QED BY <2>1, <2>2, <3>2 DEF NioInv
  <2>5. CASE loopAt = "clearing" /\ nioWakeup' = 0 /\ UNCHANGED nioBytes
    <3>1. FlagHasByte' /\ NoWorkIsMissed'
      BY <1>0, <2>3, <2>5 DEF FlagHasByte, NoWorkIsMissed
    <3> QED BY <2>1, <2>2, <3>1 DEF NioInv
  <2> QED BY <1>3, <2>4, <2>5 DEF HandleWake, WakeCheck
<1>4. CASE TakeWork
  <2>1. NioTypeOK' /\ ArmedOrHandled'
    BY <1>0, <1>4 DEF TakeWork, NioTypeOK, ArmedOrHandled, fdVars
  <2>2. FlagHasByte' /\ NoWorkIsMissed'
    BY <1>0, <1>4 DEF TakeWork, NioTypeOK, FlagHasByte, NoWorkIsMissed
  <2> QED BY <2>1, <2>2 DEF NioInv
<1>5. ASSUME NEW fs \in SUBSET Fds, NEW woken \in BOOLEAN, LoopWaits(fs, woken)
      PROVE  NioInv'
  <2>1. PICK ev \in [fs -> (SUBSET Ops \cup {{"HUP"}}) \ {{}}] :
          events' = {[fd |-> f, ev |-> ev[f]] : f \in fs}
                      \cup {e \in {[fd |-> WakeFd, ev |-> {}]} : woken}
    BY <1>5 DEF LoopWaits
  <2>2. \A f \in fs : \E e \in events' : e.fd = f
    <3> SUFFICES ASSUME NEW f \in fs PROVE \E e \in events' : e.fd = f
      OBVIOUS
    <3>1. [fd |-> f, ev |-> ev[f]] \in events'
      BY <2>1
    <3> QED BY <3>1
  <2>3. ArmedOrHandled'
    <3>1. made' /\ loopAt' = "handling" /\ UNCHANGED eventMask
      BY <1>0, <1>5 DEF LoopWaits, FlagHasByte
    <3>2. \A f \in Fds \ fs : armed'[f] = armed[f]
      BY <1>5 DEF LoopWaits
    <3>3. \A f \in Fds : eventMask[f] \subseteq armed[f]
      BY <1>0, <1>5 DEF LoopWaits, ArmedOrHandled
    <3> QED BY <2>2, <3>1, <3>2, <3>3 DEF ArmedOrHandled
  <2>4. NioTypeOK'
    BY <1>0, <1>5 DEF LoopWaits, NioTypeOK, wakeVars
  <2>5. FlagHasByte' /\ NoWorkIsMissed'
    BY <1>0, <1>5 DEF LoopWaits, FlagHasByte, NoWorkIsMissed, wakeVars
  <2> QED BY <2>3, <2>4, <2>5 DEF NioInv
<1>6. ASSUME NEW f \in Fds, Opens(f) \/ CommitWrite(f) PROVE NioInv'
  <2>1. PICK mask \in SUBSET Ops, op \in Ops : Commit(f, mask, op)
    <3>1. CASE Opens(f)
      BY <3>1 DEF Opens
    <3>2. CASE CommitWrite(f)
      BY <1>0, <3>2 DEF CommitWrite, NioTypeOK, Ops
    <3> QED BY <1>6, <3>1, <3>2
  <2>2. /\ eventMask' \in [Fds -> SUBSET Ops] /\ armed' \in [Fds -> SUBSET Ops]
        /\ eventMask'[f] \subseteq armed'[f]
        /\ \A g \in Fds : g # f => eventMask'[g] = eventMask[g] /\ armed'[g] = armed[g]
    BY <1>0, <2>1, CommitArms
  <2>3. UNCHANGED <<made, events, loopAt, wakeVars>>
    BY <1>6 DEF Opens, CommitWrite
  <2>4. NioTypeOK'
    BY <1>0, <2>2, <2>3 DEF NioTypeOK, wakeVars
  <2>5. ArmedOrHandled'
    BY <1>0, <2>2, <2>3 DEF ArmedOrHandled
  <2> QED BY <1>0, <2>3, <2>4, <2>5, WakeSame DEF NioInv
<1>7. ASSUME NEW p \in Pushers, PushWork(p) \/ Wakes(p) PROVE NioInv'
  <2>1. NioTypeOK'
    BY <1>0, <1>7 DEF PushWork, Wakes, RaiseFlag, WriteByte, fdVars, NioTypeOK
  <2>2. ArmedOrHandled'
    BY <1>0, <1>7 DEF PushWork, Wakes, RaiseFlag, WriteByte, fdVars, ArmedOrHandled
  <2>3. CASE PushWork(p)
    <3>1. FlagHasByte' /\ NoWorkIsMissed'
      BY <1>0, <2>3 DEF PushWork, NioTypeOK, FlagHasByte, NoWorkIsMissed
    <3> QED BY <2>1, <2>2, <3>1 DEF NioInv
  <2>4. CASE RaiseFlag(p)
    <3>1. FlagHasByte' /\ NoWorkIsMissed'
      BY <1>0, <2>4 DEF RaiseFlag, NioTypeOK, FlagHasByte, NoWorkIsMissed
    <3> QED BY <2>1, <2>2, <3>1 DEF NioInv
  <2>5. CASE WriteByte(p)
    <3>1. FlagHasByte' /\ NoWorkIsMissed'
      BY <1>0, <2>5 DEF WriteByte, NioTypeOK, FlagHasByte, NoWorkIsMissed
    <3> QED BY <2>1, <2>2, <3>1 DEF NioInv
  <2> QED BY <1>7, <2>3, <2>4, <2>5 DEF Wakes
<1>8. CASE UNCHANGED nioVars
  BY <1>0, <1>8 DEF nioVars, fdVars, wakeVars, NioInv, NioTypeOK, ArmedOrHandled, FlagHasByte,
                    NoWorkIsMissed
<1> QED BY <1>1, <1>2, <1>3, <1>4, <1>5, <1>6, <1>7, <1>8 DEF NioNext, Handles

\* The loop sleeps only when all it waits for can wake it, for any descriptors,
\* pushers and amount of work (io.c:528-573, 631-673).
THEOREM NioMissesNothing == NioSpec => []NothingIsMissed
<1>1. NioInv => NothingIsMissed
  BY DEF NioInv, NothingIsMissed, InterestKept, ArmedOrHandled
<1> QED BY <1>1, NioAssumption, NioInitInv, NioNextInv, PTL DEF NioSpec

-----------------------------------------------------------------------------
(***************************************************************************)
(* Fiber.  FbInv: the spin lock excludes, so last_create is the fiber of the *)
(* thread between its creation and its first run (Place).                  *)
(***************************************************************************)

FbTypeOK ==
  /\ fbLock \in {0, 1}
  /\ ctx \in [AnyFiber -> {"none", "start", "running", "create", "entry", "program"}]
  /\ creater \in [AnyFiber -> AnyFiber \cup {NoFiber}]
  /\ self \in [AnyFiber -> AnyFiber \cup {NoFiber}]
  /\ made_by \in [AnyFiber -> FbThreads \cup {NoFiber}]
  /\ fbAt \in [FbThreads -> {"thread", "program", "spin", "locked", "swap",
                             "start", "read", "back", "enter"}]
  /\ cur \in [FbThreads -> AnyFiber \cup {NoFiber}]
  /\ making \in [FbThreads -> Fibers \cup {NoFiber}]

\* The spin lock excludes.
HoldsSpin == {"locked", "swap", "start", "read"}

SpinExcludes ==
  /\ \A t \in FbThreads : fbAt[t] \in HoldsSpin => fbLock = 1
  /\ \A t, u \in FbThreads : fbAt[t] \in HoldsSpin /\ fbAt[u] \in HoldsSpin => u = t

\* What is true of a fiber whoever runs it.
FiberOK(f) ==
  /\ self[f] \in {f, NoFiber}
  /\ ctx[f] = "entry" => f \in Fibers /\ self[f] = f
  /\ f \in FbThreads => made_by[f] \in {f, NoFiber}

\* The fiber that a thread has made and not yet run; the one it runs for the first
\* time, whose creator waits in fiberCreate.
Fresh(t) == LET f == making[t] IN
  f \in Fibers /\ made_by[f] = t /\ ctx[f] = "start" /\ creater[f] = cur[t] /\ f # cur[t]

Child(t) == LET f == making[t] IN
  /\ f \in Fibers /\ cur[t] = f /\ creater[f] \in AnyFiber /\ creater[f] # f
  /\ made_by[creater[f]] = t /\ ctx[creater[f]] = "create"

Place(t) ==
  /\ fbAt[t] # "thread" => cur[t] \in AnyFiber /\ made_by[cur[t]] = t
  /\ fbAt[t] \in {"spin", "locked", "swap"} => Fresh(t)
  /\ fbAt[t] \in {"start", "read", "back"} => Child(t)
  /\ fbAt[t] \in {"swap", "start"} => lastCreate = making[t]
  /\ fbAt[t] \in {"read", "back", "enter"} => self[cur[t]] = cur[t]

FbInv == /\ FbTypeOK /\ SpinExcludes
         /\ \A f \in AnyFiber : FiberOK(f)
         /\ \A t \in FbThreads : Place(t)

LEMMA FbInitInv == FiberAssumption /\ FbInit => FbInv
<1> SUFFICES ASSUME FiberAssumption, FbInit PROVE FbInv
  OBVIOUS
<1>1. FbTypeOK
  BY DEF FbInit, FbTypeOK
<1>2. SpinExcludes /\ \A t \in FbThreads : Place(t)
  BY DEF FbInit, SpinExcludes, HoldsSpin, Place
<1>3. \A f \in AnyFiber : FiberOK(f)
  BY DEF FbInit, FiberOK
<1> QED BY <1>1, <1>2, <1>3 DEF FbInv

\* A thread's place holds when another thread touches only what is its own.
LEMMA OthersPlace ==
  ASSUME FbTypeOK, NEW u \in FbThreads, Place(u),
         fbAt'[u] = fbAt[u], cur'[u] = cur[u], making'[u] = making[u],
         fbAt[u] \in {"swap", "start"} => lastCreate' = lastCreate,
         \A f \in AnyFiber : made_by[f] = u =>
           /\ made_by'[f] = u /\ ctx'[f] = ctx[f]
           /\ creater'[f] = creater[f] /\ self'[f] = self[f]
  PROVE  Place(u)'
<1>1. ASSUME fbAt[u] # "thread" PROVE cur'[u] \in AnyFiber /\ made_by'[cur'[u]] = u
  BY <1>1 DEF Place
<1>2. ASSUME fbAt[u] \in {"spin", "locked", "swap"} PROVE Fresh(u)'
  BY <1>2 DEF Place, Fresh, AnyFiber
<1>3. ASSUME fbAt[u] \in {"start", "read", "back"} PROVE Child(u)'
  BY <1>3 DEF Place, Child
<1>4. ASSUME fbAt[u] \in {"read", "back", "enter"} PROVE self'[cur'[u]] = cur'[u]
  BY <1>4 DEF Place
<1>5. ASSUME fbAt[u] \in {"swap", "start"} PROVE lastCreate' = making'[u]
  BY <1>5 DEF Place
<1> QED BY <1>1, <1>2, <1>3, <1>4, <1>5 DEF Place

LEMMA FbNextInv == FiberAssumption /\ FbInv /\ [FbNext]_fbVars => FbInv'
<1> SUFFICES ASSUME FiberAssumption, FbInv, [FbNext]_fbVars PROVE FbInv'
  OBVIOUS
<1>0. /\ FbTypeOK /\ SpinExcludes /\ (\A f \in AnyFiber : FiberOK(f))
      /\ \A t \in FbThreads : Place(t)
  BY DEF FbInv
<1>a. NoFiber \notin AnyFiber /\ NoFiber \notin FbThreads /\ NoFiber \notin Fibers
  BY DEF FiberAssumption, AnyFiber
<1>1. ASSUME NEW t \in FbThreads, FiberFromThread(t) PROVE FbInv'
  <2>1. t \in AnyFiber /\ made_by[t] \in {t, NoFiber}
    BY <1>0 DEF AnyFiber, FiberOK
  <2>2. FbTypeOK'
    BY <1>0, <1>1, <2>1 DEF FiberFromThread, FbGo, FbTypeOK
  <2>3. SpinExcludes'
    BY <1>0, <1>1 DEF FiberFromThread, FbGo, FbTypeOK, SpinExcludes, HoldsSpin
  <2>4. \A f \in AnyFiber : FiberOK(f)'
    BY <1>0, <1>1 DEF FiberFromThread, FbTypeOK, FiberOK
  <2>5. Place(t)'
    BY <1>0, <1>1, <2>1 DEF FiberFromThread, FbGo, FbTypeOK, Place
  <2>6. ASSUME NEW u \in FbThreads, u # t PROVE Place(u)'
    BY <1>0, <1>1, <1>a, <2>1, <2>6, OthersPlace DEF FiberFromThread, FbGo, FbTypeOK
  <2> QED BY <2>2, <2>3, <2>4, <2>5, <2>6 DEF FbInv
<1>2. ASSUME NEW t \in FbThreads, FiberCreate(t) PROVE FbInv'
  <2>1. PICK f \in Fibers :
          /\ FbGo(t, "program", "spin") /\ made_by[f] = NoFiber
          /\ making' = [making EXCEPT ![t] = f] /\ made_by' = [made_by EXCEPT ![f] = t]
          /\ ctx' = [ctx EXCEPT ![f] = "start"] /\ creater' = [creater EXCEPT ![f] = cur[t]]
          /\ UNCHANGED <<fbLock, lastCreate, self, cur>>
    BY <1>2 DEF FiberCreate
  <2>2. f \in AnyFiber /\ f \notin FbThreads
    BY DEF AnyFiber, FiberAssumption
  <2>3. cur[t] \in AnyFiber /\ made_by[cur[t]] = t /\ cur[t] # f
    BY <1>0, <1>a, <2>1 DEF FbGo, Place
  <2>4. FbTypeOK'
    BY <1>0, <2>1, <2>2, <2>3 DEF FbGo, FbTypeOK
  <2>5. SpinExcludes'
    BY <1>0, <2>1 DEF FbGo, FbTypeOK, SpinExcludes, HoldsSpin
  <2>6. \A g \in AnyFiber : FiberOK(g)'
    BY <1>0, <2>1, <2>2 DEF FbTypeOK, FiberOK
  <2>7. Place(t)'
    BY <1>0, <2>1, <2>2, <2>3 DEF FbGo, FbTypeOK, Place, Fresh
  <2>8. ASSUME NEW u \in FbThreads, u # t PROVE Place(u)'
    BY <1>0, <1>a, <2>1, <2>2, <2>8, OthersPlace DEF FbGo, FbTypeOK
  <2> QED BY <2>4, <2>5, <2>6, <2>7, <2>8 DEF FbInv
<1>3. ASSUME NEW t \in FbThreads, CreateSpin(t) PROVE FbInv'
  <2>1. FbTypeOK'
    BY <1>0, <1>3 DEF CreateSpin, GetsLock, FbGo, FbTypeOK
  <2>2. SpinExcludes'
    BY <1>0, <1>3 DEF CreateSpin, GetsLock, FbGo, FbTypeOK, SpinExcludes, HoldsSpin
  <2>3. \A f \in AnyFiber : FiberOK(f)'
    BY <1>0, <1>3 DEF CreateSpin, FiberOK
  <2>4. Place(t)'
    BY <1>0, <1>3 DEF CreateSpin, FbGo, FbTypeOK, Place, Fresh
  <2>5. ASSUME NEW u \in FbThreads, u # t PROVE Place(u)'
    BY <1>0, <1>3, <2>5, OthersPlace DEF CreateSpin, FbGo, FbTypeOK
  <2> QED BY <2>1, <2>2, <2>3, <2>4, <2>5 DEF FbInv
<1>4. ASSUME NEW t \in FbThreads, CreateLeaves(t) PROVE FbInv'
  <2>1. FbTypeOK'
    BY <1>0, <1>4 DEF CreateLeaves, FbGo, FbTypeOK
  <2>2. SpinExcludes'
    BY <1>0, <1>4 DEF CreateLeaves, FbGo, FbTypeOK, SpinExcludes, HoldsSpin
  <2>3. \A f \in AnyFiber : FiberOK(f)'
    BY <1>0, <1>4 DEF CreateLeaves, FiberOK
  <2>4. Place(t)'
    BY <1>0, <1>4 DEF CreateLeaves, FbGo, FbTypeOK, Place, Fresh
  <2>5. ASSUME NEW u \in FbThreads, u # t PROVE Place(u)'
    <3>1. fbAt[u] \notin {"swap", "start"}
      BY <1>0, <1>4, <2>5 DEF CreateLeaves, FbGo, SpinExcludes, HoldsSpin
    <3> QED BY <1>0, <1>4, <2>5, <3>1, OthersPlace DEF CreateLeaves, FbGo, FbTypeOK
  <2> QED BY <2>1, <2>2, <2>3, <2>4, <2>5 DEF FbInv
<1>5. ASSUME NEW t \in FbThreads, CreateSwaps(t) PROVE FbInv'
  <2> DEFINE f == making[t]
             p == cur[t]
  <2>1. /\ f \in Fibers /\ f \in AnyFiber /\ p \in AnyFiber /\ made_by[f] = t /\ made_by[p] = t
        /\ ctx[f] = "start" /\ creater[f] = p /\ f # p /\ lastCreate = f
    BY <1>0, <1>5 DEF CreateSwaps, Place, Fresh, AnyFiber
  <2>2. /\ fbAt[t] = "swap"
        /\ ctx' = [ctx EXCEPT ![p] = "create", ![f] = "running"]
        /\ cur' = [cur EXCEPT ![t] = f] /\ fbAt' = [fbAt EXCEPT ![t] = "start"]
        /\ UNCHANGED <<fbLock, lastCreate, creater, self, making, made_by>>
    BY <1>5, <2>1 DEF CreateSwaps, Swap
  <2>3. ctx'[p] = "create" /\ ctx'[f] = "running" /\
        \A g \in AnyFiber : g # f /\ g # p => ctx'[g] = ctx[g]
    BY <1>0, <2>1, <2>2 DEF FbTypeOK
  <2>4. FbTypeOK'
    BY <1>0, <2>1, <2>2 DEF FbTypeOK
  <2>5. SpinExcludes'
    BY <1>0, <2>2 DEF FbTypeOK, SpinExcludes, HoldsSpin
  <2>6. \A g \in AnyFiber : FiberOK(g)'
    BY <1>0, <2>2, <2>3 DEF FiberOK
  <2>7. Place(t)'
    BY <1>0, <2>1, <2>2, <2>3 DEF FbTypeOK, Place, Child
  <2>8. ASSUME NEW u \in FbThreads, u # t PROVE Place(u)'
    BY <1>0, <2>1, <2>2, <2>3, <2>8, OthersPlace DEF FbTypeOK
  <2> QED BY <2>4, <2>5, <2>6, <2>7, <2>8 DEF FbInv
<1>6. ASSUME NEW t \in FbThreads, StartReads(t) PROVE FbInv'
  <2>1. /\ cur[t] \in AnyFiber /\ made_by[cur[t]] = t /\ making[t] = cur[t]
        /\ lastCreate = cur[t] /\ cur[t] \in Fibers
    BY <1>0, <1>6 DEF StartReads, FbGo, Place, Child
  <2>2. FbTypeOK'
    BY <1>0, <1>6, <2>1 DEF StartReads, FbGo, FbTypeOK
  <2>3. SpinExcludes'
    BY <1>0, <1>6 DEF StartReads, FbGo, FbTypeOK, SpinExcludes, HoldsSpin
  <2>4. \A g \in AnyFiber : FiberOK(g)'
    BY <1>0, <1>6, <2>1 DEF StartReads, FbTypeOK, FiberOK
  <2>5. Place(t)'
    BY <1>0, <1>6, <2>1 DEF StartReads, FbGo, FbTypeOK, Place, Child
  <2>6. ASSUME NEW u \in FbThreads, u # t PROVE Place(u)'
    BY <1>0, <1>6, <2>1, <2>6, OthersPlace DEF StartReads, FbGo, FbTypeOK
  <2> QED BY <2>2, <2>3, <2>4, <2>5, <2>6 DEF FbInv
<1>7. ASSUME NEW t \in FbThreads, StartUnlocks(t) PROVE FbInv'
  <2>1. FbTypeOK'
    BY <1>0, <1>7 DEF StartUnlocks, FbGo, FbTypeOK
  <2>2. SpinExcludes'
    BY <1>0, <1>7 DEF StartUnlocks, FbGo, FbTypeOK, SpinExcludes, HoldsSpin
  <2>3. \A f \in AnyFiber : FiberOK(f)'
    BY <1>0, <1>7 DEF StartUnlocks, FiberOK
  <2>4. Place(t)'
    BY <1>0, <1>7 DEF StartUnlocks, FbGo, FbTypeOK, Place, Child
  <2>5. ASSUME NEW u \in FbThreads, u # t PROVE Place(u)'
    BY <1>0, <1>7, <2>5, OthersPlace DEF StartUnlocks, FbGo, FbTypeOK
  <2> QED BY <2>1, <2>2, <2>3, <2>4, <2>5 DEF FbInv
<1>8. ASSUME NEW t \in FbThreads, StartSwaps(t) PROVE FbInv'
  <2> DEFINE f == cur[t]
             p == creater[f]
  <2>1. /\ f \in Fibers /\ f \in AnyFiber /\ p \in AnyFiber /\ made_by[f] = t /\ made_by[p] = t
        /\ ctx[p] = "create" /\ f # p /\ self[f] = f
    BY <1>0, <1>8 DEF StartSwaps, Place, Child, AnyFiber
  <2>2. /\ fbAt[t] = "back"
        /\ ctx' = [ctx EXCEPT ![f] = "entry", ![p] = "running"]
        /\ cur' = [cur EXCEPT ![t] = p] /\ fbAt' = [fbAt EXCEPT ![t] = "program"]
        /\ UNCHANGED <<fbLock, lastCreate, creater, self, making, made_by>>
    BY <1>8, <2>1 DEF StartSwaps, Swap
  <2>3. ctx'[p] = "running" /\ ctx'[f] = "entry" /\
        \A g \in AnyFiber : g # f /\ g # p => ctx'[g] = ctx[g]
    BY <1>0, <2>1, <2>2 DEF FbTypeOK
  <2>4. FbTypeOK'
    BY <1>0, <2>1, <2>2 DEF FbTypeOK
  <2>5. SpinExcludes'
    BY <1>0, <2>2 DEF FbTypeOK, SpinExcludes, HoldsSpin
  <2>6. \A g \in AnyFiber : FiberOK(g)'
    BY <1>0, <2>1, <2>2, <2>3 DEF FiberOK
  <2>7. Place(t)'
    BY <1>0, <2>1, <2>2, <2>3 DEF FbTypeOK, Place
  <2>8. ASSUME NEW u \in FbThreads, u # t PROVE Place(u)'
    BY <1>0, <2>1, <2>2, <2>3, <2>8, OthersPlace DEF FbTypeOK
  <2> QED BY <2>4, <2>5, <2>6, <2>7, <2>8 DEF FbInv
<1>9. ASSUME NEW t \in FbThreads, StartEnters(t) PROVE FbInv'
  <2>1. FbTypeOK'
    BY <1>0, <1>9 DEF StartEnters, FbGo, FbTypeOK
  <2>2. SpinExcludes'
    BY <1>0, <1>9 DEF StartEnters, FbGo, FbTypeOK, SpinExcludes, HoldsSpin
  <2>3. \A f \in AnyFiber : FiberOK(f)'
    BY <1>0, <1>9 DEF StartEnters, FiberOK
  <2>4. Place(t)'
    BY <1>0, <1>9 DEF StartEnters, FbGo, FbTypeOK, Place
  <2>5. ASSUME NEW u \in FbThreads, u # t PROVE Place(u)'
    BY <1>0, <1>9, <2>5, OthersPlace DEF StartEnters, FbGo, FbTypeOK
  <2> QED BY <2>1, <2>2, <2>3, <2>4, <2>5 DEF FbInv
<1>10. ASSUME NEW t \in FbThreads, FiberSwitch(t) PROVE FbInv'
  <2>1. PICK to \in AnyFiber \ {cur[t]} :
          /\ fbAt[t] = "program" /\ made_by[to] = t /\ ctx[to] \in {"entry", "program"}
          /\ Swap(t, cur[t], "program", to)
          /\ UNCHANGED <<fbLock, lastCreate, creater, self, making, made_by>>
    BY <1>10 DEF FiberSwitch
  <2>2. cur[t] \in AnyFiber /\ made_by[cur[t]] = t
    BY <1>0, <2>1 DEF Place
  <2>3. /\ ctx' = [ctx EXCEPT ![cur[t]] = "program", ![to] = "running"]
        /\ cur' = [cur EXCEPT ![t] = to]
        /\ fbAt' = [fbAt EXCEPT ![t] = IF ctx[to] = "entry" THEN "enter" ELSE "program"]
    BY <2>1 DEF Swap
  <2>4. ctx'[to] = "running" /\ ctx'[cur[t]] = "program" /\
        \A g \in AnyFiber : g # to /\ g # cur[t] => ctx'[g] = ctx[g]
    BY <1>0, <2>1, <2>2, <2>3 DEF FbTypeOK
  <2>5. FbTypeOK'
    BY <1>0, <2>1, <2>2, <2>3 DEF FbTypeOK
  <2>6. SpinExcludes'
    BY <1>0, <2>1, <2>3 DEF FbTypeOK, SpinExcludes, HoldsSpin
  <2>7. \A g \in AnyFiber : FiberOK(g)'
    BY <1>0, <2>1, <2>4 DEF FiberOK
  <2>8. Place(t)'
    BY <1>0, <2>1, <2>3 DEF FbTypeOK, Place, FiberOK
  <2>9. ASSUME NEW u \in FbThreads, u # t PROVE Place(u)'
    BY <1>0, <2>1, <2>2, <2>3, <2>4, <2>9, OthersPlace DEF FbTypeOK
  <2> QED BY <2>5, <2>6, <2>7, <2>8, <2>9 DEF FbInv
<1>11. ASSUME NEW t \in FbThreads, FiberFree(t) PROVE FbInv'
  <2>1. PICK f \in Fibers \ {cur[t]} :
          /\ fbAt[t] = "program" /\ made_by[f] = t /\ ctx[f] \in {"entry", "program"}
          /\ ctx' = [ctx EXCEPT ![f] = "none"] /\ made_by' = [made_by EXCEPT ![f] = NoFiber]
          /\ self' = [self EXCEPT ![f] = NoFiber]
          /\ UNCHANGED <<fbLock, lastCreate, creater, fbAt, cur, making>>
    BY <1>11 DEF FiberFree
  <2>2. f \in AnyFiber /\ f \notin FbThreads
    BY DEF AnyFiber, FiberAssumption
  <2>3. FbTypeOK'
    BY <1>0, <2>1 DEF FbTypeOK
  <2>4. SpinExcludes'
    BY <1>0, <2>1 DEF SpinExcludes
  <2>5. \A g \in AnyFiber : FiberOK(g)'
    BY <1>0, <2>1, <2>2 DEF FbTypeOK, FiberOK
  <2>6. Place(t)'
    BY <1>0, <2>1, <2>2 DEF FbTypeOK, Place
  <2>7. ASSUME NEW u \in FbThreads, u # t PROVE Place(u)'
    BY <1>0, <2>1, <2>7, OthersPlace DEF FbTypeOK
  <2> QED BY <2>3, <2>4, <2>5, <2>6, <2>7 DEF FbInv
<1>12. CASE UNCHANGED fbVars
  BY <1>0, <1>12 DEF fbVars, FbInv, FbTypeOK, SpinExcludes, FiberOK, Place, Fresh, Child
<1> QED BY <1>1, <1>2, <1>3, <1>4, <1>5, <1>6, <1>7, <1>8, <1>9, <1>10, <1>11, <1>12 DEF FbNext

\* However many threads create fibers at once, each fiber reads its own object and
\* returns to its creator on its creator's thread (process.c:353-356, 421-424).
THEOREM FibersStayThemselves == FbSpec => []FibersAreThemselves
<1>1. FbInv => FibersAreThemselves
  BY DEF FbInv, FibersAreThemselves, FiberOK, Place, Child, AnyFiber
<1> QED BY <1>1, FiberAssumption, FbInitInv, FbNextInv, PTL DEF FbSpec

-----------------------------------------------------------------------------
(***************************************************************************)
(* Sockets.  Three groups of calls, each with its invariant; what one      *)
(* group does leaves the variables of the others alone.                    *)
(***************************************************************************)

\* A connect that has not returned has an open socket; one that looks at its
\* error was answered, or select failed.
ConnInv ==
  /\ connAt \in {"out", "select", "check", "done"}
  /\ valid \in BOOLEAN /\ interrupted \in BOOLEAN /\ nonBlock \in BOOLEAN
  /\ connAt \in {"select", "check"} => sockfd = "open" /\ link \in {"syn", "up", "refused"}
  /\ connAt = "check" => link # "syn" \/ interrupted
  /\ connAt = "done" => /\ valid => /\ sockfd = "open" /\ ~nonBlock
                                    /\ link = "up" \/ interrupted
                        /\ ~valid => sockfd # "open"

\* The mode is changed before the wait with a limit is over, and never back.
AcceptInv ==
  /\ acceptAt \in [Acceptors -> {"out", "accept", "poll", "polled", "timed"}]
  /\ \A t \in Acceptors : acceptAt[t] = "timed" => listenNonBlock

ByteInv ==
  /\ wn \in Nat /\ toSend \in Nat /\ wn <= toSend /\ sentBefore \in Nat
  /\ rn \in Nat /\ toRead \in Nat
  /\ flight \in Seq(Int) /\ received \in Seq(Int)
  /\ BytesInOrder

\* Which sockets are open at each call of socketPair.
PairInv ==
  /\ pairAt \in {"out", "first", "second", "names", "connect", "accept", "options",
                 "done", "failed"}
  /\ pairOpen \subseteq PairFds /\ peer \in [PairFds -> PairFds \cup {NoSockfd}]
  /\ DOMAIN pair = 1 .. 2
  /\ pairAt \in {"out", "first", "failed"} => pairOpen = {}
  /\ pairAt = "second" => pairOpen = {pair[1]}
  /\ pairAt \in {"names", "connect", "accept", "options", "done"} =>
       pairOpen = {pair[1], pair[2]} /\ pair[1] # pair[2]
  /\ pairAt = "connect" /\ pairType # "stream" => peer[pair[1]] = pair[2]
  /\ pairAt = "accept" => pairType = "stream"
  /\ pairAt \in {"options", "done"} => peer[pair[1]] = pair[2] /\ peer[pair[2]] = pair[1]

SockInv == ConnInv /\ AcceptInv /\ ByteInv /\ PairInv

LEMMA SockInitInv == SockInit => SockInv
<1> SUFFICES ASSUME SockInit PROVE SockInv
  OBVIOUS
<1>1. ConnInv
  BY DEF SockInit, ConnInv
<1>3. AcceptInv
  BY DEF SockInit, AcceptInv
<1>4. PairInv
  BY DEF SockInit, PairInv
<1>2. ByteInv
  <2>1. <<>> \in Seq(Int) /\ <<>> \o <<>> = <<>>
    BY EmptySeq, ConcatEmptySeq
  <2>2. [i \in 1 .. 0 + 0 |-> i] = <<>>
    OBVIOUS
  <2> QED BY <2>1, <2>2 DEF SockInit, ByteInv, BytesInOrder
<1> QED BY <1>1, <1>2, <1>3, <1>4 DEF SockInv

LEMMA ConnKeeps ==
  ASSUME SockInv, ConnNext
  PROVE  SockInv'
<1>0. ConnInv /\ AcceptInv /\ ByteInv /\ PairInv
  BY DEF SockInv
<1>1. ByteInv' /\ PairInv'
  BY <1>0 DEF ConnNext, byteVars, pairVars, ByteInv, BytesInOrder, PairInv
<1>2. ASSUME Connect \/ NetworkAnswers \/ Select \/ CheckError \/ CloseSocket
      PROVE  ConnInv' /\ AcceptInv'
  <2>1. AcceptInv'
    BY <1>0, <1>2 DEF Connect, NetworkAnswers, Select, CheckError, CloseSocket, acceptVars, AcceptInv
  <2> SUFFICES ConnInv'
    BY <2>1
  <2>2. CASE Connect
    <3>1. connAt' \in {"done", "select"} /\ interrupted' = FALSE /\ nonBlock' \in BOOLEAN
          /\ valid' \in BOOLEAN
      BY <2>2 DEF Connect
    <3>2. connAt' = "select" => sockfd' = "open" /\ link' = "syn"
      BY <2>2 DEF Connect
    <3>3. connAt' = "done" /\ valid' => sockfd' = "open" /\ ~nonBlock' /\ link' = "up"
      BY <2>2 DEF Connect, LinkUp
    <3>4. connAt' = "done" /\ ~valid' => sockfd' # "open"
      BY <2>2 DEF Connect
    <3> QED BY <3>1, <3>2, <3>3, <3>4 DEF ConnInv
  <2>3. CASE NetworkAnswers
    <3>1. link' \in {"up", "refused"} /\ sockfd = "open" /\ link = "syn"
          /\ UNCHANGED <<connAt, sockfd, nonBlock, valid, interrupted>>
      BY <2>3 DEF NetworkAnswers, LinkUp
    <3> QED BY <1>0, <3>1 DEF ConnInv
  <2>4. CASE Select
    <3>1. CASE connAt' = "check"
      <4>1. UNCHANGED <<valid, sockfd, nonBlock, link>> /\ connAt = "select"
            /\ interrupted' = (link = "syn")
        BY <2>4, <3>1 DEF Select, GivesUp
      <4> QED BY <1>0, <3>1, <4>1 DEF ConnInv
    <3>2. CASE connAt' = "done"
      <4>1. valid' = FALSE /\ sockfd' = "closed" /\ UNCHANGED <<interrupted, nonBlock, link>>
        BY <2>4, <3>2 DEF Select, GivesUp
      <4> QED BY <1>0, <3>2, <4>1 DEF ConnInv
    <3> QED BY <2>4, <3>1, <3>2 DEF Select, GivesUp
  <2>5. CASE CheckError
    <3>1. CASE link = "refused"
      <4>1. /\ connAt' = "done" /\ valid' = FALSE /\ sockfd' = "closed"
            /\ UNCHANGED <<interrupted, nonBlock, link>>
        BY <2>5, <3>1 DEF CheckError, GivesUp
      <4> QED BY <1>0, <4>1 DEF ConnInv
    <3>2. CASE link # "refused"
      <4>1. /\ connAt = "check" /\ connAt' = "done" /\ valid' = TRUE /\ nonBlock' = FALSE
            /\ UNCHANGED <<interrupted, sockfd, link>>
        BY <2>5, <3>2 DEF CheckError
      <4> QED BY <1>0, <3>2, <4>1 DEF ConnInv
    <3> QED BY <3>1, <3>2
  <2>6. CASE CloseSocket
    BY <1>0, <2>6 DEF CloseSocket, ConnInv
  <2> QED BY <1>2, <2>1, <2>2, <2>3, <2>4, <2>5, <2>6
<1>3. ASSUME NEW t \in Acceptors, Accept(t) \/ AcceptUnblocks(t) \/ Accepts(t)
      PROVE  ConnInv' /\ AcceptInv'
  <2>1. ConnInv'
    BY <1>0, <1>3 DEF Accept, AcceptUnblocks, Accepts, connVars, ConnInv
  <2>2. AcceptInv'
    BY <1>0, <1>3 DEF Accept, AcceptUnblocks, Unblocked, Accepts, AcceptGo, AcceptInv
  <2> QED BY <2>1, <2>2
<1>4. ASSUME ClientLeaves PROVE ConnInv' /\ AcceptInv'
  BY <1>0, <1>4 DEF ClientLeaves, connVars, acceptVars, ConnInv, AcceptInv
<1> QED BY <1>1, <1>2, <1>3, <1>4 DEF ConnNext, SockInv

LEMMA BytesKeep ==
  ASSUME SocketsAssumption, SockInv, ByteNext
  PROVE  SockInv'
<1>0. ConnInv /\ AcceptInv /\ ByteInv /\ PairInv
  BY DEF SockInv
<1>1. ConnInv' /\ AcceptInv' /\ PairInv'
  BY <1>0 DEF ByteNext, connVars, acceptVars, pairVars, ConnInv, AcceptInv, PairInv
<1>2. ASSUME WriteAll \/ ReadAll \/ ReadReturns PROVE ByteInv'
  <2>1. UNCHANGED <<wn, sentBefore, flight, received>>
    BY <1>2 DEF WriteAll, ReadAll, ReadReturns
  <2>2. /\ toSend' = toSend \/ (toSend = 0 /\ toSend' \in Nat)
        /\ rn' \in {0, rn} /\ toRead' \in SockLens \cup {0, toRead}
    BY <1>2, SocketsAssumption DEF WriteAll, ReadAll, ReadReturns, SocketsAssumption
  <2>3. toSend' \in Nat /\ wn <= toSend' /\ rn' \in Nat /\ toRead' \in Nat
    BY <1>0, <2>2, SocketsAssumption DEF SocketsAssumption, ByteInv
  <2>4. BytesInOrder'
    BY <1>0, <2>1 DEF ByteInv, BytesInOrder
  <2> QED BY <1>0, <2>1, <2>3, <2>4 DEF ByteInv
<1>3. ASSUME WriteReturns PROVE ByteInv'
  <2>1. sentBefore' = sentBefore + wn /\ toSend' = 0 /\ wn' = 0
        /\ UNCHANGED <<rn, toRead, flight, received>>
    BY <1>0, <1>3 DEF WriteReturns, ByteInv
  <2>2. sentBefore' + wn' = sentBefore + wn
    BY <1>0, <2>1 DEF ByteInv
  <2> QED BY <1>0, <2>1, <2>2 DEF ByteInv, BytesInOrder
<1>4. ASSUME WriteSome PROVE ByteInv'
  <2>1. PICK k \in 1 .. LeftToSend :
          /\ wn < toSend /\ wn' = wn + k
          /\ flight' = flight \o [i \in 1 .. k |-> sentBefore + wn + i]
          /\ UNCHANGED <<toSend, rn, toRead, sentBefore, received>>
    BY <1>4 DEF WriteSome
  <2> DEFINE n == sentBefore + wn
             more == [i \in 1 .. k |-> sentBefore + wn + i]
  <2>2. n \in Nat /\ k \in Nat /\ wn + k <= toSend
    BY <1>0, <2>1 DEF ByteInv, LeftToSend
  <2>3. more \in Seq(Int)
    BY <2>2
  <2>4. received \o (flight \o more) = (received \o flight) \o more
    BY <1>0, <2>3, ConcatAssociative DEF ByteInv
  <2>5. (received \o flight) \o more = [i \in 1 .. n + k |-> i]
    BY <1>0, <2>2, NumbersGrow DEF ByteInv, BytesInOrder
  <2>6. flight \o more \in Seq(Int)
    BY <1>0, <2>3, ConcatProperties DEF ByteInv
  <2>7. sentBefore' + wn' = n + k
    BY <1>0, <2>1, <2>2 DEF ByteInv
  <2>8. BytesInOrder'
    BY <2>1, <2>4, <2>5, <2>7 DEF BytesInOrder
  <2> QED BY <1>0, <2>1, <2>2, <2>6, <2>8 DEF ByteInv
<1>5. ASSUME ReadSome PROVE ByteInv'
  <2>1. PICK k \in 1 .. toRead - rn :
          /\ k <= Len(flight) /\ rn' = rn + k
          /\ received' = received \o SubSeq(flight, 1, k)
          /\ flight' = SubSeq(flight, k + 1, Len(flight))
          /\ UNCHANGED <<wn, toSend, toRead, sentBefore>>
    BY <1>5 DEF ReadSome
  <2>2. k \in 0 .. Len(flight)
    BY <1>0, <2>1, LenProperties DEF ByteInv
  <2> DEFINE front == SubSeq(flight, 1, k)
             back == SubSeq(flight, k + 1, Len(flight))
  <2>3. front \in Seq(Int) /\ back \in Seq(Int) /\ front \o back = flight
    BY <1>0, <2>2, CutInTwo DEF ByteInv
  <2>4. (received \o front) \o back = received \o flight /\ received \o front \in Seq(Int)
    <3>1. received \in Seq(Int)
      BY <1>0 DEF ByteInv
    <3>2. ASSUME NEW f \in Seq(Int), NEW b \in Seq(Int)
          PROVE  received \o f \in Seq(Int) /\ (received \o f) \o b = received \o (f \o b)
      BY <3>1, JoinThree, SMTT(40)
    <3> HIDE DEF front, back
    <3> QED BY <2>3, <3>2, Zenon
  <2>5. BytesInOrder'
    BY <1>0, <2>1, <2>4 DEF ByteInv, BytesInOrder
  <2>6. rn' \in Nat
    BY <1>0, <2>1, <2>2 DEF ByteInv
  <2> QED BY <1>0, <2>1, <2>3, <2>4, <2>5, <2>6 DEF ByteInv
<1> QED BY <1>1, <1>2, <1>3, <1>4, <1>5 DEF ByteNext, SockInv

LEMMA PairKeeps ==
  ASSUME SockInv, PairNext
  PROVE  SockInv'
<1>0. ConnInv /\ AcceptInv /\ ByteInv /\ PairInv
  BY DEF SockInv
<1>1. ConnInv' /\ AcceptInv' /\ ByteInv'
  BY <1>0 DEF PairNext, connVars, acceptVars, byteVars, ConnInv, AcceptInv, ByteInv, BytesInOrder
<1>2. ASSUME SocketPair PROVE PairInv'
  BY <1>0, <1>2 DEF SocketPair, PairInv
<1>3. ASSUME PairFails \/ PairClosed PROVE PairInv'
  BY <1>0, <1>3 DEF PairFails, PairClosed, PairInv
<1>4. ASSUME PairStep PROVE PairInv'
  <2>1. ASSUME NEW f \in PairFds, PairGoes("first", "second"), NewSocket(f),
               pairOpen' = pairOpen \cup {f}, pair' = [pair EXCEPT ![1] = f],
               UNCHANGED <<peer, pairType>>
        PROVE  PairInv'
    BY <1>0, <2>1 DEF PairGoes, NewSocket, PairInv
  <2>2. ASSUME NEW f \in PairFds, PairGoes("second", "names"), NewSocket(f),
               pairOpen' = pairOpen \cup {f}, pair' = [pair EXCEPT ![2] = f],
               UNCHANGED <<peer, pairType>>
        PROVE  PairInv'
    BY <1>0, <2>2 DEF PairGoes, NewSocket, PairInv
  <2>3. ASSUME PairGoes("names", "connect"), UNCHANGED <<pairOpen, pair, pairType>>,
               peer' = IF pairType = "stream" THEN peer ELSE [peer EXCEPT ![pair[1]] = pair[2]]
        PROVE  PairInv'
    BY <1>0, <2>3 DEF PairGoes, PairInv
  <2>4. ASSUME PairGoes("connect", IF pairType = "stream" THEN "accept" ELSE "done"),
               UNCHANGED <<pairOpen, pair, pairType>>,
               peer' = [peer EXCEPT ![pair[2]] = pair[1]]
        PROVE  PairInv'
    BY <1>0, <2>4 DEF PairGoes, PairInv
  <2>5. ASSUME NEW f \in PairFds, PairGoes("accept", "options"), NewSocket(f), Accepted(f),
               pair' = <<f, pair[2]>>, peer' = Joined(f, pair[2]), UNCHANGED pairType
        PROVE  PairInv'
    <3>1. /\ pairOpen = {pair[1], pair[2]} /\ pair[1] # pair[2] /\ pair[2] \in PairFds
          /\ f # pair[2]
      BY <1>0, <2>5 DEF PairGoes, NewSocket, PairInv
    <3>2. pairOpen' = {pair'[1], pair'[2]} /\ pair'[1] # pair'[2] /\ DOMAIN pair' = 1 .. 2
          /\ pairOpen' \subseteq PairFds
      BY <2>5, <3>1 DEF Accepted
    <3>3. /\ peer' \in [PairFds -> PairFds \cup {NoSockfd}]
          /\ peer'[pair'[1]] = pair'[2] /\ peer'[pair'[2]] = pair'[1]
      BY <1>0, <2>5, <3>1 DEF Joined, PairInv
    <3> QED BY <2>5, <3>2, <3>3 DEF PairGoes, PairInv
  <2>6. ASSUME PairGoes("options", "done"), UNCHANGED <<pairOpen, pair, peer, pairType>>
        PROVE  PairInv'
    BY <1>0, <2>6 DEF PairGoes, PairInv
  <2>7. \A i \in 1 .. 2 : i = 1 \/ i = 2
    OBVIOUS
  <2> QED BY <1>4, <2>1, <2>2, <2>3, <2>4, <2>5, <2>6, <2>7 DEF PairStep
<1> QED BY <1>1, <1>2, <1>3, <1>4 DEF PairNext, SockInv

\* A call gives all it promises, or says how far it came and leaves nothing behind,
\* for any number of threads, descriptors and bytes (socket.c:755-770, 846-926,
\* 999-1027).
THEOREM SocketCallsKeepTheirWord == SockSpec => []CallsKeepTheirWord
<1>1. SockInv => CallsKeepTheirWord
  <2> SUFFICES ASSUME SockInv PROVE CallsKeepTheirWord
    OBVIOUS
  <2>1. TimedCallsKeepTheirWord
    BY DEF SockInv, ConnInv, AcceptInv, TimedCallsKeepTheirWord
  <2>2. PairIsWhole
    <3>1. pair[1] # pair[2] => Cardinality({pair[1], pair[2]}) = 2
      <4>1. {pair[1], pair[2]} = {pair[1]} \cup {pair[2]}
        OBVIOUS
      <4>2. /\ IsFiniteSet({pair[1]}) /\ Cardinality({pair[1]}) = 1
            /\ pair[2] \in {pair[1]} <=> pair[1] = pair[2]
        BY FS_Singleton
      <4>3. pair[1] # pair[2] => Cardinality({pair[1]} \cup {pair[2]}) = 1 + 1
        BY <4>2, FS_AddElement
      <4> QED BY <4>1, <4>3
    <3> QED BY <3>1 DEF SockInv, PairInv, PairIsWhole
  <2>3. BytesInOrder
    BY DEF SockInv, ByteInv
  <2> QED BY <2>1, <2>2, <2>3 DEF CallsKeepTheirWord
<1>2. SocketsAssumption /\ SockInv /\ [ConnNext \/ ByteNext \/ PairNext]_sockVars => SockInv'
  <2>1. ASSUME SockInv, UNCHANGED sockVars PROVE SockInv'
    BY <2>1 DEF SockInv, sockVars, connVars, acceptVars, byteVars, pairVars,
                ConnInv, AcceptInv, ByteInv, BytesInOrder, PairInv
  <2> QED BY <2>1, ConnKeeps, BytesKeep, PairKeeps
<1> QED BY <1>1, <1>2, SocketsAssumption, SockInitInv, PTL DEF SockSpec
=============================================================================
