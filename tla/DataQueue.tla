------------------------------ MODULE DataQueue ------------------------------
(***************************************************************************)
(* components/source/utils/dataqueue.c: a list under a lock, with a        *)
(* condition variable that is signalled when the list stops being empty,   *)
(* and a wake-up flag that is exchanged outside the lock.                  *)
(*                                                                         *)
(* Nothing waits inside a critical section but PopWait in its condition    *)
(* variable, so a critical section is one action, cut in two where PopWait *)
(* waits.  A waiting consumer leaves the condition variable because it was *)
(* signalled (or woke for no reason, as POSIX allows), or because its msec *)
(* ran out; either way it needs the lock again before it goes on.          *)
(***************************************************************************)
EXTENDS Integers, Sequences, FiniteSets

CONSTANTS Consumers, Wakers,    \* threads in PopWait and in Wake
          Timed,                \* the consumers that pass msec >= 0
          Askings,              \* the sets of expect_cnt a program may pass
          All,                  \* ~0, "everything"
          MaxItems,             \* bound on the items ever pushed
          MaxBatch              \* bound on the length of a pushed list

ASSUME QueueAssumption ==
  /\ Timed \subseteq Consumers
  /\ IsFiniteSet(Consumers)
  /\ MaxItems \in Nat /\ MaxBatch \in Nat
  /\ \A counts \in Askings : counts # {} /\ counts \subseteq (Nat \ {0}) \cup {All}
  /\ All \notin Nat

VARIABLES active,    \* the consumers this program has: fixed from the start
          asks,      \* the counts they pass: fixed from the start
          list,      \* m_datalist: the items are numbered as they are pushed
          wakeup,    \* m_wakeup
          cst,       \* consumer: "out" | "waiting" | "signalled" | "timedout"
          want,      \* the expect_cnt of the call it is in
          wst,       \* waker: "out" | "signalling"
          pushed,    \* how many items were pushed
          out        \* the items popped, in order

program == <<active, asks>>
vars == <<program, list, wakeup, cst, want, wst, pushed, out>>

Init ==
  /\ active \in SUBSET Consumers \ {{}} /\ asks \in Askings
  /\ list = <<>> /\ wakeup = 0
  /\ cst = [c \in Consumers |-> "out"]
  /\ want = [c \in Consumers |-> All]
  /\ wst = [w \in Wakers |-> "out"]
  /\ pushed = 0 /\ out = <<>>

Waiting == {c \in Consumers : cst[c] = "waiting"}

\* conditionvariableSignal releases one waiting thread, if there is one.
Signal == IF Waiting = {} THEN UNCHANGED cst
          ELSE \E c \in Waiting : cst' = [cst EXCEPT ![c] = "signalled"]

-----------------------------------------------------------------------------

\* Mutant: a push never signals.
MustSignalNever == FALSE

\* The condition under which a push signals.
MustSignal == list = <<>>

\* Mutant: the new nodes go in at the front.
PushFront ==
  \E k \in 1 .. MaxBatch :
    /\ pushed + k <= MaxItems
    /\ list' = [j \in 1 .. k |-> pushed + j] \o list
    /\ pushed' = pushed + k
    /\ IF MustSignal THEN Signal ELSE UNCHANGED cst
    /\ UNCHANGED <<wakeup, want, wst, out>>

\* dataqueuePush appends one node, dataqueuePushList a list of them; an empty
\* list is ignored.
Push ==
  \E k \in 1 .. MaxBatch :
    /\ pushed + k <= MaxItems
    /\ list' = list \o [j \in 1 .. k |-> pushed + j]
    /\ pushed' = pushed + k
    /\ IF MustSignal THEN Signal ELSE UNCHANGED cst
    /\ UNCHANGED <<wakeup, want, wst, out>>

\* How many nodes the cursor loop of PopWait passes before it splits the list.
Taken(k) == IF k = All \/ k >= Len(list) THEN Len(list) ELSE k

\* Mutant: the node after the cursor is lost in the split.
TakeFrontLoses(k) == /\ out' = out \o SubSeq(list, 1, k)
                     /\ list' = SubSeq(list, k + 2, Len(list))

\* listSplitByTail: the front part goes to the caller.
TakeFront(k) == /\ out' = out \o SubSeq(list, 1, k)
                /\ list' = SubSeq(list, k + 1, Len(list))

\* The loop condition of PopWait: the flag is taken only when the list is empty.
\* Then it waits, or leaves the loop and takes what was asked for.
TestAndPop(c, k) ==
  IF list = <<>> /\ wakeup = 0
    THEN /\ cst' = [cst EXCEPT ![c] = "waiting"]
         /\ UNCHANGED <<list, wakeup, out>>
    ELSE /\ wakeup' = IF list = <<>> THEN 0 ELSE wakeup
         /\ TakeFront(Taken(k))
         /\ cst' = [cst EXCEPT ![c] = "out"]

\* dataqueuePopWait is called.
PopEnter(c) ==
  /\ c \in active /\ cst[c] = "out"
  /\ \E k \in asks : want' = [want EXCEPT ![c] = k] /\ TestAndPop(c, k)
  /\ UNCHANGED <<wst, pushed>>

\* A signalled consumer has the lock again and tests again.
PopAgain(c) ==
  /\ cst[c] = "signalled"
  /\ TestAndPop(c, want[c])
  /\ UNCHANGED <<want, wst, pushed>>

\* A consumer whose time is over leaves the loop whatever there is.
PopTimedOut(c) ==
  /\ cst[c] = "timedout"
  /\ TakeFront(Taken(want[c]))
  /\ cst' = [cst EXCEPT ![c] = "out"]
  /\ UNCHANGED <<wakeup, want, wst, pushed>>

WakesUp(c) ==
  /\ cst[c] = "waiting"
  /\ \/ cst' = [cst EXCEPT ![c] = "signalled"]
     \/ c \in Timed /\ cst' = [cst EXCEPT ![c] = "timedout"]
  /\ UNCHANGED <<list, wakeup, want, wst, pushed, out>>

\* Mutant: the wake-ups are counted.
WakeFlagCounts(w) ==
  /\ wst[w] = "out"
  /\ wakeup' = wakeup + 1
  /\ wst' = [wst EXCEPT ![w] = IF wakeup = 1 THEN "out" ELSE "signalling"]
  /\ UNCHANGED <<list, cst, want, pushed, out>>

\* dataqueueWake raises the flag without the lock; the one that raised it goes
\* on to signal, under the lock.
WakeFlag(w) ==
  /\ wst[w] = "out"
  /\ wakeup' = 1
  /\ wst' = [wst EXCEPT ![w] = IF wakeup = 1 THEN "out" ELSE "signalling"]
  /\ UNCHANGED <<list, cst, want, pushed, out>>

\* Mutant: the flag alone.
WakeSignalNot(w) ==
  /\ wst[w] = "signalling"
  /\ wst' = [wst EXCEPT ![w] = "out"]
  /\ UNCHANGED <<list, wakeup, cst, want, pushed, out>>

WakeSignal(w) ==
  /\ wst[w] = "signalling"
  /\ Signal
  /\ wst' = [wst EXCEPT ![w] = "out"]
  /\ UNCHANGED <<list, wakeup, want, pushed, out>>

\* dataqueueClean takes everything and does not wait.
Clean == list # <<>> /\ TakeFront(Len(list)) /\ UNCHANGED <<wakeup, cst, want, wst, pushed>>

Pop(c) == PopEnter(c) \/ PopAgain(c) \/ PopTimedOut(c)

Next == /\ \/ Push \/ Clean
           \/ \E c \in Consumers : Pop(c) \/ WakesUp(c)
           \/ \E w \in Wakers : WakeFlag(w) \/ WakeSignal(w)
        /\ UNCHANGED program

Spec == Init /\ [][Next]_vars

-----------------------------------------------------------------------------

TypeOK ==
  /\ active \subseteq Consumers /\ asks \in Askings
  /\ list \in Seq(1 .. MaxItems)
  /\ wakeup \in {0, 1}
  /\ cst \in [Consumers -> {"out", "waiting", "signalled", "timedout"}]
  /\ want \in [Consumers -> asks \cup {All}]
  /\ wst \in [Wakers -> {"out", "signalling"}]
  /\ pushed \in 0 .. MaxItems
  /\ out \in Seq(1 .. MaxItems)

\* Whatever the consumers ask for and however their waits end, what was popped
\* followed by what is queued is everything that was pushed, once and in order
\* (dataqueue.c:78-89).
Conserved == out \o list = [j \in 1 .. pushed |-> j]

\* Signalling only when the list was empty is enough: while there are items, a
\* consumer is asleep only if another is already on its way to take them
\* (dataqueue.c:36-40).  This needs one consumer, or consumers that take all:
\* two that take some at a time can sleep over the rest.
OneSignalIsEnough == Cardinality(active) = 1 \/ asks = {All}

NoSleepWithWork ==
  (OneSignalIsEnough /\ list # <<>> /\ Waiting # {}) =>
    \E c \in Consumers : cst[c] \in {"signalled", "timedout"}

\* A wake-up is not lost between the flag and the signal: once Wake has
\* returned, the flag it raised is not standing while the only consumer sleeps,
\* even when a second Wake found it raised and left (dataqueue.c:70, 96-102).
WakeNotLost ==
  (Cardinality(active) = 1 /\ wakeup = 1 /\ \A w \in Wakers : wst[w] = "out") => Waiting = {}

\* Nothing that was put in the queue, item or wake-up, is lost or slept over.
NothingLeftBehind == TypeOK /\ Conserved /\ NoSleepWithWork /\ WakeNotLost

\* Refinement: seen from outside it is a first-in first-out queue.
Fifo == INSTANCE FifoQueue WITH q <- list, Item <- 1 .. MaxItems
IsFifo == Fifo!Spec

\* Every item pushed is popped in the end, by consumers that come back, however
\* few they take at a time.
AllDelivered == \A k \in 1 .. MaxItems : pushed >= k ~> Len(out) >= k

\* The only consumer's wait, even one without a time limit, ends after a Wake.
WakeEndsWait ==
  \A c \in Consumers :
    (active = {c} /\ wakeup = 1 /\ cst[c] = "waiting") ~> cst[c] = "out"

=============================================================================
