-------------------------------- MODULE Nio --------------------------------
(***************************************************************************)
(* components/source/sysapi/io.c on Linux: a loop that waits for events of *)
(* its descriptors in epoll, and is woken by a byte in a socket pair, of   *)
(* which a flag keeps there from being two.                                *)
(*                                                                         *)
(* The loop and the threads that give it work are in the program that uses *)
(* the component; what is assumed of them: work is queued before           *)
(* nioWakeup; after each batch of events the loop takes the work there is; *)
(* after the events of a descriptor the loop commits it for reading again, *)
(* or closes it; it may commit any other descriptor meanwhile.             *)
(*                                                                         *)
(* Descriptors are registered with EPOLLET | EPOLLONESHOT: an event        *)
(* disarms the descriptor, and a commit arms it with all it is for.  Which *)
(* armed events happen, and when, is up to the peers.                      *)
(***************************************************************************)
EXTENDS Integers, FiniteSets

CONSTANTS Fds,
          Pushers,              \* the threads that give the loop work
          NioMaxPushes          \* bound on the work given

WakeFd == "socketpair"

ASSUME NioAssumption == NioMaxPushes \in Nat /\ WakeFd \notin Fds

Ops == {"READ", "WRITE"}

VARIABLES made,                 \* nioCreate has opened epoll and the socket pair
          eventMask,            \* *ptr_event_mask, which the caller keeps
          armed,                \* epoll: what a descriptor is armed for
          opened,               \* the descriptors that are open
          events,               \* the events of nioWait the loop has not handled
          loopAt,               \* "handling" | "waiting" | "clearing"
          nioBytes, nioWakeup,  \* bytes in the socket pair; __wakeup
          pushAt,               \* pusher: "out" | "pushed" | "flagged"
          work, pushes          \* work that waits for the loop; that was given

nioVars == <<made, eventMask, armed, opened, events, loopAt,
             nioBytes, nioWakeup, pushAt, work, pushes>>
fdVars == <<eventMask, armed, opened>>
wakeVars == <<nioBytes, nioWakeup, pushAt, work, pushes>>

NioInit == /\ made = FALSE /\ eventMask = [f \in Fds |-> {}]
           /\ armed = [f \in Fds |-> {}] /\ opened = {}
           /\ events = {} /\ loopAt = "handling"
           /\ nioBytes = 0 /\ nioWakeup = 0 /\ work = 0 /\ pushes = 0
           /\ pushAt = [p \in Pushers |-> "out"]

\* nioCreate; when a step of it fails, what was opened is closed again.
NioCreate == /\ ~made /\ made' = TRUE /\ nioWakeup' = 0
             /\ UNCHANGED <<fdVars, events, loopAt, nioBytes, pushAt, work, pushes>>

NioClose == /\ made /\ opened = {} /\ loopAt = "handling" /\ events = {}
            /\ work = 0 /\ \A p \in Pushers : pushAt[p] = "out"
            /\ made' = FALSE /\ nioBytes' = 0
            /\ UNCHANGED <<fdVars, events, loopAt, nioWakeup, pushAt, work, pushes>>

-----------------------------------------------------------------------------
\* The operations of descriptors, by the loop's thread.

\* Mutant: armed only for what is asked for now.
InterestNow(mask, op) == {op}

\* What epoll is told: what the descriptor was already for, and op.
Interest(mask, op) == mask \cup {op}

\* nioCommit: EPOLL_CTL_MOD, or ADD if the descriptor is not known yet.
Commit(f, mask, op) ==
  /\ armed' = [armed EXCEPT ![f] = Interest(mask, op)]
  /\ eventMask' = [eventMask EXCEPT ![f] = mask \cup {op}]

\* A new descriptor is committed for reading or accepting, or to connect.
Opens(f) ==
  /\ made /\ loopAt = "handling" /\ f \notin opened /\ opened' = opened \cup {f}
  /\ \E op \in Ops : Commit(f, {}, op)
  /\ UNCHANGED <<made, events, loopAt, wakeVars>>

\* It fails when epoll_ctl does; then nothing is changed.
CommitWrite(f) ==
  /\ made /\ loopAt = "handling" /\ f \in opened
  /\ Commit(f, eventMask[f], "WRITE")
  /\ UNCHANGED <<made, opened, events, loopAt, wakeVars>>

\* Closing a descriptor takes it out of epoll.
Closes(f) == /\ opened' = opened \ {f}
             /\ eventMask' = [eventMask EXCEPT ![f] = {}]
             /\ armed' = [armed EXCEPT ![f] = {}]

\* nioEventOpcode: the mask that is left.  A hang-up clears it.
MaskAfter(mask, ev) == IF "HUP" \in ev THEN {} ELSE mask \ ev

\* What the loop does with a descriptor's event; it also closes it when it cannot
\* be committed.
HandleEvent ==
  \E e \in events :
    /\ loopAt = "handling" /\ e.fd \in Fds /\ events' = events \ {e}
    /\ \/ Commit(e.fd, MaskAfter(eventMask[e.fd], e.ev), "READ") /\ UNCHANGED opened
       \/ Closes(e.fd)
    /\ UNCHANGED <<made, loopAt, wakeVars>>

-----------------------------------------------------------------------------
\* The wake-up: nioEventOverlappedCheck reads the bytes, and then clears the flag.

\* Mutant: the flag is cleared before the bytes are read.
WakeCheckSwapped(first) == IF first THEN nioWakeup' = 0 /\ UNCHANGED nioBytes
                                    ELSE nioBytes' = 0 /\ UNCHANGED nioWakeup

WakeCheck(first) == IF first THEN nioBytes' = 0 /\ UNCHANGED nioWakeup
                             ELSE nioWakeup' = 0 /\ UNCHANGED nioBytes

HandleWake ==
  /\ \/ /\ loopAt = "handling" /\ loopAt' = "clearing" /\ WakeCheck(TRUE)
        /\ \E e \in events : e.fd = WakeFd /\ events' = events \ {e}
     \/ /\ loopAt = "clearing" /\ loopAt' = "handling" /\ WakeCheck(FALSE)
        /\ UNCHANGED events
  /\ UNCHANGED <<made, fdVars, pushAt, work, pushes>>

TakeWork == /\ made /\ loopAt = "handling" /\ events = {} /\ loopAt' = "waiting"
            /\ work' = 0
            /\ UNCHANGED <<made, fdVars, events, nioBytes, nioWakeup, pushAt, pushes>>

\* nioWait returns some of what is ready: events of these descriptors, and the
\* byte.
LoopWaits(fs, woken) ==
  /\ loopAt = "waiting" /\ loopAt' = "handling"
  /\ fs # {} \/ woken
  /\ woken => nioBytes > 0
  /\ \E ev \in [fs -> (SUBSET Ops \cup {{"HUP"}}) \ {{}}] :
       /\ \A f \in fs : armed[f] # {} /\ ev[f] \subseteq armed[f] \cup {"HUP"}
       /\ events' = {[fd |-> f, ev |-> ev[f]] : f \in fs}
                      \cup {e \in {[fd |-> WakeFd, ev |-> {}]} : woken}
  /\ armed' = [f \in Fds |-> IF f \in fs THEN {} ELSE armed[f]]
  /\ UNCHANGED <<made, eventMask, opened, wakeVars>>

-----------------------------------------------------------------------------
\* The other threads: they queue work and call nioWakeup.

PushWork(p) ==
  /\ made /\ pushes < NioMaxPushes
  /\ pushAt[p] = "out" /\ pushAt' = [pushAt EXCEPT ![p] = "pushed"]
  /\ work' = work + 1 /\ pushes' = pushes + 1
  /\ UNCHANGED <<made, fdVars, events, loopAt, nioBytes, nioWakeup>>

RaiseFlag(p) ==
  /\ pushAt[p] = "pushed" /\ nioWakeup' = 1
  /\ pushAt' = [pushAt EXCEPT ![p] = IF nioWakeup = 0 THEN "flagged" ELSE "out"]
  /\ UNCHANGED <<made, fdVars, events, loopAt, nioBytes, work, pushes>>

WriteByte(p) ==
  /\ pushAt[p] = "flagged" /\ pushAt' = [pushAt EXCEPT ![p] = "out"]
  /\ nioBytes' = nioBytes + 1
  /\ UNCHANGED <<made, fdVars, events, loopAt, nioWakeup, work, pushes>>

Handles == HandleEvent \/ HandleWake \/ TakeWork
Wakes(p) == RaiseFlag(p) \/ WriteByte(p)

NioNext == \/ NioCreate \/ NioClose \/ Handles
           \/ \E fs \in SUBSET Fds, woken \in BOOLEAN : LoopWaits(fs, woken)
           \/ \E f \in Fds : Opens(f) \/ CommitWrite(f)
           \/ \E p \in Pushers : PushWork(p) \/ Wakes(p)

NioSpec == NioInit /\ [][NioNext]_nioVars

-----------------------------------------------------------------------------
\* While the loop sleeps, epoll has every descriptor armed for all that its mask
\* says: although an event disarms it whole, the events of a batch are handled
\* in any order, and a descriptor may be committed between its event and the
\* handling of it (io.c:528-573, 699-714).
InterestKept == loopAt = "waiting" => \A f \in Fds : eventMask[f] \subseteq armed[f]

\* No wake-up is lost, whatever the order of flag, byte and work, between several
\* threads and the loop: while it sleeps over work, the byte that wakes it is
\* there, or a thread that has not come to write it is on its way
\* (io.c:631-640, 668-673).
NoWorkIsMissed ==
  loopAt = "waiting" /\ work > 0 =>
    nioBytes > 0 \/ \E p \in Pushers : pushAt[p] \in {"pushed", "flagged"}

\* The loop sleeps only when all it waits for can wake it: what was committed,
\* and work (io.c:528-573, 631-673).
NothingIsMissed == InterestKept /\ NoWorkIsMissed
=============================================================================
