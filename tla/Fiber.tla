------------------------------- MODULE Fiber -------------------------------
(***************************************************************************)
(* components/source/sysapi/process.c: fibers on POSIX systems.            *)
(* makecontext passes a new fiber no pointer, so fiberCreate leaves it in  *)
(* a global under a spin lock, runs the fiber until it has read it and has *)
(* released the lock, and is run again by the fiber.                       *)
(*                                                                         *)
(* A suspended fiber goes on where its context says: behind the swap in    *)
(* fiberCreate ("create"), in its entry ("entry"), or in the code of the   *)
(* program ("program").  As in every program that uses it, only fibers of  *)
(* the own thread are switched to and freed, and entries do not return.    *)
(* The steps are those of the x86 build, where the exchange that releases  *)
(* the lock is a full barrier.                                             *)
(***************************************************************************)
EXTENDS Integers, FiniteSets

CONSTANTS FbThreads, Fibers,    \* threads, and the fibers they may create
          NoFiber

ASSUME FiberAssumption == NoFiber \notin Fibers \cup FbThreads /\ Fibers \cap FbThreads = {}

\* A thread's own fiber, of fiberFromThread, has the thread's name.
AnyFiber == Fibers \cup FbThreads

VARIABLES fbLock, lastCreate,   \* __fiber_object_spinlock, __fiber_last_create_object
          ctx,                  \* m_ctx
          creater,              \* m_creater
          self,                 \* local of __fiber_start_routine: fiber
          fbAt, cur, making,    \* a thread's place, its current fiber, the local
                                \* fiber of its fiberCreate
          made_by               \* observed: the thread that created a fiber

fbVars == <<fbLock, lastCreate, ctx, creater, self, fbAt, cur, making, made_by>>

FbInit == /\ fbLock = 0 /\ lastCreate = NoFiber
          /\ ctx = [f \in AnyFiber |-> "none"]
          /\ creater = [f \in AnyFiber |-> NoFiber] /\ self = [f \in AnyFiber |-> NoFiber]
          /\ made_by = [f \in AnyFiber |-> NoFiber]
          /\ fbAt = [t \in FbThreads |-> "thread"] /\ cur = [t \in FbThreads |-> NoFiber]
          /\ making = [t \in FbThreads |-> NoFiber]

FbGo(t, from, to) == fbAt[t] = from /\ fbAt' = [fbAt EXCEPT ![t] = to]

FiberFromThread(t) ==
  /\ FbGo(t, "thread", "program") /\ cur' = [cur EXCEPT ![t] = t]
  /\ creater' = [creater EXCEPT ![t] = t] /\ made_by' = [made_by EXCEPT ![t] = t]
  /\ UNCHANGED <<fbLock, lastCreate, ctx, self, making>>

FiberCreate(t) ==
  \E f \in Fibers :
    /\ FbGo(t, "program", "spin") /\ made_by[f] = NoFiber
    /\ making' = [making EXCEPT ![t] = f] /\ made_by' = [made_by EXCEPT ![f] = t]
    /\ ctx' = [ctx EXCEPT ![f] = "start"] /\ creater' = [creater EXCEPT ![f] = cur[t]]
    /\ UNCHANGED <<fbLock, lastCreate, self, cur>>

\* Mutant: the result of the exchange is not looked at.
GetsLockAlways == fbLock' = 1

GetsLock == fbLock = 0 /\ fbLock' = 1

CreateSpin(t) == /\ FbGo(t, "spin", "locked") /\ GetsLock
                 /\ UNCHANGED <<lastCreate, ctx, creater, self, cur, making, made_by>>

CreateLeaves(t) ==
  /\ FbGo(t, "locked", "swap") /\ lastCreate' = making[t]
  /\ UNCHANGED <<fbLock, ctx, creater, self, cur, making, made_by>>

\* swapcontext: from's context is kept, to goes on where it was.
Swap(t, from, place, to) ==
  /\ ctx' = [ctx EXCEPT ![from] = place, ![to] = "running"]
  /\ cur' = [cur EXCEPT ![t] = to]
  /\ fbAt' = [fbAt EXCEPT ![t] = CASE ctx[to] = "start" -> "start"
                                   [] ctx[to] = "entry" -> "enter"
                                   [] OTHER -> "program"]

CreateSwaps(t) ==
  /\ fbAt[t] = "swap" /\ Swap(t, cur[t], "create", making[t])
  /\ UNCHANGED <<fbLock, lastCreate, creater, self, making, made_by>>

\* __fiber_start_routine
StartReads(t) ==
  /\ FbGo(t, "start", "read") /\ self' = [self EXCEPT ![cur[t]] = lastCreate]
  /\ UNCHANGED <<fbLock, lastCreate, ctx, creater, cur, making, made_by>>

StartUnlocks(t) ==
  /\ FbGo(t, "read", "back") /\ fbLock' = 0
  /\ UNCHANGED <<lastCreate, ctx, creater, self, cur, making, made_by>>

StartSwaps(t) ==
  LET fiber == self[cur[t]] IN
  /\ fbAt[t] = "back" /\ Swap(t, fiber, "entry", creater[fiber])
  /\ UNCHANGED <<fbLock, lastCreate, creater, self, making, made_by>>

\* m_entry is called.
StartEnters(t) ==
  /\ FbGo(t, "enter", "program")
  /\ UNCHANGED <<fbLock, lastCreate, ctx, creater, self, cur, making, made_by>>

FiberSwitch(t) ==
  \E to \in AnyFiber \ {cur[t]} :
    /\ fbAt[t] = "program" /\ made_by[to] = t /\ ctx[to] \in {"entry", "program"}
    /\ Swap(t, cur[t], "program", to)
    /\ UNCHANGED <<fbLock, lastCreate, creater, self, making, made_by>>

FiberFree(t) ==
  \E f \in Fibers \ {cur[t]} :
    /\ fbAt[t] = "program" /\ made_by[f] = t /\ ctx[f] \in {"entry", "program"}
    /\ ctx' = [ctx EXCEPT ![f] = "none"] /\ made_by' = [made_by EXCEPT ![f] = NoFiber]
    /\ self' = [self EXCEPT ![f] = NoFiber]
    /\ UNCHANGED <<fbLock, lastCreate, creater, fbAt, cur, making>>

FbNext == \E t \in FbThreads :
  \/ FiberFromThread(t) \/ FiberCreate(t) \/ CreateSpin(t) \/ CreateLeaves(t)
  \/ CreateSwaps(t) \/ StartReads(t) \/ StartUnlocks(t) \/ StartSwaps(t)
  \/ StartEnters(t) \/ FiberSwitch(t) \/ FiberFree(t)

FbSpec == FbInit /\ [][FbNext]_fbVars

-----------------------------------------------------------------------------
\* However the creations of several threads interleave, a fiber that has read the
\* global has its own object, so its entry is called with it and its creator,
\* on the thread that called fiberCreate, is the one that goes on; and no two
\* threads run on one stack (process.c:353-356, 421-424).
FibersAreThemselves ==
  /\ \A f \in Fibers : self[f] \in {f, NoFiber}
  /\ \A t \in FbThreads :
       /\ fbAt[t] # "thread" => made_by[cur[t]] = t
       /\ fbAt[t] \in {"read", "back"} => cur[t] = making[t]
       /\ fbAt[t] = "enter" => self[cur[t]] = cur[t]
=============================================================================
