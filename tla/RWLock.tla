------------------------------- MODULE RWLock -------------------------------
(***************************************************************************)
(* components/source/sysapi/ipc.c: the readers-writer lock built from      *)
(* three Windows events.  (On POSIX systems every call is handed to        *)
(* pthread_rwlock.)                                                        *)
(*                                                                         *)
(* An event is set or not; waiting for write_ev or wait_ev resets it, for  *)
(* read_ev does not.  Each system call is a step of its own, and so are the*)
(* accesses to the exclusive flag, which no event protects.  A critical    *)
(* section under wait_ev that cannot block is one step.                    *)
(***************************************************************************)
EXTENDS Integers, FiniteSets

CONSTANTS RwThreads,
          RwRounds          \* bound: how often a thread takes the lock

ASSUME RwAssumption == RwRounds \in Nat

VARIABLES readEv, writeEv, waitEv,      \* __read_ev, __write_ev, __wait_ev are set
          exclusiveLock, readCnt,       \* __exclusive_lock, __read_cnt
          rwAt,                         \* where a thread is
          rwLeft                        \* the rounds it has left

rwVars == <<readEv, writeEv, waitEv, exclusiveLock, readCnt, rwAt, rwLeft>>

\* rwlockCreate; when an event cannot be made the ones there are are closed,
\* and there is no lock.
RwInit == /\ readEv = TRUE /\ writeEv = TRUE /\ waitEv = TRUE
          /\ exclusiveLock = FALSE /\ readCnt = 0
          /\ rwAt = [t \in RwThreads |-> "out"]
          /\ rwLeft = [t \in RwThreads |-> RwRounds]

At(t, from, to) == rwAt[t] = from /\ rwAt' = [rwAt EXCEPT ![t] = to]

-----------------------------------------------------------------------------
\* rwlockLockRead: read_ev, wait_ev, and for the first reader write_ev while it
\* keeps wait_ev.

LockRead(t) == /\ rwLeft[t] > 0 /\ readEv /\ At(t, "out", "reading")
               /\ rwLeft' = [rwLeft EXCEPT ![t] = @ - 1]
               /\ UNCHANGED <<readEv, writeEv, waitEv, exclusiveLock, readCnt>>

\* Mutant: only a reader after the first needs the writers' event.
NeedsWriteEvLate == readCnt = 1

NeedsWriteEv == readCnt = 0

CountReader(t) ==
  /\ waitEv /\ readCnt' = readCnt + 1
  /\ IF NeedsWriteEv THEN waitEv' = FALSE /\ At(t, "reading", "first")
                     ELSE At(t, "reading", "reader") /\ UNCHANGED waitEv
  /\ UNCHANGED <<readEv, writeEv, exclusiveLock, rwLeft>>

FirstReader(t) == /\ writeEv /\ writeEv' = FALSE /\ At(t, "first", "reader")
                  /\ waitEv' = TRUE
                  /\ UNCHANGED <<readEv, exclusiveLock, readCnt, rwLeft>>

\* rwlockLockWrite.

LockWrite(t) == /\ rwLeft[t] > 0 /\ At(t, "out", "writing")
                /\ rwLeft' = [rwLeft EXCEPT ![t] = @ - 1]
                /\ readEv' = FALSE
                /\ UNCHANGED <<writeEv, waitEv, exclusiveLock, readCnt>>

TakeWriteEv(t) == /\ writeEv /\ writeEv' = FALSE /\ At(t, "writing", "taken")
                  /\ UNCHANGED <<readEv, waitEv, exclusiveLock, readCnt, rwLeft>>

SetExclusive(t) == /\ At(t, "taken", "writer") /\ exclusiveLock' = TRUE
                   /\ UNCHANGED <<readEv, writeEv, waitEv, readCnt, rwLeft>>

\* rwlockUnlock asks the flag who is leaving.

RwUnlock(t) == /\ rwAt[t] \in {"reader", "writer"}
               /\ rwAt' = [rwAt EXCEPT ![t] = IF exclusiveLock THEN "free" ELSE "leaving"]
               /\ exclusiveLock' = FALSE
               /\ UNCHANGED <<readEv, writeEv, waitEv, readCnt, rwLeft>>

FreeWriters(t) == /\ At(t, "free", "freed") /\ writeEv' = TRUE
                  /\ UNCHANGED <<readEv, waitEv, exclusiveLock, readCnt, rwLeft>>

\* Mutant: the readers are not let in again.
FreeReadersNot(t) == At(t, "freed", "out")
  /\ UNCHANGED <<readEv, writeEv, waitEv, exclusiveLock, readCnt, rwLeft>>

FreeReaders(t) == /\ At(t, "freed", "out") /\ readEv' = TRUE
                  /\ UNCHANGED <<writeEv, waitEv, exclusiveLock, readCnt, rwLeft>>

ReaderLeaves(t) == /\ waitEv /\ At(t, "leaving", "out") /\ readCnt' = readCnt - 1
                   /\ writeEv' = (writeEv \/ readCnt = 1)
                   /\ UNCHANGED <<readEv, waitEv, exclusiveLock, rwLeft>>

GoesOn(t) == \/ CountReader(t) \/ FirstReader(t)
             \/ TakeWriteEv(t) \/ SetExclusive(t)
             \/ RwUnlock(t) \/ FreeWriters(t) \/ FreeReaders(t) \/ ReaderLeaves(t)

RwNext == \E t \in RwThreads : LockRead(t) \/ LockWrite(t) \/ GoesOn(t)

RwSpec == RwInit /\ [][RwNext]_rwVars

-----------------------------------------------------------------------------
InState(where) == {t \in RwThreads : rwAt[t] \in where}

\* Whoever writes is alone, and a thread that leaves is taken for what it is: the
\* flag, read and written outside every event, is set exactly while a writer is
\* inside (ipc.c:345-387).
WritersExclude ==
  /\ InState({"taken", "writer", "free"}) # {} =>
       Cardinality(InState({"taken", "writer", "free", "reader", "leaving"})) = 1
  /\ exclusiveLock <=> InState({"writer"}) # {}

\* With the events set and reset in these orders by readers and writers that
\* pass each other, nobody waits for ever: a thread that has rounds left comes
\* out of each of them, and once all are out readers can come in again
\* (ipc.c:369-385).
LockLetsEverybodyIn ==
  \A t \in RwThreads :
    /\ rwAt[t] # "out" ~> rwAt[t] = "out"
    /\ [](InState({"out"}) = RwThreads => readEv)
=============================================================================
