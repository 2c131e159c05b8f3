-------------------------------- MODULE Iocp --------------------------------
(***************************************************************************)
(* components/source/sysapi/io.c on Windows: operations whose state, an    *)
(* "overlapped", the kernel writes to from the commit until its completion *)
(* is queued.  Freeing one meanwhile only marks it; the loop frees it when *)
(* the completion comes.                                                   *)
(*                                                                         *)
(* One thread, the program's loop, makes all calls.  Buffers and addresses *)
(* are left out; an operation ends with a number of bytes.                 *)
(***************************************************************************)
EXTENDS Integers, FiniteSets

CONSTANTS Ol,                   \* overlappeds, each allocated once
          IoSockets,            \* bound: the sockets AcceptEx may be given
          NoSocket              \* INVALID_SOCKET

ASSUME IocpAssumption == NoSocket \notin IoSockets

Opcodes == {"READ", "WRITE", "ACCEPT", "CONNECT"}

VARIABLES mem,                  \* "none" | "malloc" | "freed"; a use after free shows
          opcode, commit, freeLater,    \* the fields of IocpOverlapped
          acceptsocket,
          transferred,          \* dwNumberOfBytesTransferred
          kernel,               \* "idle" | "pending" | "queued": the kernel's view
          moved,                \* the bytes of the queued completion
          hold,                 \* the caller still has it, and will free it
          sock                  \* a socket is "none" | "open" | "given" | "closed" |
                                \* "twice", closed after it was given or closed

iocpVars == <<mem, opcode, commit, freeLater, acceptsocket, transferred,
              kernel, moved, hold, sock>>

IocpInit == /\ mem = [o \in Ol |-> "none"] /\ opcode = [o \in Ol |-> "READ"]
            /\ commit = [o \in Ol |-> FALSE] /\ freeLater = [o \in Ol |-> FALSE]
            /\ acceptsocket = [o \in Ol |-> NoSocket]
            /\ transferred = [o \in Ol |-> 0] /\ moved = [o \in Ol |-> 0]
            /\ kernel = [o \in Ol |-> "idle"] /\ hold = [o \in Ol |-> FALSE]
            /\ sock = [s \in IoSockets |-> "none"]

\* nioAllocOverlapped
AllocOverlapped(o) ==
  \E op \in Opcodes :
    /\ mem[o] = "none" /\ mem' = [mem EXCEPT ![o] = "malloc"]
    /\ opcode' = [opcode EXCEPT ![o] = op] /\ hold' = [hold EXCEPT ![o] = TRUE]
    /\ UNCHANGED <<commit, freeLater, acceptsocket, transferred, kernel, moved, sock>>

\* closesocket
SockAfterClose(s) == IF s = NoSocket THEN sock
                     ELSE [sock EXCEPT ![s] = IF @ = "open" THEN "closed" ELSE "twice"]

\* Mutant: freed at once.
FreeOverlappedNow(o) ==
  /\ hold[o] /\ hold' = [hold EXCEPT ![o] = FALSE]
  /\ sock' = SockAfterClose(acceptsocket[o])
  /\ acceptsocket' = [acceptsocket EXCEPT ![o] = NoSocket]
  /\ mem' = [mem EXCEPT ![o] = "freed"]
  /\ UNCHANGED <<opcode, commit, freeLater, transferred, kernel, moved>>

\* nioFreeOverlapped
FreeOverlapped(o) ==
  /\ hold[o] /\ hold' = [hold EXCEPT ![o] = FALSE]
  /\ sock' = SockAfterClose(acceptsocket[o])
  /\ acceptsocket' = [acceptsocket EXCEPT ![o] = NoSocket]
  /\ IF commit[o] THEN freeLater' = [freeLater EXCEPT ![o] = TRUE] /\ UNCHANGED mem
                  ELSE mem' = [mem EXCEPT ![o] = "freed"] /\ UNCHANGED freeLater
  /\ UNCHANGED <<opcode, commit, transferred, kernel, moved>>

\* The call is made, or fails at once.  Either way of succeeding queues a
\* completion.
Issues(o) == /\ kernel' = [kernel EXCEPT ![o] = "pending"]
             /\ commit' = [commit EXCEPT ![o] = TRUE]
Refused == UNCHANGED <<kernel, commit>>

\* AcceptEx needs a socket, which a refused call closes again; socket() may fail.
CommitAccept(o) ==
  \/ UNCHANGED <<kernel, commit, acceptsocket, sock>>
  \/ \E s \in IF acceptsocket[o] # NoSocket THEN {acceptsocket[o]}
              ELSE {t \in IoSockets : sock[t] = "none"} :
       \/ /\ Issues(o) /\ sock' = [sock EXCEPT ![s] = "open"]
          /\ acceptsocket' = [acceptsocket EXCEPT ![o] = s]
       \/ /\ Refused /\ acceptsocket' = [acceptsocket EXCEPT ![o] = NoSocket]
          /\ sock' = [sock EXCEPT ![s] = IF @ \in {"none", "open"} THEN "closed" ELSE "twice"]

\* nioCommit of one that is committed changes nothing.
CommitOverlapped(o) ==
  /\ hold[o] /\ ~commit[o]
  /\ IF opcode[o] = "ACCEPT" THEN CommitAccept(o)
     ELSE (Issues(o) \/ Refused) /\ UNCHANGED <<acceptsocket, sock>>
  /\ UNCHANGED <<mem, opcode, freeLater, transferred, moved, hold>>

\* The kernel ends an operation, with some bytes or with an error.
Completes(o) ==
  \E n \in 0 .. 1 :
    /\ kernel[o] = "pending" /\ kernel' = [kernel EXCEPT ![o] = "queued"]
    /\ moved' = [moved EXCEPT ![o] = n]
    /\ UNCHANGED <<mem, opcode, commit, freeLater, acceptsocket, transferred, hold, sock>>

\* nioWait, nioEventOverlappedCheck; nioEventOpcode of one that the caller has.
OverlappedCheck(o) ==
  /\ kernel[o] = "queued" /\ kernel' = [kernel EXCEPT ![o] = "idle"]
  /\ IF freeLater[o]
       THEN mem' = [mem EXCEPT ![o] = "freed"] /\ UNCHANGED <<commit, transferred>>
       ELSE /\ commit' = [commit EXCEPT ![o] = FALSE] /\ UNCHANGED mem
            /\ transferred' = IF opcode[o] \in {"READ", "WRITE"}
                                THEN [transferred EXCEPT ![o] = moved[o]] ELSE transferred
  /\ UNCHANGED <<opcode, freeLater, acceptsocket, moved, hold, sock>>

\* nioAcceptFirst: the caller gets the socket, or it is closed.
AcceptFirst(o) ==
  /\ hold[o] /\ opcode[o] = "ACCEPT" /\ ~commit[o] /\ acceptsocket[o] # NoSocket
  /\ acceptsocket' = [acceptsocket EXCEPT ![o] = NoSocket]
  /\ \/ sock' = [sock EXCEPT ![acceptsocket[o]] = "given"]
     \/ sock' = SockAfterClose(acceptsocket[o])
  /\ UNCHANGED <<mem, opcode, commit, freeLater, transferred, kernel, moved, hold>>

IocpNext == \E o \in Ol :
  \/ AllocOverlapped(o) \/ FreeOverlapped(o) \/ CommitOverlapped(o)
  \/ Completes(o) \/ OverlappedCheck(o) \/ AcceptFirst(o)

IocpSpec == IocpInit /\ [][IocpNext]_iocpVars

-----------------------------------------------------------------------------
\* The kernel never writes to memory that was given back: an overlapped is freed
\* only when no operation has it, and then it is freed, whichever of the caller
\* and the completion comes last; nor has the kernel one that may be committed
\* again.  Every socket made for AcceptEx has one owner, and is closed once or
\* given to the caller (io.c:376-395, 445-468, 654-666, 776-790).
OverlappedsOwned ==
  /\ \A o \in Ol :
       /\ mem[o] = "freed" => kernel[o] = "idle" /\ ~hold[o]
       /\ mem[o] = "malloc" => hold[o] \/ (freeLater[o] /\ kernel[o] # "idle")
       /\ commit[o] /\ mem[o] = "malloc" <=> kernel[o] # "idle"
  /\ \A s \in IoSockets :
       /\ sock[s] # "twice"
       /\ sock[s] = "open" <=> Cardinality({o \in Ol : acceptsocket[o] = s}) = 1
=============================================================================
