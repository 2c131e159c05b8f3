----------------------------- MODULE TinyServer -----------------------------
(***************************************************************************)
(* TinyServer: the main thread of TinyServer.c with the select loop of     *)
(* ModuleManager.c and the processor and filter of Tools.c, one action per *)
(* system call or loop iteration, and the operator's "E" of                *)
(* ThreadsManager.c.  Loop counters keep their names and count from 0.     *)
(***************************************************************************)
EXTENDS TinyNet

CONSTANTS
  Junk,           \* a g_clients slot before it is written
  Garbage,        \* what the unwritten slot behind t_idxToRm may be read as
  SelectErrors    \* whether select() may fail (its result is only logged)

ASSUME ServerAssumption == Garbage \subseteq Int /\ SelectErrors \in BOOLEAN

D == INSTANCE DynArr WITH Val <- Fds

ListenFd == 0       \* _sock among the members of g_fdRead

Running == {"top", "select", "accept", "join", "filter", "body", "compact", "uninit"}

VARIABLES
  pc,          \* where the main thread is
  exitFlag,    \* s_exitFlag
  clients,     \* g_clients, a dynamic array of descriptors
  fdRead,      \* g_fdRead
  cSock,       \* _cSock between accept() and the insertion, 0 otherwise
  n,           \* the counter of the loop the thread is in
  cur,         \* the command whose body processor is reading
  toRm,        \* t_idxToRm
  cnt, ptr     \* t_cnt, t_ptr

srvVars == <<pc, exitFlag, clients, fdRead, cSock, n, cur, toRm, cnt, ptr>>

SrvTypeOK ==
  /\ pc \in Running \cup {"returned", "stopped", "killed"}
  /\ exitFlag \in BOOLEAN
  /\ D!IsDynArr(clients)
  /\ fdRead \subseteq Fds \cup {ListenFd}
  /\ cSock \in Fds \cup {0}
  /\ n \in Int
  /\ cur \in Requests \cup {"none"}
  /\ toRm \in Seq(Nat)
  /\ cnt \in Nat /\ ptr \in Nat

SrvInit ==
  /\ pc = "top" /\ exitFlag = FALSE
  /\ clients = D!InitZero
  /\ fdRead = {} /\ cSock = 0 /\ n = 0 /\ cur = "none"
  /\ toRm = <<>> /\ cnt = 0 /\ ptr = 0

Registered == {clients.buf[i] : i \in 0 .. clients.len - 1}

Up == pc \in Running

-----------------------------------------------------------------------------
(* The main loop: fdSetOperation, then selectInit up to select(). *)

\* Mutant: the clients are not put in the set.
WatchedListenOnly == {ListenFd}

Watched == Registered \cup {ListenFd}

LoopTop ==
  /\ pc = "top"
  /\ IF exitFlag THEN pc' = "uninit" /\ UNCHANGED fdRead
     ELSE pc' = "select" /\ fdRead' = Watched
  /\ UNCHANGED <<exitFlag, clients, cSock, n, cur, toRm, cnt, ptr, netVars>>

Readable(f) == IF f = ListenFd THEN backlog # <<>> ELSE in[fd[f]] # <<>>

\* The filter starts with an empty t_idxToRm.
GoFilter == pc' = "filter" /\ n' = 0 /\ toRm' = <<>>

\* select() leaves the readable descriptors, none when its second is over.
\* When it fails the set stays as it was built.
\* Mutant: no timeout, select() returns only with something to read.
SelectNoTimeout == /\ fdRead' = {f \in fdRead : Readable(f)}
                   /\ fdRead' # {}

SelectOutcome == \/ fdRead' = {f \in fdRead : Readable(f)}
                 \/ SelectErrors /\ UNCHANGED fdRead

Select ==
  /\ pc = "select"
  /\ SelectOutcome
  /\ IF ListenFd \in fdRead' THEN pc' = "accept" /\ UNCHANGED <<n, toRm>> ELSE GoFilter
  /\ UNCHANGED <<exitFlag, clients, cSock, cur, cnt, ptr, netVars>>

\* Mutant: the newest registered client is not told.
LastIndexButOne == clients.len - 2

LastIndex == clients.len - 1

\* accept() takes the lowest free descriptor and waits for a connection; with
\* the table full it fails, and the connection stays in the queue.
Accept ==
  /\ pc = "accept" /\ backlog # <<>>
  /\ fdRead' = fdRead \ {ListenFd}
  /\ IF OpenFds = Fds
       THEN GoFilter /\ UNCHANGED <<cSock, netVars>>
       ELSE LET f == CHOOSE x \in Fds \ OpenFds : \A y \in Fds \ OpenFds : x <= y
            IN  /\ fd' = [fd EXCEPT ![f] = Head(backlog)]
                /\ link' = [link EXCEPT ![Head(backlog)] = "accepted"]
                /\ backlog' = Tail(backlog)
                /\ cSock' = f
                /\ pc' = "join" /\ n' = LastIndex
                /\ UNCHANGED <<open, out, in, down, rst, toRm>>
  /\ UNCHANGED <<exitFlag, clients, cur, cnt, ptr>>

\* The process dies of SIGPIPE: the kernel closes all it held.
Killed ==
  /\ pc' = "killed"
  /\ ServerClose(OpenFds, TRUE)
  /\ UNCHANGED <<exitFlag, clients, fdRead, cSock, n, cur, toRm, cnt, ptr>>

\* One turn of the loop that tells the registered clients of the new one; what
\* send() returns is ignored.
JoinSend ==
  /\ pc = "join" /\ n >= 0
  /\ LET c == fd[clients.buf[n]]
     IN  \/ /\ \/ ServerSend(c, "NEW_USER_JOIN")
               \/ SendMeetsReset(c) /\ UNCHANGED <<down, rst>>
            /\ n' = n - 1
            /\ UNCHANGED <<link, open, out, in, backlog, fd, pc, exitFlag, clients,
                           fdRead, cSock, cur, toRm, cnt, ptr>>
         \/ SendMeetsReset(c) /\ Killed

\* Mutant: the new client is inserted in front.
JoinInsertFront ==
  /\ pc = "join" /\ n < 0
  /\ clients' = D!Insert(clients, 0, cSock)
  /\ cSock' = 0
  /\ GoFilter
  /\ UNCHANGED <<exitFlag, fdRead, cur, cnt, ptr, netVars>>

\* Only then is the new client registered.
JoinInsert ==
  /\ pc = "join" /\ n < 0
  /\ clients' = D!Insert(clients, clients.len, cSock)
  /\ cSock' = 0
  /\ GoFilter
  /\ UNCHANGED <<exitFlag, fdRead, cur, cnt, ptr, netVars>>

-----------------------------------------------------------------------------
(* extClientFilter, first loop, and processor. *)

\* A client that is not in the set is passed over.
FilterSkip ==
  /\ pc = "filter" /\ n < clients.len /\ clients.buf[n] \notin fdRead
  /\ n' = n + 1
  /\ UNCHANGED <<pc, exitFlag, clients, fdRead, cSock, cur, toRm, cnt, ptr, netVars>>

\* processor ends with a send(), whose result it happens to return: at -O0 the
\* caller finds it in the return register, so a failed send looks like an exit.
ReplyAndReturn(c, msg, sendIsLast) ==
  /\ \/ ServerSend(c, msg) /\ UNCHANGED toRm
     \/ /\ SendMeetsReset(c)
        /\ toRm' = IF sendIsLast THEN Append(toRm, n) ELSE toRm
        /\ UNCHANGED <<down, rst>>
  /\ pc' = "filter" /\ n' = n + 1 /\ cur' = "none"
  /\ UNCHANGED <<link, open, out, backlog, fd, exitFlag, clients, fdRead, cSock, cnt, ptr>>

\* The header is read; read() waits for one.  At the end of the stream the
\* client has exited.  The default branch answers a CMD_ERROR with another: no
\* program here sends the CMD_COMMON_MESSAGE that would also get there.
ReadHeader ==
  /\ pc = "filter" /\ n < clients.len /\ clients.buf[n] \in fdRead
  /\ LET c == fd[clients.buf[n]]
     IN  /\ in[c] # <<>>
         /\ \/ /\ Head(in[c]) = "FIN"
               /\ toRm' = Append(toRm, n) /\ n' = n + 1
               /\ UNCHANGED <<pc, cur, exitFlag, clients, fdRead, cSock, cnt, ptr, netVars>>
            \/ /\ Head(in[c]) \in Requests
               /\ cur' = Head(in[c]) /\ pc' = "body"
               /\ in' = [in EXCEPT ![c] = Tail(@)]
               /\ UNCHANGED <<link, open, out, down, rst, backlog, fd, exitFlag, clients,
                              fdRead, cSock, n, toRm, cnt, ptr>>
            \/ /\ Head(in[c]) = "ERROR"
               /\ \/ /\ in' = [in EXCEPT ![c] = Tail(@)]
                     /\ ReplyAndReturn(c, "ERROR", TRUE)
                  \/ SendMeetsReset(c) /\ Killed

\* The body is read, then answered; read() waits, and at the end of the stream
\* returns without a body, which nobody notices.  CMD_LOGIN ends by logging.
ReadBody ==
  /\ pc = "body"
  /\ LET c == fd[clients.buf[n]]
     IN  /\ in[c] # <<>>
         /\ \/ /\ in' = IF Head(in[c]) = "FIN" THEN in ELSE [in EXCEPT ![c] = Tail(@)]
               /\ ReplyAndReturn(c, ResultOf(cur), cur = "LOGOUT")
            \/ SendMeetsReset(c) /\ Killed

-----------------------------------------------------------------------------
(* extClientFilter, second loop: the exited clients are squeezed out. *)

FilterDone ==
  /\ pc = "filter" /\ n >= clients.len
  /\ pc' = IF toRm = <<>> THEN "top" ELSE "compact"
  /\ n' = 0
  /\ UNCHANGED <<exitFlag, clients, fdRead, cSock, cur, toRm, cnt, ptr, netVars>>

\* Mutant: the index after the recorded one is taken for the exited client.
IsHitNext(hit) == IF ptr < Len(toRm) THEN hit = (n = toRm[ptr + 1] + 1)
                  ELSE \E g \in Garbage : hit = (n = g)

\* t_ptr is not checked: past the last index the comparison reads a slot that
\* was allocated (8 bytes per int, dynarr.c:14) and never written.
IsHit(hit) == IF ptr < Len(toRm) THEN hit = (n = toRm[ptr + 1])
              ELSE \E g \in Garbage : hit = (n = g)

CompactStep ==
  /\ pc = "compact" /\ n < clients.len
  /\ clients' = [clients EXCEPT !.buf[n - cnt] = clients.buf[n]]
  /\ \E hit \in BOOLEAN :
       /\ IsHit(hit)
       /\ IF hit THEN cnt' = cnt + 1 /\ ptr' = ptr + 1 ELSE UNCHANGED <<cnt, ptr>>
  /\ n' = n + 1
  /\ UNCHANGED <<pc, exitFlag, fdRead, cSock, cur, toRm, netVars>>

\* Mutant: one too few are kept.
KeptTooFew == clients.len - cnt - 1

Kept == clients.len - cnt

\* Mutant: the descriptors that are no longer listed are closed.
CompactAndClose ==
  /\ pc = "compact" /\ n >= clients.len
  /\ clients' = D!Resize(clients, Kept)
  /\ pc' = "top" /\ n' = 0 /\ toRm' = <<>> /\ cnt' = 0 /\ ptr' = 0
  /\ ServerClose(OpenFds \ {clients.buf[i] : i \in 0 .. Kept - 1}, FALSE)
  /\ UNCHANGED <<exitFlag, fdRead, cSock, cur>>

\* The removed descriptors are forgotten, not closed.  The locals end here.
CompactDone ==
  /\ pc = "compact" /\ n >= clients.len
  /\ clients' = D!Resize(clients, Kept)
  /\ pc' = "top" /\ n' = 0 /\ toRm' = <<>> /\ cnt' = 0 /\ ptr' = 0
  /\ UNCHANGED <<exitFlag, fdRead, cSock, cur, netVars>>

-----------------------------------------------------------------------------
(* The end of main, and the console. *)

\* netModuleUninit closes the registered sockets and the listening one.
Uninit ==
  /\ pc = "uninit"
  /\ ServerClose(Registered, TRUE)
  /\ pc' = "returned"
  /\ UNCHANGED <<exitFlag, clients, fdRead, cSock, n, cur, toRm, cnt, ptr>>

\* main returns, the process ends, and the kernel closes what is left.
ProcessExit ==
  /\ pc = "returned"
  /\ ServerClose(OpenFds, TRUE)
  /\ pc' = "stopped"
  /\ UNCHANGED <<exitFlag, clients, fdRead, cSock, n, cur, toRm, cnt, ptr>>

\* The command thread reads "E".
TypeE ==
  /\ Up /\ ~exitFlag
  /\ exitFlag' = TRUE
  /\ UNCHANGED <<pc, clients, fdRead, cSock, n, cur, toRm, cnt, ptr, netVars>>

MainThread == \/ LoopTop \/ Select \/ Accept \/ JoinSend \/ JoinInsert
              \/ FilterSkip \/ ReadHeader \/ ReadBody
              \/ FilterDone \/ CompactStep \/ CompactDone
              \/ Uninit \/ ProcessExit

SrvNext == MainThread \/ TypeE

=============================================================================
