----------------------------- MODULE TinySystem -----------------------------
(***************************************************************************)
(* TinyServer, its TinyClients and the network between them.               *)
(***************************************************************************)
EXTENDS TinyServer, TinyClient, Selection

vars == <<netVars, srvVars, cliVars>>

Init == NetInit /\ SrvInit /\ CliInit

Server  == SrvNext /\ UNCHANGED cliVars
Network == NetNext /\ UNCHANGED <<srvVars, cliVars>>

\* connect() succeeds as long as the listening socket is open.
Peers   == CliNext(Up) /\ UNCHANGED srvVars

Next == Server \/ Network \/ Peers

Spec == Init /\ [][Next]_vars

\* The server's main thread and each client's main thread are scheduled for as
\* long as they can run, and TCP delivers.  Nobody has to type anything.
Fairness ==
  /\ WF_vars(MainThread /\ UNCHANGED cliVars)
  /\ \A c \in Clients : /\ WF_vars(Deliver(c) /\ UNCHANGED <<srvVars, cliVars>>)
                        /\ WF_vars(ClientMain(c, Up) /\ UNCHANGED srvVars)

FairSpec == Spec /\ Fairness

-----------------------------------------------------------------------------
(* Invariants. *)

TypeOK == NetTypeOK /\ SrvTypeOK /\ CliTypeOK

Steady == Up /\ pc # "compact"      \* g_clients is not being rewritten

\* g_clients lists open descriptors in the order their clients joined, without
\* repetition, through every removal (Tools.c:77-86).
RegistryInJoinOrder ==
  Steady => /\ Registered \subseteq OpenFds
            /\ \A i, j \in 0 .. clients.len - 1 : i < j => clients.buf[i] < clients.buf[j]

\* The server never loses a client that is still there: a descriptor that is
\* open but no longer (or not yet) registered is the one being accepted, or its
\* client has closed (Tools.c:58, "filter out the idx of clients that have
\* exited").
NoLiveClientForgotten ==
  Steady => \A f \in OpenFds \ (Registered \cup {cSock}) : ~open[fd[f]]

\* The requests that the results in s answer.
AsRequest(res) == IF res = "LOGIN_RESULT" THEN "LOGIN" ELSE "LOGOUT"
Answered(s) == LET r == Only(s, Results) IN [i \in 1 .. Len(r) |-> AsRequest(r[i])]

\* Requests and answers are conserved and keep their order: all a connected
\* client ever asked is, oldest first, answered and read, answered and on its
\* way, being answered, or still in the stream (Tools.c:15-39).
InService(c) == IF pc = "body" /\ fd[clients.buf[n]] = c THEN <<cur>> ELSE <<>>

RequestsConserved ==
  \A c \in Clients : Up /\ open[c] /\ Established(c) =>
    sent[c] = Answered(got[c]) \o Answered(down[c]) \o InService(c)
                \o Only(in[c], Requests) \o Only(out[c], Requests)

\* A registered client hears of every client accepted after it exactly once:
\* the notices it read and the ones on their way are as many as the descriptors
\* handed out since, less the one the loop has not reached (ModuleManager.c:119-126).
Notices(c) == joins[c] + Len(Only(down[c], {"NEW_USER_JOIN"}))

JoinsToldOnce ==
  Steady => \A i \in 0 .. clients.len - 1 :
    LET f == clients.buf[i]
        untold == pc = "join" /\ i <= n
    IN  open[fd[f]] =>
          Notices(fd[f]) = Cardinality({g \in OpenFds : g > f}) - (IF untold THEN 1 ELSE 0)

\* Two TinyClients and a server never get to CMD_ERROR: the default branches of
\* both processors are reached only through a client that sends more than
\* TinyClient.c does (Tools.c:44, TinyClient.c:62).
NoErrorTraffic ==
  \A c \in Clients \ Talkers : "ERROR" \notin ToSet(in[c]) \cup ToSet(out[c]) \cup ToSet(down[c])

\* Between a server and TinyClients there are requests and their results, all of
\* them, and nothing else but notices.
TalkIsInOrder == RequestsConserved /\ NoErrorTraffic

-----------------------------------------------------------------------------
(* What a step may not do. *)

Errors(c) == Len(Only(in[c] \o out[c] \o down[c], {"ERROR"}))

\* Once a client of another make has sent a CMD_ERROR, it never dies out: each
\* side answers the other's with one of its own, for as long as both ends are
\* open (Tools.c:44-50, TinyClient.c:62-68).
ErrorsNeverDieOut ==
  [][\A c \in Clients : (Up /\ Up' /\ open[c] /\ open'[c]) => Errors(c)' >= Errors(c)]_vars

\* A full descriptor table stays full while the server runs: an exited client is
\* taken off g_clients and its socket is left open (Tools.c:77-86).
FullStaysFull == [][(Up /\ Up' /\ OpenFds = Fds) => OpenFds' = Fds]_vars

-----------------------------------------------------------------------------
(* What must happen. *)

\* Every request of a client that stays is answered and read, unless the server
\* stops: no other client can make the loop wait for ever (Tools.c:5-52).
RequestsAnswered ==
  \A c \in Clients : \A k \in 1 .. MaxTyped[c] :
    Len(sent[c]) >= k ~> (Len(got[c]) >= k \/ ~open[c] \/ ~Up)

\* A registered client that exits is taken off the list, unless the server
\* stops (Tools.c:64-86).
ExitedAreRemoved ==
  \A f \in Fds : (f \in Registered \cap OpenFds /\ ~open[fd[f]]) ~> (f \notin Registered \/ ~Up)

\* The operator's E stops the process: select() waits a second at most
\* (TinyServer.c:14, ModuleManager.c:97).
ExitCommandStops == exitFlag ~> pc \in {"stopped", "killed"}

\* Every client ends when the server has (TinyClient.c:143-146).
ClientsFollowServer ==
  \A c \in Clients : (~Up /\ cpc[c] # "closed") ~> cpc[c] = "closed"

\* So one word at the server's console ends all the programs.
ExitEndsAll == ExitCommandStops /\ ClientsFollowServer

=============================================================================
