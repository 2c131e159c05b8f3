----------------------------- MODULE TinyClient -----------------------------
(***************************************************************************)
(* TinyClient.c: the main thread, which connects and then reads what the   *)
(* server sends, and commMessThread, which turns the user's words into     *)
(* messages on the same socket from the moment it exists.                  *)
(***************************************************************************)
EXTENDS TinyNet

CONSTANTS
  Talkers,      \* clients of another make, that also send a CMD_ERROR on their own
  MaxTyped      \* bound on the messages each user types

ASSUME ClientAssumption == Talkers \subseteq Clients /\ MaxTyped \in [Clients -> Nat]

VARIABLES
  cpc,        \* main thread: "start" | "wait" | "leaving" | "closed"
  bExit,      \* g_bExit = 0
  sent,       \* the requests sent over a connection, in order
  typed,      \* how many messages were typed
  got,        \* the results read, in order
  joins       \* how many NEW_USER_JOIN were read

cliVars == <<cpc, bExit, sent, typed, got, joins>>

CliTypeOK ==
  /\ cpc \in [Clients -> {"start", "wait", "leaving", "closed"}]
  /\ bExit \in [Clients -> BOOLEAN]
  /\ sent \in [Clients -> Seq(Requests)]
  /\ typed \in [Clients -> Nat] /\ \A c \in Clients : typed[c] <= MaxTyped[c]
  /\ got \in [Clients -> Seq(Results)]
  /\ joins \in [Clients -> Nat]

CliInit ==
  /\ cpc = [c \in Clients |-> "start"]
  /\ bExit = [c \in Clients |-> FALSE]
  /\ sent = [c \in Clients |-> <<>>]
  /\ typed = [c \in Clients |-> 0]
  /\ got = [c \in Clients |-> <<>>]
  /\ joins = [c \in Clients |-> 0]

-----------------------------------------------------------------------------
(* The main thread. *)

\* The loop condition, read once per turn and before select(): a turn under way
\* when the user types exit still takes a message.
LoopTest(c) == IF bExit[c] THEN "leaving" ELSE "wait"

\* connect(); a failure is printed and the loop is entered all the same.
Connect(c, listening) ==
  /\ cpc[c] = "start"
  /\ IF listening THEN ConnectOk(c) ELSE ConnectRefused(c)
  /\ cpc' = [cpc EXCEPT ![c] = LoopTest(c)]
  /\ UNCHANGED <<bExit, sent, typed, got, joins>>

Close(c) ==
  /\ ClientClose(c)
  /\ cpc' = [cpc EXCEPT ![c] = "closed"]
  /\ UNCHANGED <<bExit, sent, typed, got, joins>>

Leave(c) == cpc[c] = "leaving" /\ Close(c)

\* select() times out after two seconds.
SelectTimeout(c) ==
  /\ cpc[c] = "wait" /\ down[c] = <<>>
  /\ cpc' = [cpc EXCEPT ![c] = LoopTest(c)]
  /\ UNCHANGED <<bExit, sent, typed, got, joins, netVars>>

\* Mutants: no case for NEW_USER_JOIN, and one for CMD_ERROR.
UnderstoodNoJoin == Results
UnderstoodError == Results \cup {"NEW_USER_JOIN", "ERROR"}

\* The commands processor has a case for.
Understood == Results \cup {"NEW_USER_JOIN"}

\* Mutant: the end of the stream is not noticed.
EndsLoopNever(m) == FALSE

\* processor returns -1 at the end of the stream.
EndsLoop(m) == m = "FIN"

\* processor consumes one message; what it does not know it answers with
\* CMD_ERROR, and it does not know CMD_ERROR.
Consume(c) ==
  LET m == Head(down[c])
  IN  /\ down' = [down EXCEPT ![c] = Tail(@)]
      /\ got' = IF m \in Results THEN [got EXCEPT ![c] = Append(@, m)] ELSE got
      /\ joins' = IF m = "NEW_USER_JOIN" THEN [joins EXCEPT ![c] = @ + 1] ELSE joins
      /\ IF m \in Understood THEN UNCHANGED <<link, open, out, in, rst, backlog, fd>>
         ELSE ClientSend(c, "ERROR")

\* The CMD_ERROR sent to a server that is gone ends the process like Type's.
Receive(c) ==
  /\ cpc[c] = "wait" /\ down[c] # <<>>
  /\ \/ EndsLoop(Head(down[c])) /\ Close(c)
     \/ Head(down[c]) = "ERROR" /\ ~Established(c) /\ Close(c)
     \/ /\ ~EndsLoop(Head(down[c]))
        /\ Consume(c)
        /\ cpc' = [cpc EXCEPT ![c] = LoopTest(c)]
        /\ UNCHANGED <<bExit, sent, typed>>

-----------------------------------------------------------------------------
(* commMessThread. *)

\* The user types a message.  On a socket that is not connected, or no longer,
\* send() raises SIGPIPE and the process ends; after the server's end is gone
\* the first one may still be swallowed.
Type(c, cmd) ==
  /\ cpc[c] # "closed" /\ typed[c] < MaxTyped[c]
  /\ typed' = [typed EXCEPT ![c] = @ + 1]
  /\ \/ /\ link[c] # "idle"
        /\ ClientSend(c, cmd) /\ UNCHANGED <<down, cpc>>
        /\ sent' = IF cmd \in Requests /\ Established(c)
                   THEN [sent EXCEPT ![c] = Append(@, cmd)] ELSE sent
     \/ /\ ~Established(c)
        /\ ClientClose(c) /\ cpc' = [cpc EXCEPT ![c] = "closed"]
        /\ UNCHANGED sent
  /\ UNCHANGED <<bExit, got, joins>>

TypeExit(c) ==
  /\ cpc[c] # "closed" /\ ~bExit[c]
  /\ bExit' = [bExit EXCEPT ![c] = TRUE]
  /\ UNCHANGED <<cpc, sent, typed, got, joins, netVars>>

ClientMain(c, listening) == \/ Connect(c, listening) \/ Leave(c)
                            \/ SelectTimeout(c) \/ Receive(c)

User(c) == \/ \E cmd \in Requests \cup (IF c \in Talkers THEN {"ERROR"} ELSE {}) : Type(c, cmd)
           \/ TypeExit(c)

CliNext(listening) == \E c \in Clients : ClientMain(c, listening) \/ User(c)

=============================================================================
