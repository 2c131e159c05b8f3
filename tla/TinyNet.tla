------------------------------- MODULE TinyNet -------------------------------
(***************************************************************************)
(* The wire between TinyServer and its clients: the commands of            *)
(* Common/defs.h and the TCP sockets the two programs call.  The kernel is *)
(* not in the repository; its part is modelled from the calls made in      *)
(* ModuleManager.c, Tools.c and TinyClient.c.                              *)
(*                                                                         *)
(* One send() of a message puts a header segment, and a body segment when  *)
(* dataLength says there is one, on a byte stream that keeps order.  The   *)
(* segments arrive one at a time, so a header can be readable before its   *)
(* body; a segment itself is not split further.  FIN marks the end.        *)
(***************************************************************************)
EXTENDS Integers, Sequences, FiniteSets, SequencesExt

CONSTANTS Clients,     \* the client processes
          None,        \* not a client: a free descriptor
          MaxFd,       \* how many descriptors the server process may hold
          MaxListen    \* max_listen_num of config/configServer.json

ASSUME NetAssumption == /\ MaxFd \in Nat
                        /\ MaxListen \in Nat \ {0}
                        /\ None \notin Clients

Fds == 1 .. MaxFd

Requests == {"LOGIN", "LOGOUT"}

\* Mutant: a copied case that was not adapted.
ResultOfCopied(req) == "LOGIN_RESULT"

ResultOf(req) == IF req = "LOGIN" THEN "LOGIN_RESULT" ELSE "LOGOUT_RESULT"

Results == {"LOGIN_RESULT", "LOGOUT_RESULT"}

\* Messages with a body; CMD_ERROR is a bare header with dataLength 0.
HasBody(cmd) == cmd # "ERROR"

Segments(cmd) == IF HasBody(cmd) THEN <<cmd, "BODY">> ELSE <<cmd>>

UpSegments   == Requests \cup {"ERROR", "BODY", "FIN"}
DownMessages == Results \cup {"NEW_USER_JOIN", "ERROR", "FIN"}

VARIABLES
  link,      \* the server's end of c: "idle" | "queued" | "accepted" | "down"
  open,      \* c still holds its socket
  out,       \* segments from c in flight, oldest first
  in,        \* segments from c the server's kernel holds, oldest first
  down,      \* messages from the server that c has not read
  rst,       \* reset from a c that is gone: "none" | "flying" | "arrived"
  backlog,   \* connections established and not yet accepted
  fd         \* the server's descriptor table

netVars == <<link, open, out, in, down, rst, backlog, fd>>

NetTypeOK ==
  /\ link \in [Clients -> {"idle", "queued", "accepted", "down"}]
  /\ open \in [Clients -> BOOLEAN]
  /\ out \in [Clients -> Seq(UpSegments)]
  /\ in \in [Clients -> Seq(UpSegments)]
  /\ down \in [Clients -> Seq(DownMessages)]
  /\ rst \in [Clients -> {"none", "flying", "arrived"}]
  /\ backlog \in Seq(Clients)
  /\ fd \in [Fds -> Clients \cup {None}]

NetInit ==
  /\ link = [c \in Clients |-> "idle"]
  /\ open = [c \in Clients |-> TRUE]
  /\ out = [c \in Clients |-> <<>>]
  /\ in = [c \in Clients |-> <<>>]
  /\ down = [c \in Clients |-> <<>>]
  /\ rst = [c \in Clients |-> "none"]
  /\ backlog = <<>>
  /\ fd = [f \in Fds |-> None]

\* The connection has both ends.
Established(c) == link[c] \in {"queued", "accepted"}

\* The open descriptors of the server process.
OpenFds == {f \in Fds : fd[f] # None}

-----------------------------------------------------------------------------
(* The network. *)

\* The oldest segment in flight reaches the server's kernel.
Deliver(c) ==
  /\ out[c] # <<>>
  /\ in' = [in EXCEPT ![c] = Append(@, Head(out[c]))]
  /\ out' = [out EXCEPT ![c] = Tail(@)]
  /\ UNCHANGED <<link, open, down, rst, backlog, fd>>

\* The reset a departed client's kernel sent comes behind all it had sent.
ResetArrives(c) ==
  /\ rst[c] = "flying" /\ Established(c) /\ out[c] = <<>>
  /\ rst' = [rst EXCEPT ![c] = "arrived"]
  /\ UNCHANGED <<link, open, out, in, down, backlog, fd>>

NetNext == \E c \in Clients : Deliver(c) \/ ResetArrives(c)

-----------------------------------------------------------------------------
(* System calls of the client process. *)

\* connect(): the handshake ends in the listen queue, before any accept().
ConnectOk(c) ==
  /\ Len(backlog) < MaxListen
  /\ backlog' = Append(backlog, c)
  /\ link' = [link EXCEPT ![c] = "queued"]
  /\ UNCHANGED <<open, out, in, down, rst, fd>>

\* connect() is refused; a later recv() on the socket fails like one at the end.
ConnectRefused(c) ==
  /\ link' = [link EXCEPT ![c] = "down"]
  /\ down' = [down EXCEPT ![c] = <<"FIN">>]
  /\ UNCHANGED <<open, out, in, rst, backlog, fd>>

\* send() of one message; nobody reads it once the server's end is gone.
ClientSend(c, cmd) ==
  /\ out' = IF Established(c) THEN [out EXCEPT ![c] = @ \o Segments(cmd)] ELSE out
  /\ UNCHANGED <<link, open, in, rst, backlog, fd>>

\* close(), or the end of the process.  With unread messages the kernel answers
\* with a reset and drops what is still in flight, whole segments here.
ClientClose(c) ==
  /\ open' = [open EXCEPT ![c] = FALSE]
  /\ IF ~Established(c) THEN UNCHANGED <<out, rst>>
     ELSE IF down[c] = <<>>
       THEN out' = [out EXCEPT ![c] = Append(@, "FIN")] /\ UNCHANGED rst
       ELSE /\ \E k \in 0 .. Len(out[c]) :
                 out' = [out EXCEPT ![c] = Append(SubSeq(@, 1, k), "FIN")]
            /\ rst' = [rst EXCEPT ![c] = "flying"]
  /\ down' = [down EXCEPT ![c] = <<>>]
  /\ UNCHANGED <<link, in, backlog, fd>>

-----------------------------------------------------------------------------
(* System calls of the server process. *)

\* send(): read by an open client, answered with a reset by a closed one.
ServerSend(c, msg) ==
  \/ /\ open[c]
     /\ down' = [down EXCEPT ![c] = Append(@, msg)]
     /\ UNCHANGED rst
  \/ /\ ~open[c] /\ rst[c] # "arrived"
     /\ rst' = [rst EXCEPT ![c] = "flying"]
     /\ UNCHANGED down

\* A send() that finds the reset already there fails, and raises SIGPIPE, which
\* nothing in TinyServer handles, unless it is the first to report the reset.
SendMeetsReset(c) == ~open[c] /\ rst[c] = "arrived"

\* The kernel closes the descriptors fs, and the listening socket with them when
\* whole is TRUE: clients at the other end read end of file.
ServerClose(fs, whole) ==
  LET cut == {fd[f] : f \in fs} \cup IF whole THEN ToSet(backlog) ELSE {}
  IN  /\ fd' = [f \in Fds |-> IF f \in fs THEN None ELSE fd[f]]
      /\ link' = [c \in Clients |-> IF c \in cut THEN "down" ELSE link[c]]
      /\ out' = [c \in Clients |-> IF c \in cut THEN <<>> ELSE out[c]]
      /\ in' = [c \in Clients |-> IF c \in cut THEN <<>> ELSE in[c]]
      /\ down' = [c \in Clients |-> IF c \in cut /\ open[c] THEN Append(down[c], "FIN")
                                    ELSE down[c]]
      /\ backlog' = IF whole THEN <<>> ELSE backlog
      /\ UNCHANGED <<open, rst>>

=============================================================================
