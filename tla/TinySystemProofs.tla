-------------------------- MODULE TinySystemProofs --------------------------
(***************************************************************************)
(* Theorems about TinySystem for any number of clients and descriptors,    *)
(* whatever the clients send and whatever the uninitialised slot behind    *)
(* t_idxToRm reads as.  The first part is about the registry of clients,   *)
(* the second about what passes between server and clients: nobody who is  *)
(* there is forgotten, everybody is told of the others once, requests are  *)
(* answered in order.                                                      *)
(***************************************************************************)
EXTENDS TinySystem, SelectionLemmas, FiniteSetTheorems, TLAPS

L == INSTANCE DynArrLemmas WITH Val <- Fds

\* The operators of D and those the lemmas of L are about are the same.
LEMMA SameOps ==
  /\ \A x : D!IsDynArr(x) = L!IsDynArr(x)
  /\ \A x, i, v : D!Insert(x, i, v) = L!Insert(x, i, v)
  /\ \A x, m : D!Resize(x, m) = L!Resize(x, m)
  /\ D!InitZero = L!InitZero
  BY DEF D!IsDynArr, L!IsDynArr, D!Insert, L!Insert, D!Reserve, L!Reserve,
         D!Resize, L!Resize, D!InitZero, L!InitZero

-----------------------------------------------------------------------------
(* Typing of the system calls. *)

LEMMA ServerSendType ==
  ASSUME NetTypeOK, NEW c, NEW msg \in DownMessages, ServerSend(c, msg)
  PROVE  down' \in [Clients -> Seq(DownMessages)] /\ rst' \in [Clients -> {"none", "flying", "arrived"}]
<1>1. ASSUME c \in Clients PROVE Append(down[c], msg) \in Seq(DownMessages)
  BY <1>1 DEF NetTypeOK
<1>2. down' = [down EXCEPT ![c] = Append(@, msg)] \/ UNCHANGED down
  BY DEF ServerSend
<1>3. down' \in [Clients -> Seq(DownMessages)]
  BY <1>1, <1>2 DEF NetTypeOK
<1>4. rst' \in [Clients -> {"none", "flying", "arrived"}]
  BY DEF NetTypeOK, ServerSend
<1> QED BY <1>3, <1>4

LEMMA ServerCloseType ==
  ASSUME NetTypeOK, NEW fs, NEW whole \in BOOLEAN, ServerClose(fs, whole)
  PROVE  NetTypeOK'
  BY DEF NetTypeOK, ServerClose, DownMessages, UpSegments

LEMMA SegmentsType ==
  ASSUME NEW cmd \in Requests \cup {"ERROR"}
  PROVE  Segments(cmd) \in Seq(UpSegments)
<1>1. cmd \in UpSegments /\ "BODY" \in UpSegments
  BY DEF UpSegments
<1>2. <<cmd>> \in Seq(UpSegments) /\ <<cmd, "BODY">> \in Seq(UpSegments)
  BY <1>1
<1> QED BY <1>2 DEF Segments

LEMMA ClientSendType ==
  ASSUME NetTypeOK, NEW c \in Clients, NEW cmd \in Requests \cup {"ERROR"},
         ClientSend(c, cmd)
  PROVE  out' \in [Clients -> Seq(UpSegments)]
<1>1. Segments(cmd) \in Seq(UpSegments)
  BY SegmentsType
<1> QED BY <1>1 DEF NetTypeOK, ClientSend

LEMMA ClientCloseType ==
  ASSUME NetTypeOK, NEW c \in Clients, ClientClose(c)
  PROVE  NetTypeOK'
<1>1. \A k \in 0 .. Len(out[c]) : Append(SubSeq(out[c], 1, k), "FIN") \in Seq(UpSegments)
  <2> SUFFICES ASSUME NEW k \in 0 .. Len(out[c])
               PROVE  Append(SubSeq(out[c], 1, k), "FIN") \in Seq(UpSegments)
    OBVIOUS
  <2>1. out[c] \in Seq(UpSegments) /\ "FIN" \in UpSegments
    BY DEF NetTypeOK, UpSegments
  <2>2. SubSeq(out[c], 1, k) \in Seq(UpSegments)
    BY <2>1
  <2> QED BY <2>1, <2>2
<1>2. Append(out[c], "FIN") \in Seq(UpSegments)
  BY DEF NetTypeOK, UpSegments
<1>3. out' \in [Clients -> Seq(UpSegments)]
  <2>1. \/ UNCHANGED out
        \/ out' = [out EXCEPT ![c] = Append(@, "FIN")]
        \/ \E k \in 0 .. Len(out[c]) : out' = [out EXCEPT ![c] = Append(SubSeq(@, 1, k), "FIN")]
    BY DEF ClientClose
  <2> QED BY <1>1, <1>2, <2>1, ZenonT(40) DEF NetTypeOK
<1>4. rst' \in [Clients -> {"none", "flying", "arrived"}]
  BY DEF NetTypeOK, ClientClose
<1>5. open' \in [Clients -> BOOLEAN]
  BY DEF NetTypeOK, ClientClose
<1>6. down' \in [Clients -> Seq(DownMessages)]
  BY DEF NetTypeOK, ClientClose
<1> QED BY <1>3, <1>4, <1>5, <1>6 DEF NetTypeOK, ClientClose

-----------------------------------------------------------------------------
(* The inductive invariant. *)

\* The counters of the server's loops, where they are in use.
CountersOK ==
  /\ pc # "compact" => cnt = 0 /\ ptr = 0
  /\ pc \in {"filter", "body", "compact"} => n \in Nat
  /\ pc = "compact" => cnt <= n /\ n <= clients.len
  /\ pc = "join" => cSock \in Fds

\* The slots of g_clients that count: all in use, but during the compaction not
\* those between the kept clients and the ones still to be looked at.
Listed == {i \in 0 .. clients.len - 1 : pc = "compact" => (i < n - cnt \/ n <= i)}

\* While the server runs no descriptor is ever closed, so accept() hands them
\* out in order; the slots that count hold open descriptors in that order, all
\* below the one that is being announced.
RegistryInv ==
  Up => /\ \E k \in 0 .. MaxFd : OpenFds = 1 .. k
        /\ \A i \in Listed : clients.buf[i] \in OpenFds
        /\ \A i, j \in Listed : i < j => clients.buf[i] < clients.buf[j]
        /\ pc = "join" => /\ cSock \in OpenFds
                          /\ \A i \in Listed : clients.buf[i] < cSock

IInv == TypeOK /\ CountersOK /\ RegistryInv

LEMMA NetSame == NetTypeOK /\ UNCHANGED netVars => NetTypeOK'
  BY DEF NetTypeOK, netVars

LEMMA SrvSame == SrvTypeOK /\ CountersOK /\ UNCHANGED srvVars => SrvTypeOK' /\ CountersOK'
  BY DEF SrvTypeOK, CountersOK, srvVars, Running

LEMMA CliSame == CliTypeOK /\ UNCHANGED cliVars => CliTypeOK'
  BY DEF CliTypeOK, cliVars

-----------------------------------------------------------------------------
(* Typing, step by step. *)

\* The steps of the client processes.
LEMMA ClientStepType ==
  ASSUME NetTypeOK, CliTypeOK, NEW c \in Clients, NEW listening \in BOOLEAN,
         ClientMain(c, listening) \/ User(c)
  PROVE  NetTypeOK' /\ CliTypeOK'
<1>1. LoopTest(c) \in {"leaving", "wait"}
  BY DEF LoopTest
<1>2. CASE Connect(c, listening)
  <2>1. NetTypeOK'
    <3>1. CASE ConnectOk(c)
      BY <3>1 DEF NetTypeOK, ConnectOk
    <3>2. CASE ConnectRefused(c)
      BY <3>2 DEF NetTypeOK, ConnectRefused, DownMessages
    <3> QED BY <1>2, <3>1, <3>2 DEF Connect
  <2>2. CliTypeOK'
    BY <1>1, <1>2 DEF CliTypeOK, Connect
  <2> QED BY <2>1, <2>2
<1>3. ASSUME Close(c) PROVE NetTypeOK' /\ CliTypeOK'
  <2>1. NetTypeOK'
    BY <1>3, ClientCloseType DEF Close
  <2>2. CliTypeOK'
    BY <1>3 DEF CliTypeOK, Close
  <2> QED BY <2>1, <2>2
<1>4. CASE Leave(c)
  BY <1>3, <1>4 DEF Leave
<1>5. CASE SelectTimeout(c)
  <2>1. NetTypeOK'
    BY <1>5, NetSame DEF SelectTimeout
  <2>2. CliTypeOK'
    BY <1>1, <1>5 DEF CliTypeOK, SelectTimeout
  <2> QED BY <2>1, <2>2
<1>6. CASE Receive(c)
  <2>1. CASE Close(c)
    BY <1>3, <2>1
  <2>2. CASE /\ ~EndsLoop(Head(down[c])) /\ Consume(c)
             /\ cpc' = [cpc EXCEPT ![c] = LoopTest(c)]
             /\ UNCHANGED <<bExit, sent, typed>>
    <3>1. Head(down[c]) \in DownMessages /\ Tail(down[c]) \in Seq(DownMessages)
      BY <1>6 DEF Receive, NetTypeOK
    <3>2. down' \in [Clients -> Seq(DownMessages)]
      BY <2>2, <3>1 DEF Consume, NetTypeOK
    <3>3. out' \in [Clients -> Seq(UpSegments)]
      <4>1. UNCHANGED out \/ ClientSend(c, "ERROR")
        BY <2>2 DEF Consume
      <4> QED BY <4>1, ClientSendType DEF NetTypeOK
    <3>4. UNCHANGED <<link, open, in, rst, backlog, fd>>
      BY <2>2 DEF Consume, ClientSend
    <3>5. NetTypeOK'
      BY <3>2, <3>3, <3>4 DEF NetTypeOK
    <3>6. got' \in [Clients -> Seq(Results)] /\ joins' \in [Clients -> Nat]
      BY <2>2 DEF Consume, CliTypeOK
    <3>7. CliTypeOK'
      BY <1>1, <2>2, <3>6 DEF CliTypeOK
    <3> QED BY <3>5, <3>7
  <2> QED BY <1>6, <2>1, <2>2 DEF Receive
<1>7. CASE User(c)
  <2>1. CASE TypeExit(c)
    <3>1. NetTypeOK'
      BY <2>1, NetSame DEF TypeExit
    <3>2. CliTypeOK'
      BY <2>1 DEF TypeExit, CliTypeOK
    <3> QED BY <3>1, <3>2
  <2>2. ASSUME NEW cmd \in Requests \cup {"ERROR"}, Type(c, cmd)
        PROVE  NetTypeOK' /\ CliTypeOK'
    <3>1. NetTypeOK'
      <4>1. CASE ClientSend(c, cmd) /\ UNCHANGED down
        BY <4>1, ClientSendType DEF NetTypeOK, ClientSend
      <4>2. CASE ClientClose(c)
        BY <4>2, ClientCloseType
      <4> QED BY <2>2, <4>1, <4>2 DEF Type
    <3>2. typed[c] \in Nat /\ MaxTyped[c] \in Nat /\ typed[c] < MaxTyped[c]
      BY <2>2, ClientAssumption DEF CliTypeOK, Type
    <3>3. typed' \in [Clients -> Nat] /\ \A d \in Clients : typed'[d] <= MaxTyped[d]
      BY <2>2, <3>2 DEF CliTypeOK, Type
    <3>4. sent' \in [Clients -> Seq(Requests)]
      <4>1. UNCHANGED sent \/ (cmd \in Requests /\ sent' = [sent EXCEPT ![c] = Append(@, cmd)])
        BY <2>2 DEF Type
      <4>2. CASE cmd \in Requests /\ sent' = [sent EXCEPT ![c] = Append(@, cmd)]
        <5>1. Append(sent[c], cmd) \in Seq(Requests)
          BY <4>2 DEF CliTypeOK
        <5> QED BY <4>2, <5>1 DEF CliTypeOK
      <4> QED BY <4>1, <4>2 DEF CliTypeOK
    <3>5. cpc' \in [Clients -> {"start", "wait", "leaving", "closed"}]
      BY <2>2 DEF CliTypeOK, Type
    <3>6. CliTypeOK'
      BY <2>2, <3>3, <3>4, <3>5 DEF CliTypeOK, Type
    <3> QED BY <3>1, <3>6
  <2> QED BY <1>7, <2>1, <2>2 DEF User
<1> QED BY <1>2, <1>4, <1>5, <1>6, <1>7 DEF ClientMain

\* The steps of the network.
LEMMA NetworkStepType ==
  ASSUME NetTypeOK, NetNext
  PROVE  NetTypeOK'
<1>1. ASSUME NEW c \in Clients, Deliver(c) PROVE NetTypeOK'
  <2>1. /\ Head(out[c]) \in UpSegments /\ Tail(out[c]) \in Seq(UpSegments)
        /\ in[c] \in Seq(UpSegments)
    BY <1>1 DEF NetTypeOK, Deliver
  <2>2. Append(in[c], Head(out[c])) \in Seq(UpSegments)
    BY <2>1
  <2> QED BY <1>1, <2>1, <2>2 DEF NetTypeOK, Deliver
<1>2. ASSUME NEW c \in Clients, ResetArrives(c) PROVE NetTypeOK'
  BY <1>2 DEF NetTypeOK, ResetArrives
<1> QED BY <1>1, <1>2 DEF NetNext

\* The process goes away, by itself or killed: only where it was matters.
LEMMA ServerGoneType ==
  ASSUME NetTypeOK, SrvTypeOK, NEW fs, NEW whole \in BOOLEAN, ServerClose(fs, whole),
         pc' \in {"killed", "returned", "stopped"},
         UNCHANGED <<exitFlag, clients, fdRead, cSock, n, cur, toRm, cnt, ptr>>,
         cnt = 0 /\ ptr = 0
  PROVE  NetTypeOK' /\ SrvTypeOK' /\ CountersOK'
<1>1. NetTypeOK'
  BY ServerCloseType
<1>2. SrvTypeOK'
  BY DEF SrvTypeOK
<1>3. CountersOK'
  BY DEF CountersOK
<1> QED BY <1>1, <1>2, <1>3

\* At the head of the loop everything in use is registered.
LEMMA RegisteredType ==
  ASSUME RegistryInv, pc = "top"
  PROVE  Registered \subseteq Fds
<1>1. \A i \in 0 .. clients.len - 1 : clients.buf[i] \in OpenFds
  BY DEF RegistryInv, Listed, Up, Running
<1> QED BY <1>1 DEF Registered, OpenFds

\* processor's answer, when the send() does not kill the process.
LEMMA ReplyType ==
  ASSUME NetTypeOK, SrvTypeOK, CountersOK, NEW c, NEW msg \in DownMessages,
         pc \in {"filter", "body"}, in' \in [Clients -> Seq(UpSegments)],
         ServerSend(c, msg) \/ UNCHANGED <<down, rst>>,
         UNCHANGED toRm \/ toRm' = Append(toRm, n),
         pc' = "filter", n' = n + 1, cur' = "none",
         UNCHANGED <<link, open, out, backlog, fd, exitFlag, clients, fdRead, cSock, cnt, ptr>>
  PROVE  NetTypeOK' /\ SrvTypeOK' /\ CountersOK'
<1>1. down' \in [Clients -> Seq(DownMessages)] /\ rst' \in [Clients -> {"none", "flying", "arrived"}]
  BY ServerSendType DEF NetTypeOK
<1>2. NetTypeOK'
  BY <1>1 DEF NetTypeOK
<1>3. n \in Nat /\ n + 1 \in Nat
  BY DEF CountersOK
<1>4. toRm' \in Seq(Nat)
  <2>1. Append(toRm, n) \in Seq(Nat)
    BY <1>3 DEF SrvTypeOK
  <2> QED BY <2>1 DEF SrvTypeOK
<1>5. SrvTypeOK'
  BY <1>3, <1>4 DEF SrvTypeOK, Running
<1>6. CountersOK'
  BY <1>3 DEF CountersOK
<1> QED BY <1>2, <1>5, <1>6

LEMMA ServerStepType ==
  ASSUME NetAssumption, NetTypeOK, SrvTypeOK, CountersOK, RegistryInv, SrvNext
  PROVE  NetTypeOK' /\ SrvTypeOK' /\ CountersOK'
<1>a. ASSUME GoFilter PROVE pc' = "filter" /\ n' = 0 /\ toRm' = <<>> /\ toRm' \in Seq(Nat)
  BY <1>a DEF GoFilter
<1>k. ASSUME Killed, pc # "compact" PROVE NetTypeOK' /\ SrvTypeOK' /\ CountersOK'
  BY <1>k, ServerGoneType DEF Killed, CountersOK
<1>1. CASE LoopTop
  <2>1. NetTypeOK'
    BY <1>1, NetSame DEF LoopTop
  <2>2. fdRead' \subseteq Fds \cup {ListenFd}
    BY <1>1, RegisteredType DEF LoopTop, Watched, SrvTypeOK
  <2>3. pc' \in Running /\ UNCHANGED <<exitFlag, clients, cSock, n, cur, toRm, cnt, ptr>>
    BY <1>1 DEF LoopTop, Running
  <2>4. SrvTypeOK'
    <3>1. exitFlag' \in BOOLEAN
      BY <2>3 DEF SrvTypeOK
    <3> QED BY <2>2, <2>3, <3>1 DEF SrvTypeOK
  <2>5. CountersOK'
    BY <1>1 DEF LoopTop, CountersOK
  <2> QED BY <2>1, <2>4, <2>5
<1>2. CASE Select
  <2>1. NetTypeOK'
    BY <1>2, NetSame DEF Select
  <2>2. fdRead' \subseteq Fds \cup {ListenFd}
    BY <1>2 DEF Select, SelectOutcome, SrvTypeOK
  <2>3. /\ \/ pc' = "accept" /\ UNCHANGED <<n, toRm>>
           \/ pc' = "filter" /\ n' = 0 /\ toRm' = <<>>
        /\ UNCHANGED <<exitFlag, clients, cSock, cur, cnt, ptr>>
    BY <1>2 DEF Select, GoFilter
  <2>4. SrvTypeOK'
    <3>1. pc' \in Running
      BY <2>3 DEF Running
    <3>2. toRm' \in Seq(Nat)
      <4>1. UNCHANGED toRm \/ toRm' = <<>>
        BY <2>3
      <4> QED BY <4>1, EmptySeq DEF SrvTypeOK
    <3>3. n' \in Int
      <4>1. UNCHANGED n \/ n' = 0
        BY <2>3
      <4> QED BY <4>1 DEF SrvTypeOK
    <3> QED BY <2>2, <2>3, <3>1, <3>2, <3>3 DEF SrvTypeOK
  <2>5. CountersOK'
    BY <1>2, <2>3 DEF Select, CountersOK
  <2> QED BY <2>1, <2>4, <2>5
<1>3. CASE Accept
  <2>1. CASE GoFilter /\ UNCHANGED <<cSock, netVars>>
    <3>1. NetTypeOK'
      BY <2>1, NetSame
    <3>2. SrvTypeOK'
      BY <1>3, <1>a, <2>1 DEF Accept, SrvTypeOK, Running
    <3>3. CountersOK'
      BY <1>3, <1>a, <2>1 DEF Accept, CountersOK
    <3> QED BY <3>1, <3>2, <3>3
  <2>2. ASSUME NEW f \in Fds,
               fd' = [fd EXCEPT ![f] = Head(backlog)],
               link' = [link EXCEPT ![Head(backlog)] = "accepted"],
               backlog' = Tail(backlog), cSock' = f, pc' = "join", n' = LastIndex,
               UNCHANGED <<open, out, in, down, rst, toRm>>
        PROVE  NetTypeOK' /\ SrvTypeOK' /\ CountersOK'
    <3>1. Head(backlog) \in Clients /\ Tail(backlog) \in Seq(Clients)
      BY <1>3 DEF Accept, NetTypeOK
    <3>2. NetTypeOK'
      BY <2>2, <3>1 DEF NetTypeOK
    <3>3. n' \in Int
      BY <2>2 DEF LastIndex, SrvTypeOK, D!IsDynArr
    <3>4. SrvTypeOK'
      BY <1>3, <2>2, <3>3 DEF Accept, SrvTypeOK, Running
    <3>5. CountersOK'
      BY <1>3, <2>2 DEF Accept, CountersOK
    <3> QED BY <3>2, <3>4, <3>5
  <2>3. CASE OpenFds # Fds
    <3>1. PICK k \in 0 .. MaxFd : OpenFds = 1 .. k
      BY <1>3 DEF Accept, RegistryInv, Up, Running
    <3>2. /\ k + 1 \in Fds \ OpenFds
          /\ \A y \in Fds \ OpenFds : k + 1 <= y
      BY <2>3, <3>1 DEF NetAssumption, Fds
    <3> DEFINE f == CHOOSE x \in Fds \ OpenFds : \A y \in Fds \ OpenFds : x <= y
    <3>3. f \in Fds
      BY <3>2
    <3>4. /\ fd' = [fd EXCEPT ![f] = Head(backlog)]
          /\ link' = [link EXCEPT ![Head(backlog)] = "accepted"]
          /\ backlog' = Tail(backlog) /\ cSock' = f /\ pc' = "join" /\ n' = LastIndex
          /\ UNCHANGED <<open, out, in, down, rst, toRm>>
      BY <1>3, <2>3 DEF Accept
    <3> HIDE DEF f
    <3> QED BY <2>2, <3>3, <3>4
  <2> QED BY <1>3, <2>1, <2>3 DEF Accept
<1>4. CASE JoinSend
  <2>1. CASE Killed
    BY <1>4, <1>k, <2>1 DEF JoinSend
  <2>2. CASE ~Killed
    <3>1. PICK c : /\ ServerSend(c, "NEW_USER_JOIN") \/ UNCHANGED <<down, rst>>
                   /\ n' = n - 1
                   /\ UNCHANGED <<link, open, out, in, backlog, fd, pc, exitFlag, clients,
                                  fdRead, cSock, cur, toRm, cnt, ptr>>
      BY <1>4, <2>2 DEF JoinSend
    <3>2. down' \in [Clients -> Seq(DownMessages)] /\ rst' \in [Clients -> {"none", "flying", "arrived"}]
      BY <3>1, ServerSendType DEF NetTypeOK, DownMessages
    <3>3. NetTypeOK'
      BY <3>1, <3>2 DEF NetTypeOK
    <3>4. SrvTypeOK'
      BY <3>1 DEF SrvTypeOK
    <3>5. CountersOK'
      BY <1>4, <3>1 DEF JoinSend, CountersOK
    <3> QED BY <3>3, <3>4, <3>5
  <2> QED BY <2>1, <2>2
<1>5. CASE JoinInsert
  <2>1. NetTypeOK'
    BY <1>5, NetSame DEF JoinInsert
  <2>2. cSock \in Fds /\ L!IsDynArr(clients) /\ clients.len \in Nat
    BY <1>5, SameOps DEF JoinInsert, CountersOK, SrvTypeOK, D!IsDynArr
  <2>3. clients' = L!Insert(clients, clients.len, cSock)
    BY <1>5, SameOps DEF JoinInsert
  <2>4. L!IsDynArr(clients')
    BY <2>2, <2>3, L!InsertOK
  <2>5. D!IsDynArr(clients')
    BY <2>4, SameOps
  <2>6. SrvTypeOK'
    BY <1>5, <1>a, <2>5 DEF JoinInsert, SrvTypeOK, Running
  <2>7. CountersOK'
    BY <1>5, <1>a DEF JoinInsert, CountersOK
  <2> QED BY <2>1, <2>6, <2>7
<1>6. CASE FilterSkip
  <2>1. NetTypeOK'
    BY <1>6, NetSame DEF FilterSkip
  <2>2. SrvTypeOK'
    BY <1>6 DEF FilterSkip, SrvTypeOK
  <2>3. CountersOK'
    BY <1>6 DEF FilterSkip, CountersOK
  <2> QED BY <2>1, <2>2, <2>3
<1>7. CASE ReadHeader
  <2> DEFINE c == fd[clients.buf[n]]
  <2>0. pc = "filter" /\ n \in Nat /\ cnt = 0 /\ ptr = 0
    BY <1>7 DEF ReadHeader, CountersOK
  <2>1. [in EXCEPT ![c] = Tail(@)] \in [Clients -> Seq(UpSegments)]
    <3>1. ASSUME c \in Clients PROVE Tail(in[c]) \in Seq(UpSegments)
      BY <1>7, <3>1 DEF ReadHeader, NetTypeOK
    <3> QED BY <3>1 DEF NetTypeOK
  <2> HIDE DEF c
  <2>2. CASE /\ toRm' = Append(toRm, n) /\ n' = n + 1
             /\ UNCHANGED <<pc, cur, exitFlag, clients, fdRead, cSock, cnt, ptr, netVars>>
    <3>1. NetTypeOK'
      BY <2>2, NetSame
    <3>2. SrvTypeOK'
      BY <2>0, <2>2 DEF SrvTypeOK
    <3>3. CountersOK'
      BY <2>0, <2>2 DEF CountersOK
    <3> QED BY <3>1, <3>2, <3>3
  <2>3. CASE /\ cur' \in Requests /\ pc' = "body"
             /\ in' = [in EXCEPT ![c] = Tail(@)]
             /\ UNCHANGED <<link, open, out, down, rst, backlog, fd, exitFlag, clients,
                            fdRead, cSock, n, toRm, cnt, ptr>>
    <3>1. NetTypeOK'
      BY <2>1, <2>3 DEF NetTypeOK
    <3>2. SrvTypeOK'
      BY <2>3 DEF SrvTypeOK, Running
    <3>3. CountersOK'
      BY <2>0, <2>3 DEF CountersOK
    <3> QED BY <3>1, <3>2, <3>3
  <2>4. CASE in' = [in EXCEPT ![c] = Tail(@)] /\ ReplyAndReturn(c, "ERROR", TRUE)
    <3>1. "ERROR" \in DownMessages /\ pc \in {"filter", "body"}
      BY <2>0 DEF DownMessages
    <3>2. in' \in [Clients -> Seq(UpSegments)]
      BY <2>1, <2>4
    <3> QED BY <2>4, <3>1, <3>2, ReplyType DEF ReplyAndReturn
  <2>5. CASE Killed
    BY <1>k, <2>0, <2>5
  <2> QED BY <1>7, <2>2, <2>3, <2>4, <2>5 DEF ReadHeader, c
<1>8. CASE ReadBody
  <2> DEFINE c == fd[clients.buf[n]]
  <2>0. pc = "body" /\ n \in Nat /\ cnt = 0 /\ ptr = 0
    BY <1>8 DEF ReadBody, CountersOK
  <2>1. in \in [Clients -> Seq(UpSegments)] /\ [in EXCEPT ![c] = Tail(@)] \in [Clients -> Seq(UpSegments)]
    <3>1. ASSUME c \in Clients PROVE Tail(in[c]) \in Seq(UpSegments)
      BY <1>8, <3>1 DEF ReadBody, NetTypeOK
    <3> QED BY <3>1 DEF NetTypeOK
  <2> HIDE DEF c
  <2>2. CASE /\ in' = in \/ in' = [in EXCEPT ![c] = Tail(@)]
             /\ ReplyAndReturn(c, ResultOf(cur), cur = "LOGOUT")
    <3>1. ResultOf(cur) \in DownMessages /\ pc \in {"filter", "body"}
      BY <2>0 DEF ResultOf, DownMessages, Results
    <3>2. in' \in [Clients -> Seq(UpSegments)]
      BY <2>1, <2>2
    <3> QED BY <2>2, <3>1, <3>2, ReplyType DEF ReplyAndReturn
  <2>3. CASE Killed
    BY <1>k, <2>0, <2>3
  <2> QED BY <1>8, <2>2, <2>3 DEF ReadBody, c
<1>9. CASE FilterDone
  <2>1. NetTypeOK'
    BY <1>9, NetSame DEF FilterDone
  <2>2. SrvTypeOK'
    BY <1>9 DEF FilterDone, SrvTypeOK, Running
  <2>3. CountersOK'
    BY <1>9 DEF FilterDone, CountersOK, SrvTypeOK, D!IsDynArr
  <2> QED BY <2>1, <2>2, <2>3
<1>10. CASE CompactStep
  <2>0. /\ n \in Nat /\ cnt \in Nat /\ ptr \in Nat /\ cnt <= n /\ n < clients.len
        /\ clients.len \in Nat /\ clients.cap \in Nat /\ clients.len <= clients.cap
        /\ n \in 0 .. clients.cap - 1
    BY <1>10 DEF CompactStep, CountersOK, SrvTypeOK, D!IsDynArr
  <2>1. NetTypeOK'
    BY <1>10, NetSame DEF CompactStep
  <2>2. (cnt' = cnt /\ ptr' = ptr) \/ (cnt' = cnt + 1 /\ ptr' = ptr + 1)
    BY <1>10 DEF CompactStep
  <2>3. D!IsDynArr(clients')
    <3>1. clients' = [buf |-> [clients.buf EXCEPT ![n - cnt] = clients.buf[n]],
                      len |-> clients.len, cap |-> clients.cap]
      BY <1>10 DEF CompactStep, SrvTypeOK, D!IsDynArr
    <3>2. clients.buf[n] \in Fds \cup {Junk}
      BY <2>0 DEF SrvTypeOK, D!IsDynArr
    <3> QED BY <2>0, <3>1, <3>2 DEF SrvTypeOK, D!IsDynArr
  <2>4. cnt' \in Nat /\ ptr' \in Nat /\ n' = n + 1 /\ cnt' <= n' /\ n' <= clients.len
    BY <1>10, <2>0, <2>2 DEF CompactStep
  <2>5. SrvTypeOK'
    BY <1>10, <2>0, <2>3, <2>4, SMTT(40) DEF CompactStep, SrvTypeOK
  <2>6. clients'.len = clients.len
    BY <1>10 DEF CompactStep, SrvTypeOK, D!IsDynArr
  <2>7. CountersOK'
    BY <1>10, <2>0, <2>4, <2>6 DEF CompactStep, CountersOK
  <2> QED BY <2>1, <2>5, <2>7
<1>11. CASE CompactDone
  <2>1. NetTypeOK'
    BY <1>11, NetSame DEF CompactDone
  <2>2. Kept \in 0 .. clients.len
    BY <1>11 DEF CompactDone, Kept, CountersOK, SrvTypeOK, D!IsDynArr
  <2>3. L!IsDynArr(clients')
    <3>1. clients' = L!Resize(clients, Kept) /\ L!IsDynArr(clients)
      BY <1>11, SameOps DEF CompactDone, SrvTypeOK
    <3> QED BY <2>2, <3>1, L!ResizeOK
  <2>4. D!IsDynArr(clients')
    BY <2>3, SameOps
  <2>5. SrvTypeOK'
    BY <1>11, <2>4 DEF CompactDone, SrvTypeOK, Running
  <2>6. CountersOK'
    BY <1>11 DEF CompactDone, CountersOK
  <2> QED BY <2>1, <2>5, <2>6
<1>12. CASE Uninit
  BY <1>12, ServerGoneType DEF Uninit, CountersOK
<1>13. CASE ProcessExit
  BY <1>13, ServerGoneType DEF ProcessExit, CountersOK
<1>14. CASE TypeE
  <2>1. NetTypeOK'
    BY <1>14, NetSame DEF TypeE
  <2>2. SrvTypeOK'
    BY <1>14 DEF TypeE, SrvTypeOK
  <2>3. CountersOK'
    BY <1>14 DEF TypeE, CountersOK
  <2> QED BY <2>1, <2>2, <2>3
<1> QED BY <1>1, <1>2, <1>3, <1>4, <1>5, <1>6, <1>7, <1>8, <1>9, <1>10, <1>11, <1>12,
           <1>13, <1>14 DEF SrvNext, MainThread

-----------------------------------------------------------------------------
(* The registry, step by step. *)

\* A step that leaves g_clients and the descriptors alone and lists no new slot.
LEMMA RegistryFrame ==
  ASSUME RegistryInv, UNCHANGED <<clients, fd>>, Up' => Up, Listed' \subseteq Listed,
         pc' = "join" => pc = "join" /\ UNCHANGED cSock
  PROVE  RegistryInv'
<1>1. OpenFds' = OpenFds
  BY DEF OpenFds
<1> SUFFICES ASSUME Up' PROVE RegistryInv'
  BY DEF RegistryInv
<1> QED BY <1>1 DEF RegistryInv

\* The descriptors belong to the server: no other process touches the table.
LEMMA OthersKeepFds ==
  (Network \/ Peers) => UNCHANGED <<fd, srvVars>>
<1>1. Network => UNCHANGED <<fd, srvVars>>
  BY DEF Network, NetNext, Deliver, ResetArrives
<1>2. ASSUME NEW c \in Clients, ClientMain(c, Up) \/ User(c) PROVE UNCHANGED fd
  BY <1>2 DEF ClientMain, User, Connect, ConnectOk, ConnectRefused, Leave, Close, ClientClose,
              SelectTimeout, netVars, Receive, Consume, ClientSend, Type, TypeExit
<1> QED BY <1>1, <1>2 DEF Peers, CliNext

LEMMA GoneKeeps ==
  ASSUME pc' \in {"killed", "returned", "stopped"} PROVE RegistryInv'
  BY DEF RegistryInv, Up, Running

\* accept() takes the descriptor behind the last one that is open.
LEMMA AcceptKeeps ==
  ASSUME NetAssumption, NetTypeOK, SrvTypeOK, CountersOK, RegistryInv, Accept
  PROVE  RegistryInv'
<1>0. pc = "accept" /\ backlog # <<>> /\ Up /\ UNCHANGED clients
  BY DEF Accept, Up, Running
<1>1. CASE GoFilter /\ UNCHANGED <<cSock, netVars>>
  <2>1. Listed' \subseteq Listed
    BY <1>0, <1>1 DEF Listed, GoFilter
  <2> QED BY <1>0, <1>1, <2>1, RegistryFrame DEF GoFilter, netVars
<1>2. CASE OpenFds # Fds
  <2>1. PICK k \in 0 .. MaxFd : OpenFds = 1 .. k
    BY <1>0 DEF RegistryInv
  <2>2. /\ k + 1 \in Fds \ OpenFds
        /\ \A y \in Fds \ OpenFds : k + 1 <= y
    BY <1>2, <2>1 DEF NetAssumption, Fds
  <2> DEFINE f == CHOOSE x \in Fds \ OpenFds : \A y \in Fds \ OpenFds : x <= y
  <2>3. f = k + 1
    <3>1. f \in Fds \ OpenFds /\ \A y \in Fds \ OpenFds : f <= y
      BY <2>2
    <3> QED BY <2>2, <3>1 DEF Fds
  <2>4. fd' = [fd EXCEPT ![f] = Head(backlog)] /\ cSock' = f /\ pc' = "join"
    BY <1>2 DEF Accept
  <2> HIDE DEF f
  <2>5. Head(backlog) \in Clients
    BY <1>0 DEF NetTypeOK
  <2>6. OpenFds' = 1 .. k + 1
    <3>1. \A x \in Fds : fd'[x] # None <=> x \in OpenFds \/ x = k + 1
      BY <2>2, <2>3, <2>4, <2>5 DEF NetTypeOK, NetAssumption, OpenFds
    <3> QED BY <2>1, <2>2, <3>1 DEF OpenFds, Fds, NetAssumption
  <2>7. Listed' = Listed
    BY <1>0, <2>4 DEF Listed
  <2>8. k + 1 \in 0 .. MaxFd
    BY <2>2 DEF Fds, NetAssumption
  <2>9. \A i \in Listed : clients.buf[i] \in 1 .. k
    BY <1>0, <2>1 DEF RegistryInv
  <2>10. \A i, j \in Listed : i < j => clients.buf[i] < clients.buf[j]
    BY <1>0 DEF RegistryInv
  <2> QED BY <1>0, <2>1, <2>3, <2>4, <2>6, <2>7, <2>8, <2>9, <2>10 DEF RegistryInv
<1> QED BY <1>1, <1>2 DEF Accept

\* The accepted descriptor goes in behind all the registered ones.
LEMMA JoinInsertKeeps ==
  ASSUME NetTypeOK, SrvTypeOK, CountersOK, RegistryInv, JoinInsert
  PROVE  RegistryInv'
<1>0. pc = "join" /\ pc' = "filter" /\ Up /\ UNCHANGED fd /\ cSock \in Fds
  BY DEF JoinInsert, GoFilter, Up, Running, netVars, CountersOK
<1>1. L!IsDynArr(clients) /\ clients.len \in Nat /\ clients' = L!Insert(clients, clients.len, cSock)
  BY SameOps DEF JoinInsert, SrvTypeOK, D!IsDynArr
<1>2. /\ clients'.len = clients.len + 1 /\ clients'.buf[clients.len] = cSock
      /\ \A i \in 0 .. clients.len - 1 : clients'.buf[i] = clients.buf[i]
  BY <1>0, <1>1, L!InsertOK
<1>3. Listed = 0 .. clients.len - 1 /\ Listed' = 0 .. clients.len
  BY <1>0, <1>1, <1>2 DEF Listed
<1>4. OpenFds' = OpenFds
  BY <1>0 DEF OpenFds
<1>5. /\ \E k \in 0 .. MaxFd : OpenFds = 1 .. k
      /\ cSock \in OpenFds
      /\ \A i \in Listed : clients.buf[i] \in OpenFds /\ clients.buf[i] < cSock
      /\ \A i, j \in Listed : i < j => clients.buf[i] < clients.buf[j]
  BY <1>0 DEF RegistryInv
<1>6. \A i \in Listed' : clients'.buf[i] \in OpenFds'
  BY <1>1, <1>2, <1>3, <1>4, <1>5
<1>7. \A i, j \in Listed' : i < j => clients'.buf[i] < clients'.buf[j]
  BY <1>1, <1>2, <1>3, <1>5, SMTT(40)
<1> QED BY <1>0, <1>4, <1>5, <1>6, <1>7 DEF RegistryInv

\* The compaction moves a slot that counts down into one that does not; a hit
\* makes the moved one the next to be overwritten, whatever the hit is.
LEMMA CompactStepKeeps ==
  ASSUME NetTypeOK, SrvTypeOK, CountersOK, RegistryInv, CompactStep
  PROVE  RegistryInv'
<1>0. /\ pc = "compact" /\ pc' = "compact" /\ Up /\ UNCHANGED fd /\ n' = n + 1
      /\ (cnt' = cnt \/ cnt' = cnt + 1)
  BY DEF CompactStep, Up, Running, netVars
<1>1. /\ n \in Nat /\ cnt \in Nat /\ cnt <= n /\ n < clients.len
      /\ clients.len \in Nat /\ clients.cap \in Nat /\ clients.len <= clients.cap
      /\ DOMAIN clients.buf = 0 .. clients.cap - 1
  BY DEF CompactStep, CountersOK, SrvTypeOK, D!IsDynArr
<1>2. clients' = [buf |-> [clients.buf EXCEPT ![n - cnt] = clients.buf[n]],
                  len |-> clients.len, cap |-> clients.cap]
  BY DEF CompactStep, SrvTypeOK, D!IsDynArr
<1>3. /\ clients'.len = clients.len
      /\ clients'.buf[n - cnt] = clients.buf[n]
      /\ \A i \in 0 .. clients.len - 1 : i # n - cnt => clients'.buf[i] = clients.buf[i]
  BY <1>1, <1>2
<1>4. OpenFds' = OpenFds
  BY <1>0 DEF OpenFds
<1>5. /\ \E k \in 0 .. MaxFd : OpenFds = 1 .. k
      /\ \A i \in Listed : clients.buf[i] \in OpenFds
      /\ \A i, j \in Listed : i < j => clients.buf[i] < clients.buf[j]
  BY <1>0 DEF RegistryInv
<1>6. Listed = {i \in 0 .. clients.len - 1 : i < n - cnt \/ n <= i}
  BY <1>0 DEF Listed
<1>7. \A i \in Listed' : /\ i \in 0 .. clients.len - 1
                         /\ (i < n - cnt \/ n + 1 <= i \/ i = n - cnt)
  BY <1>0, <1>1, <1>3 DEF Listed
<1>8. n \in Listed
  BY <1>1, <1>6
<1>9. \A i \in Listed' : /\ i # n - cnt => i \in Listed /\ clients'.buf[i] = clients.buf[i]
                         /\ i = n - cnt => clients'.buf[i] = clients.buf[n]
  BY <1>1, <1>3, <1>6, <1>7
<1>10. \A i \in Listed' : clients'.buf[i] \in OpenFds'
  BY <1>4, <1>5, <1>8, <1>9
<1>11. ASSUME NEW i \in Listed', NEW j \in Listed', i < j
       PROVE  clients'.buf[i] < clients'.buf[j]
  <2>1. CASE i = n - cnt
    <3>1. j \in Listed /\ n < j /\ clients'.buf[j] = clients.buf[j]
      BY <1>1, <1>7, <1>9, <1>11, <2>1
    <3> QED BY <1>5, <1>8, <1>9, <2>1, <3>1
  <2>2. CASE j = n - cnt
    <3>1. i \in Listed /\ i < n /\ clients'.buf[i] = clients.buf[i]
      BY <1>1, <1>7, <1>9, <1>11, <2>2
    <3> QED BY <1>5, <1>8, <1>9, <2>2, <3>1
  <2>3. CASE i # n - cnt /\ j # n - cnt
    BY <1>5, <1>9, <1>11, <2>3
  <2> QED BY <2>1, <2>2, <2>3
<1> QED BY <1>0, <1>4, <1>5, <1>10, <1>11 DEF RegistryInv

\* What is kept is a prefix of the slots that count.
LEMMA CompactDoneKeeps ==
  ASSUME NetTypeOK, SrvTypeOK, CountersOK, RegistryInv, CompactDone
  PROVE  RegistryInv'
<1>0. pc = "compact" /\ pc' = "top" /\ Up /\ UNCHANGED fd
  BY DEF CompactDone, Up, Running, netVars
<1>1. /\ n = clients.len /\ cnt \in Nat /\ cnt <= n /\ clients.len \in Nat
      /\ Kept \in 0 .. clients.len
  BY DEF CompactDone, Kept, CountersOK, SrvTypeOK, D!IsDynArr
<1>2. clients' = L!Resize(clients, Kept) /\ L!IsDynArr(clients)
  BY SameOps DEF CompactDone, SrvTypeOK
<1>3. clients' = [buf |-> clients.buf, len |-> Kept, cap |-> clients.cap]
  BY <1>1, <1>2, L!ResizeOK
<1>4. clients'.buf = clients.buf /\ clients'.len = clients.len - cnt
  BY <1>3 DEF Kept
<1>5. Listed' \subseteq Listed
  BY <1>0, <1>1, <1>4 DEF Listed
<1>6. OpenFds' = OpenFds
  BY <1>0 DEF OpenFds
<1> QED BY <1>0, <1>4, <1>5, <1>6 DEF RegistryInv

LEMMA ServerStepRegistry ==
  ASSUME NetAssumption, NetTypeOK, SrvTypeOK, CountersOK, RegistryInv, SrvNext
  PROVE  RegistryInv'
<1>k. ASSUME Killed PROVE RegistryInv'
  BY <1>k, GoneKeeps DEF Killed
<1>1. CASE LoopTop \/ Select \/ FilterSkip \/ FilterDone \/ TypeE
  <2>1. UNCHANGED <<clients, fd>> /\ Up
    BY <1>1 DEF LoopTop, Select, FilterSkip, FilterDone, TypeE, netVars, Up, Running
  <2>2. pc' # "join" \/ (pc' = pc /\ UNCHANGED cSock)
    BY <1>1 DEF LoopTop, Select, GoFilter, FilterSkip, FilterDone, TypeE
  <2>3. Listed' \subseteq Listed
    <3>1. CASE pc' # "compact"
      BY <1>1, <2>1, <3>1 DEF Listed, LoopTop, Select, FilterSkip, FilterDone, TypeE
    <3>2. CASE TypeE
      BY <3>2 DEF Listed, TypeE
    <3>3. CASE FilterDone
      BY <3>3 DEF Listed, FilterDone
    <3>4. CASE LoopTop \/ Select \/ FilterSkip
      BY <3>1, <3>4 DEF LoopTop, Select, GoFilter, FilterSkip
    <3> QED BY <1>1, <3>1, <3>2, <3>3, <3>4
  <2> QED BY <2>1, <2>2, <2>3, RegistryFrame
<1>2. CASE Accept
  BY <1>2, AcceptKeeps
<1>3. CASE JoinInsert
  BY <1>3, JoinInsertKeeps
<1>4. CASE JoinSend /\ ~Killed
  <2>1. UNCHANGED <<clients, fd, pc, cSock>> /\ pc = "join"
    BY <1>4 DEF JoinSend
  <2>2. Listed' = Listed
    BY <2>1 DEF Listed
  <2>3. Up' = Up
    BY <2>1 DEF Up
  <2> QED BY <2>1, <2>2, <2>3, RegistryFrame
<1>5. CASE (ReadHeader \/ ReadBody) /\ ~Killed
  <2>1. UNCHANGED <<clients, fd>> /\ pc \in {"filter", "body"} /\ pc' \in {"filter", "body"}
    BY <1>5 DEF ReadHeader, ReadBody, ReplyAndReturn, netVars
  <2>2. Listed' = Listed
    BY <2>1 DEF Listed
  <2>3. Up' => Up
    BY <2>1 DEF Up, Running
  <2> QED BY <2>1, <2>2, <2>3, RegistryFrame
<1>6. CASE CompactStep
  BY <1>6, CompactStepKeeps
<1>7. CASE CompactDone
  BY <1>7, CompactDoneKeeps
<1>8. CASE Uninit \/ ProcessExit
  BY <1>8, GoneKeeps DEF Uninit, ProcessExit
<1> QED BY <1>k, <1>1, <1>2, <1>3, <1>4, <1>5, <1>6, <1>7, <1>8 DEF SrvNext, MainThread

-----------------------------------------------------------------------------
(* The invariant holds, and what follows. *)

LEMMA InvInit == NetAssumption /\ ClientAssumption /\ Init => IInv
<1> SUFFICES ASSUME NetAssumption, ClientAssumption, Init PROVE IInv
  OBVIOUS
<1>1. NetTypeOK
  BY EmptySeq DEF Init, NetInit, NetTypeOK
<1>2. L!IsDynArr(L!InitZero)
  BY L!InitZeroOK
<1>3. D!IsDynArr(clients) /\ clients.len = 0
  BY <1>2, SameOps DEF Init, SrvInit, D!InitZero
<1>4. SrvTypeOK
  <2>1. pc \in Running \cup {"returned", "stopped", "killed"}
    BY DEF Init, SrvInit, Running
  <2>2. exitFlag \in BOOLEAN
    BY DEF Init, SrvInit
  <2>3. toRm \in Seq(Nat)
    BY EmptySeq DEF Init, SrvInit
  <2>4. n \in Int /\ cnt \in Nat /\ ptr \in Nat
    BY DEF Init, SrvInit
  <2>5. cur \in Requests \cup {"none"}
    BY DEF Init, SrvInit
  <2>6. fdRead \subseteq Fds \cup {ListenFd} /\ cSock \in Fds \cup {0}
    BY DEF Init, SrvInit
  <2> QED BY <1>3, <2>1, <2>2, <2>3, <2>4, <2>5, <2>6 DEF SrvTypeOK
<1>5. CliTypeOK
  BY EmptySeq DEF Init, CliInit, CliTypeOK, ClientAssumption
<1>6. CountersOK
  BY DEF Init, SrvInit, CountersOK
<1>7. OpenFds = 1 .. 0
  BY DEF Init, NetInit, OpenFds
<1>8. 0 \in 0 .. MaxFd
  BY DEF NetAssumption
<1>9. Listed = {}
  BY <1>3 DEF Listed
<1>10. RegistryInv
  BY <1>7, <1>8, <1>9 DEF Init, SrvInit, RegistryInv
<1> QED BY <1>1, <1>4, <1>5, <1>6, <1>10 DEF IInv, TypeOK

LEMMA InvNext == NetAssumption /\ ClientAssumption /\ IInv /\ [Next]_vars => IInv'
<1> SUFFICES ASSUME NetAssumption, ClientAssumption, IInv, [Next]_vars PROVE IInv'
  OBVIOUS
<1>0. NetTypeOK /\ SrvTypeOK /\ CliTypeOK /\ CountersOK /\ RegistryInv
  BY DEF IInv, TypeOK
<1>1. CASE Server
  <2>1. NetTypeOK' /\ SrvTypeOK' /\ CountersOK' /\ RegistryInv'
    BY <1>0, <1>1, ServerStepType, ServerStepRegistry DEF Server
  <2>2. CliTypeOK'
    BY <1>0, <1>1, CliSame DEF Server
  <2> QED BY <2>1, <2>2 DEF IInv, TypeOK
<1>2. ASSUME UNCHANGED <<fd, srvVars>> PROVE SrvTypeOK' /\ CountersOK' /\ RegistryInv'
  <2>1. SrvTypeOK' /\ CountersOK'
    BY <1>0, <1>2, SrvSame
  <2>2. RegistryInv'
    BY <1>0, <1>2, RegistryFrame DEF srvVars, Listed, Up
  <2> QED BY <2>1, <2>2
<1>3. CASE Network
  <2>1. NetTypeOK' /\ CliTypeOK'
    BY <1>0, <1>3, NetworkStepType, CliSame DEF Network
  <2>2. SrvTypeOK' /\ CountersOK' /\ RegistryInv'
    BY <1>2, <1>3, OthersKeepFds
  <2> QED BY <2>1, <2>2 DEF IInv, TypeOK
<1>4. CASE Peers
  <2>1. Up \in BOOLEAN
    BY DEF Up
  <2>2. NetTypeOK' /\ CliTypeOK'
    BY <1>0, <1>4, <2>1, ClientStepType DEF Peers, CliNext
  <2>3. SrvTypeOK' /\ CountersOK' /\ RegistryInv'
    BY <1>2, <1>4, OthersKeepFds
  <2> QED BY <2>2, <2>3 DEF IInv, TypeOK
<1>5. CASE UNCHANGED vars
  <2>1. NetTypeOK' /\ CliTypeOK'
    BY <1>0, <1>5, NetSame, CliSame DEF vars
  <2>2. SrvTypeOK' /\ CountersOK' /\ RegistryInv'
    BY <1>2, <1>5 DEF vars, netVars
  <2> QED BY <2>1, <2>2 DEF IInv, TypeOK
<1> QED BY <1>1, <1>3, <1>4, <1>5 DEF Next

LEMMA InvAlways == Spec => []IInv
  BY NetAssumption, ClientAssumption, InvInit, InvNext, PTL DEF Spec

\* Type correctness of the whole system; the part that is not obvious is that
\* g_clients stays a well-formed array through insertions and compactions.
THEOREM TypeCorrect == Spec => []TypeOK
<1>1. IInv => TypeOK
  BY DEF IInv
<1> QED BY <1>1, InvAlways, PTL

\* g_clients lists open descriptors in the order of their accept() calls, each
\* one once, for any number of clients, through every compaction of Tools.c:77-86,
\* and even when the slot behind t_idxToRm reads as an index.
THEOREM RegistryOrdered == Spec => []RegistryInJoinOrder
<1>1. IInv => RegistryInJoinOrder
  <2> SUFFICES ASSUME IInv, Steady PROVE /\ Registered \subseteq OpenFds
                                         /\ \A i, j \in 0 .. clients.len - 1 :
                                              i < j => clients.buf[i] < clients.buf[j]
    BY DEF RegistryInJoinOrder
  <2>1. Listed = 0 .. clients.len - 1
    BY DEF Steady, Listed
  <2> QED BY <2>1 DEF IInv, RegistryInv, Steady, Registered
<1> QED BY <1>1, InvAlways, PTL

\* The server never closes a descriptor while it runs: once its table is full, it
\* stays full, whoever leaves (Tools.c:77-86).
THEOREM FullTableStaysFull == Spec => FullStaysFull
<1>1. [Next]_vars => [(Up /\ Up' /\ OpenFds = Fds) => OpenFds' = Fds]_vars
  <2> SUFFICES ASSUME Next, Up, Up', OpenFds = Fds PROVE UNCHANGED fd
    BY DEF OpenFds, vars
  <2>1. CASE Server
    <3>1. ~Killed /\ ~Uninit /\ ~ProcessExit
      BY DEF Killed, Uninit, ProcessExit, Up, Running
    <3>2. CASE Accept
      BY <3>2 DEF Accept, netVars
    <3>3. CASE JoinSend \/ ReadHeader \/ ReadBody
      BY <3>1, <3>3 DEF JoinSend, ReadHeader, ReadBody, ReplyAndReturn, netVars
    <3>4. CASE LoopTop \/ Select \/ JoinInsert \/ FilterSkip \/ FilterDone
               \/ CompactStep \/ CompactDone \/ TypeE
      BY <3>4 DEF LoopTop, Select, JoinInsert, FilterSkip, FilterDone, CompactStep,
                  CompactDone, TypeE, netVars
    <3> QED BY <2>1, <3>1, <3>2, <3>3, <3>4 DEF Server, SrvNext, MainThread
  <2>2. CASE Network \/ Peers
    BY <2>2, OthersKeepFds
  <2> QED BY <2>1, <2>2 DEF Next
<1> QED BY <1>1, PTL DEF Spec, FullStaysFull

-----------------------------------------------------------------------------
(* Answered. *)

\* x has the requests that the results in r answer.
Answers(r, x) == Len(x) = Len(r) /\ \A i \in 1 .. Len(r) : x[i] = AsRequest(r[i])

LEMMA AnsweredAt ==
  ASSUME NEW T, NEW s \in Seq(T)
  PROVE  Answered(s) \in Seq(Requests) /\ Answers(Only(s, Results), Answered(s))
<1>1. Only(s, Results) \in Seq(Results)
  BY OnlyType
<1> DEFINE r == Only(s, Results)
<1>2. Len(r) \in Nat
  BY <1>1
<1>3. Answered(s) = [i \in 1 .. Len(r) |-> AsRequest(r[i])]
  BY DEF Answered
<1> HIDE DEF r
<1>4. \A x : AsRequest(x) \in Requests
  BY DEF AsRequest, Requests
<1>5. Answered(s) \in Seq(Requests) /\ Len(Answered(s)) = Len(r)
  BY <1>2, <1>3, <1>4
<1>6. \A i \in 1 .. Len(r) : Answered(s)[i] = AsRequest(r[i])
  BY <1>3
<1> QED BY <1>5, <1>6 DEF r, Answers

\* Concatenation, element by element.
ConcatAt(S) ==
  \A s, t \in Seq(S) :
    /\ s \o t \in Seq(S) /\ Len(s \o t) = Len(s) + Len(t)
    /\ \A i \in 1 .. Len(s) + Len(t) : (s \o t)[i] = IF i <= Len(s) THEN s[i] ELSE t[i - Len(s)]

LEMMA ConcatIsAt == ASSUME NEW S PROVE ConcatAt(S)
  BY ConcatProperties DEF ConcatAt

AnswersConcat(R, Q) ==
  \A a, b \in Seq(R) : \A x, y, z \in Seq(Q) :
    Answers(a, x) /\ Answers(b, y) /\ Answers(a \o b, z) => z = x \o y

LEMMA AnswersConcatOK == ASSUME NEW R, NEW Q PROVE AnswersConcat(R, Q)
<1> SUFFICES ASSUME NEW a \in Seq(R), NEW b \in Seq(R),
                    NEW x \in Seq(Q), NEW y \in Seq(Q), NEW z \in Seq(Q),
                    Answers(a, x), Answers(b, y), Answers(a \o b, z)
             PROVE  z = x \o y
  BY DEF AnswersConcat
<1>a. ConcatAt(R) /\ ConcatAt(Q)
  BY ConcatIsAt
<1>1. /\ Len(a \o b) = Len(a) + Len(b) /\ Len(a) \in Nat /\ Len(b) \in Nat
      /\ \A i \in 1 .. Len(a) + Len(b) : (a \o b)[i] = IF i <= Len(a) THEN a[i] ELSE b[i - Len(a)]
  BY <1>a DEF ConcatAt
<1>2. /\ x \o y \in Seq(Q) /\ Len(x \o y) = Len(x) + Len(y)
      /\ \A i \in 1 .. Len(x) + Len(y) : (x \o y)[i] = IF i <= Len(x) THEN x[i] ELSE y[i - Len(x)]
  BY <1>a, Zenon DEF ConcatAt
<1>3. /\ Len(x) = Len(a) /\ Len(y) = Len(b) /\ Len(z) = Len(a) + Len(b)
      /\ \A i \in 1 .. Len(a) : x[i] = AsRequest(a[i])
      /\ \A i \in 1 .. Len(b) : y[i] = AsRequest(b[i])
      /\ \A i \in 1 .. Len(a) + Len(b) : z[i] = AsRequest((a \o b)[i])
  BY <1>1 DEF Answers
<1>4. ASSUME NEW i \in 1 .. Len(a) + Len(b) PROVE z[i] = (x \o y)[i]
  <2>1. z[i] = AsRequest((a \o b)[i])
    BY <1>3
  <2>2. CASE i <= Len(a)
    <3>1. i \in 1 .. Len(a)
      BY <1>1, <2>2
    <3> QED BY <1>1, <1>2, <1>3, <2>1, <2>2, <3>1
  <2>3. CASE ~(i <= Len(a))
    <3>1. i - Len(a) \in 1 .. Len(b)
      BY <1>1, <2>3
    <3> QED BY <1>1, <1>2, <1>3, <2>1, <2>3, <3>1, ZenonT(40)
  <2> QED BY <2>2, <2>3
<1> QED BY <1>2, <1>3, <1>4, SeqEqual

LEMMA AnsweredConcat ==
  ASSUME NEW T, NEW s \in Seq(T), NEW t \in Seq(T)
  PROVE  Answered(s \o t) = Answered(s) \o Answered(t)
<1> DEFINE st == s \o t
<1>1. st \in Seq(T)
  BY ConcatProperties
<1>2. Only(st, Results) = Only(s, Results) \o Only(t, Results)
  BY OnlyConcat
<1> HIDE DEF st
<1>3. Only(s, Results) \in Seq(Results) /\ Only(t, Results) \in Seq(Results)
  BY OnlyType
<1>4. Answered(s) \in Seq(Requests) /\ Answers(Only(s, Results), Answered(s))
  BY AnsweredAt
<1>5. Answered(t) \in Seq(Requests) /\ Answers(Only(t, Results), Answered(t))
  BY AnsweredAt
<1>6. Answered(st) \in Seq(Requests)
      /\ Answers(Only(s, Results) \o Only(t, Results), Answered(st))
  BY <1>1, <1>2, AnsweredAt
<1>7. AnswersConcat(Results, Requests)
  BY AnswersConcatOK
<1>8. Answered(st) = Answered(s) \o Answered(t)
  BY <1>3, <1>4, <1>5, <1>6, <1>7, Zenon DEF AnswersConcat
<1> QED BY <1>8 DEF st

LEMMA AnsweredEmpty == Answered(<<>>) = <<>>
<1>1. Only(<<>>, Results) = <<>>
  BY OnlyEmpty
<1>2. <<>> \in Seq({})
  BY EmptySeq
<1>3. Answered(<<>>) \in Seq(Requests) /\ Len(Answered(<<>>)) = 0
  BY <1>1, <1>2, AnsweredAt DEF Answers
<1> QED BY <1>3

LEMMA AnsweredSingle ==
  ASSUME NEW x
  PROVE  Answered(<<x>>) = IF x \in Results THEN <<AsRequest(x)>> ELSE <<>>
<1> DEFINE e == <<x>>
           o == Only(e, Results)
<1>1. e \in Seq({x})
  OBVIOUS
<1>2. o = IF x \in Results THEN <<x>> ELSE <<>>
  BY OnlySingle
<1> DEFINE a == Answered(e)
<1> HIDE DEF e
<1>3. a \in Seq(Requests) /\ Len(a) = Len(o) /\ \A i \in 1 .. Len(o) : a[i] = AsRequest(o[i])
  BY <1>1, AnsweredAt DEF Answers
<1> HIDE DEF o, a
<1>4. CASE x \in Results
  <2>1. Len(a) = 1 /\ a[1] = AsRequest(x)
    BY <1>2, <1>3, <1>4
  <2>2. a = <<AsRequest(x)>>
    BY <1>3, <2>1
  <2> QED BY <1>4, <2>2 DEF a, e
<1>5. CASE x \notin Results
  <2>1. Len(a) = 0
    BY <1>2, <1>3, <1>5
  <2>2. a = <<>>
    BY <1>3, <2>1
  <2> QED BY <1>5, <2>2 DEF a, e
<1> QED BY <1>4, <1>5

-----------------------------------------------------------------------------
(* The inductive invariant. *)

\* What a client's process, its socket and the server's tables say of it agree:
\* a client talks only once connected and is talked to only once accepted, and
\* each connection is in one place.
PeerInv ==
  /\ \A c \in Clients : cpc[c] = "start" => link[c] = "idle"
  /\ \A c \in Clients : link[c] = "idle" => in[c] = <<>> /\ out[c] = <<>> /\ sent[c] = <<>>
  /\ \A c \in Clients : link[c] \in {"idle", "queued"} =>
       down[c] = <<>> /\ got[c] = <<>> /\ joins[c] = 0
  /\ \A c \in Clients : Up => link[c] # "down"
  /\ \A i \in 1 .. Len(backlog) : link[backlog[i]] = "queued"
  /\ \A i, j \in 1 .. Len(backlog) : i # j => backlog[i] # backlog[j]
  /\ \A f \in OpenFds : link[fd[f]] = "accepted"
  /\ \A f, g \in OpenFds : f # g => fd[f] # fd[g]

\* Where the loops of the server are.
LoopInv ==
  /\ pc = "body" => n < clients.len /\ cur \in Requests
  /\ pc = "join" => n < clients.len /\ OpenFds = 1 .. cSock
  /\ Up /\ pc # "join" => cSock = 0

\* All of c's segments that the server has not read, and whether it has read a
\* header and not its body.
Stream(c)  == in[c] \o out[c]
Serving(c) == pc = "body" /\ fd[clients.buf[n]] = c

\* A request's header is followed by its body or by the end.
Orderly(s, served) ==
  /\ \A i \in 1 .. Len(s) : s[i] \in Requests => i < Len(s) /\ s[i + 1] \in {"BODY", "FIN"}
  /\ served => s # <<>> /\ s[1] \in {"BODY", "FIN"}

\* There are only requests, and a body only behind its header.
Plain(s, served) ==
  /\ \A i \in 1 .. Len(s) : s[i] \in Requests \cup {"BODY", "FIN"}
  /\ \A i \in 1 .. Len(s) : s[i] = "BODY" => IF i = 1 THEN served ELSE s[i - 1] \in Requests

StreamOK(c) ==
  /\ Orderly(Stream(c), Serving(c))
  /\ \A i \in 1 .. Len(Stream(c)) : Stream(c)[i] = "FIN" => ~open[c]
  /\ c \notin Talkers => /\ Plain(Stream(c), Serving(c))
                         /\ \A i \in 1 .. Len(down[c]) : down[c][i] # "ERROR"

StreamInv == \A c \in Clients : StreamOK(c)

\* All that c asked, by where it is.
Asked(c) == Answered(got[c]) \o Answered(down[c]) \o InService(c) \o Only(Stream(c), Requests)

AskedOK(c) == Up /\ open[c] /\ Established(c) => sent[c] = Asked(c)
AskedInv   == \A c \in Clients : AskedOK(c)

\* Descriptors are handed out in order, so the notices a client is owed can be
\* counted from its own and the last one.
NoticeInv == Up => \A k \in 0 .. MaxFd : OpenFds = 1 .. k =>
  /\ \A i \in Listed : open[fd[clients.buf[i]]] =>
       Notices(fd[clients.buf[i]])
         = k - clients.buf[i] - (IF pc = "join" /\ i <= n THEN 1 ELSE 0)
  /\ pc = "join" /\ open[fd[cSock]] => Notices(fd[cSock]) = 0

\* The client in slot i of g_clients has exited.
Gone(i) == ~open[fd[clients.buf[i]]]

\* t_idxToRm holds slots of clients that have exited, in order, and t_ptr is
\* never behind the slot being looked at.
RemovalInv ==
  /\ pc \in {"filter", "body", "compact"} =>
       /\ \A j \in 1 .. Len(toRm) : toRm[j] < clients.len
       /\ \A i, j \in 1 .. Len(toRm) : i < j => toRm[i] < toRm[j]
  /\ pc \in {"filter", "body"} => \A j \in 1 .. Len(toRm) : toRm[j] < n /\ Gone(toRm[j])
  /\ pc = "compact" => \A j \in ptr + 1 .. Len(toRm) : n <= toRm[j] /\ Gone(toRm[j])

\* A descriptor that is open is in a slot that counts, is being announced, or
\* its client has exited.
KnownInv == Up => \A f \in OpenFds :
  \/ \E i \in Listed : clients.buf[i] = f
  \/ f = cSock
  \/ ~open[fd[f]]

-----------------------------------------------------------------------------
(* What happens to the stream of segments of one client. *)

LEMMA TailAt ==
  ASSUME NEW S, NEW s \in Seq(S), s # <<>>
  PROVE  /\ Head(s) = s[1] /\ s[1] \in S /\ Tail(s) \in Seq(S)
         /\ Len(s) \in Nat \ {0} /\ Len(Tail(s)) = Len(s) - 1
         /\ \A i \in 1 .. Len(s) - 1 : Tail(s)[i] = s[i + 1]
  BY HeadTailProperties

\* A message is sent.
LEMMA StreamSend ==
  ASSUME NEW s \in Seq(UpSegments), NEW served \in BOOLEAN,
         NEW cmd \in Requests \cup {"ERROR"}, NEW t, t = s \o Segments(cmd)
  PROVE  /\ Orderly(s, served) => Orderly(t, served)
         /\ Plain(s, served) /\ cmd \in Requests => Plain(t, served)
         /\ \A i \in 1 .. Len(t) : t[i] = "FIN" => i \in 1 .. Len(s) /\ s[i] = "FIN"
<1> DEFINE u == Segments(cmd)
<1>1. /\ u \in Seq(UpSegments) /\ Len(u) = (IF cmd = "ERROR" THEN 1 ELSE 2) /\ u[1] = cmd
      /\ cmd # "ERROR" => u[2] = "BODY"
  <2>1. CASE cmd = "ERROR"
    <3>1. u = <<cmd>> /\ cmd \in UpSegments
      BY <2>1 DEF Segments, HasBody, UpSegments
    <3> HIDE DEF u
    <3> QED BY <2>1, <3>1
  <2>2. CASE cmd # "ERROR"
    <3>1. u = <<cmd, "BODY">> /\ cmd \in UpSegments /\ "BODY" \in UpSegments
      BY <2>2 DEF Segments, HasBody, UpSegments
    <3> HIDE DEF u
    <3> QED BY <2>2, <3>1
  <2> QED BY <2>1, <2>2
<1>2. cmd # "FIN" /\ cmd # "BODY"
  BY DEF Requests
<1>a. t = s \o u
  OBVIOUS
<1> HIDE DEF u
<1>b. ConcatAt(UpSegments)
  BY ConcatIsAt
<1>c. u \in Seq(UpSegments)
  BY <1>1
<1>3. s \in Seq(UpSegments) /\ u \in Seq(UpSegments) /\ ConcatAt(UpSegments)
  BY <1>b, <1>c
<1>d. Len(s) \in Nat
  OBVIOUS
<1>4. /\ Len(s \o u) = Len(s) + Len(u)
      /\ \A i \in 1 .. Len(s) + Len(u) : (s \o u)[i] = IF i <= Len(s) THEN s[i] ELSE u[i - Len(s)]
  BY <1>3, Zenon DEF ConcatAt
<1>5. Len(s) \in Nat /\ Len(t) = Len(s) + (IF cmd = "ERROR" THEN 1 ELSE 2)
  <2>1. Len(t) = Len(s) + Len(u)
    BY <1>a, <1>4
  <2> QED BY <1>1, <1>d, <2>1
<1>6. \A i \in 1 .. Len(t) :
        \/ i \in 1 .. Len(s) /\ t[i] = s[i]
        \/ i = Len(s) + 1 /\ t[i] = cmd
        \/ i = Len(s) + 2 /\ t[i] = "BODY" /\ cmd # "ERROR"
  <2> SUFFICES ASSUME NEW i \in 1 .. Len(t)
               PROVE  \/ i \in 1 .. Len(s) /\ t[i] = s[i]
                      \/ i = Len(s) + 1 /\ t[i] = cmd
                      \/ i = Len(s) + 2 /\ t[i] = "BODY" /\ cmd # "ERROR"
    OBVIOUS
  <2>1. t[i] = IF i <= Len(s) THEN s[i] ELSE u[i - Len(s)]
    <3>1. i \in 1 .. Len(s) + Len(u)
      BY <1>a, <1>4
    <3> QED BY <1>a, <1>4, <3>1
  <2>2. CASE i <= Len(s)
    BY <1>5, <2>1, <2>2
  <2>3. CASE i = Len(s) + 1
    <3>1. i - Len(s) = 1 /\ ~(i <= Len(s))
      BY <1>5, <2>3
    <3>2. t[i] = u[i - Len(s)] /\ u[i - Len(s)] = u[1]
      BY <2>1, <3>1
    <3> QED BY <1>1, <2>3, <3>2
  <2>4. CASE i > Len(s) + 1
    <3>1. i = Len(s) + 2 /\ i - Len(s) = 2 /\ ~(i <= Len(s)) /\ cmd # "ERROR"
      BY <1>5, <2>4
    <3>2. t[i] = u[i - Len(s)] /\ u[i - Len(s)] = u[2]
      BY <2>1, <3>1
    <3> QED BY <1>1, <3>1, <3>2
  <2> QED BY <1>5, <2>2, <2>3, <2>4
<1>7. cmd # "ERROR" => t[Len(s) + 2] = "BODY" /\ t[Len(s) + 1] = cmd
  BY <1>5, <1>6
<1>8. \A i \in 1 .. Len(s) : i \in 1 .. Len(t) /\ t[i] = s[i]
  BY <1>5, <1>6
<1>9. Orderly(s, served) => Orderly(t, served)
  <2> SUFFICES ASSUME Orderly(s, served) PROVE Orderly(t, served)
    OBVIOUS
  <2>1. ASSUME NEW i \in 1 .. Len(t), t[i] \in Requests
        PROVE  i < Len(t) /\ t[i + 1] \in {"BODY", "FIN"}
    <3>1. CASE i \in 1 .. Len(s) /\ t[i] = s[i]
      <4>1. i < Len(s) /\ s[i + 1] \in {"BODY", "FIN"}
        BY <2>1, <3>1 DEF Orderly
      <4>2. i + 1 \in 1 .. Len(s)
        BY <1>5, <3>1, <4>1
      <4> QED BY <1>5, <1>8, <4>1, <4>2
    <3>2. CASE i = Len(s) + 1 /\ t[i] = cmd
      <4>1. cmd # "ERROR" /\ i + 1 = Len(s) + 2 /\ i < Len(t)
        BY <1>5, <2>1, <3>2 DEF Requests
      <4> QED BY <1>7, <4>1
    <3>3. CASE t[i] = "BODY"
      BY <2>1, <3>3 DEF Requests
    <3> QED BY <1>6, <3>1, <3>2, <3>3
  <2>2. ASSUME served PROVE t # <<>> /\ t[1] \in {"BODY", "FIN"}
    <3>1. s # <<>> /\ s[1] \in {"BODY", "FIN"}
      BY <2>2 DEF Orderly
    <3>2. 1 \in 1 .. Len(s)
      BY <3>1
    <3>3. t[1] = s[1] /\ Len(t) # 0
      BY <1>5, <1>8, <3>2
    <3> QED BY <3>1, <3>3
  <2> QED BY <2>1, <2>2 DEF Orderly
<1>10. Plain(s, served) /\ cmd \in Requests => Plain(t, served)
  <2> SUFFICES ASSUME Plain(s, served), cmd \in Requests PROVE Plain(t, served)
    OBVIOUS
  <2>1. ASSUME NEW i \in 1 .. Len(t) PROVE t[i] \in Requests \cup {"BODY", "FIN"}
    BY <1>6 DEF Plain
  <2>2. ASSUME NEW i \in 1 .. Len(t), t[i] = "BODY"
        PROVE  IF i = 1 THEN served ELSE t[i - 1] \in Requests
    <3>1. CASE i \in 1 .. Len(s) /\ t[i] = s[i]
      <4>1. i # 1 => i - 1 \in 1 .. Len(s)
        BY <3>1
      <4> QED BY <1>8, <2>2, <3>1, <4>1 DEF Plain
    <3>2. CASE i = Len(s) + 2
      <4>1. i - 1 = Len(s) + 1 /\ i # 1 /\ cmd # "ERROR"
        BY <1>5, <3>2 DEF Requests
      <4> QED BY <1>7, <4>1
    <3> QED BY <1>2, <1>6, <2>2, <3>1, <3>2
  <2> QED BY <2>1, <2>2 DEF Plain
<1>11. \A i \in 1 .. Len(t) : t[i] = "FIN" => i \in 1 .. Len(s) /\ s[i] = "FIN"
  BY <1>2, <1>6
<1> QED BY <1>9, <1>10, <1>11

\* The client's end is closed: some of the stream is kept and the end comes.
LEMMA StreamCut ==
  ASSUME NEW s \in Seq(UpSegments), NEW served \in BOOLEAN,
         NEW m \in 0 .. Len(s), NEW t \in Seq(UpSegments), Len(t) = m + 1, t[m + 1] = "FIN",
         \A i \in 1 .. m : t[i] = s[i]
  PROVE  /\ Orderly(s, served) => Orderly(t, served)
         /\ Plain(s, served) => Plain(t, served)
<1>0. m \in Nat /\ m <= Len(s) /\ Len(s) \in Nat
  OBVIOUS
<1>1. Orderly(s, served) => Orderly(t, served)
  <2> SUFFICES ASSUME Orderly(s, served) PROVE Orderly(t, served)
    OBVIOUS
  <2>1. ASSUME NEW i \in 1 .. Len(t), t[i] \in Requests
        PROVE  i < Len(t) /\ t[i + 1] \in {"BODY", "FIN"}
    <3>1. i # m + 1
      BY <2>1 DEF Requests
    <3>2. i \in 1 .. m /\ i \in 1 .. Len(s) /\ i < Len(t)
      BY <1>0, <3>1
    <3>3. s[i + 1] \in {"BODY", "FIN"}
      BY <2>1, <3>2 DEF Orderly
    <3>4. i + 1 = m + 1 \/ i + 1 \in 1 .. m
      BY <1>0, <3>2
    <3> QED BY <3>2, <3>3, <3>4
  <2>2. ASSUME served PROVE t # <<>> /\ t[1] \in {"BODY", "FIN"}
    <3>1. s[1] \in {"BODY", "FIN"}
      BY <2>2 DEF Orderly
    <3>2. t # <<>>
      BY <1>0
    <3>3. m = 0 \/ 1 \in 1 .. m
      BY <1>0
    <3>4. t[1] = "FIN" \/ t[1] = s[1]
      BY <3>3
    <3> QED BY <3>1, <3>2, <3>4
  <2> QED BY <2>1, <2>2 DEF Orderly
<1>2. Plain(s, served) => Plain(t, served)
  <2> SUFFICES ASSUME Plain(s, served) PROVE Plain(t, served)
    OBVIOUS
  <2>1. \A i \in 1 .. Len(t) : i = m + 1 \/ (i \in 1 .. m /\ i \in 1 .. Len(s))
    BY <1>0
  <2>2. \A i \in 1 .. Len(t) : t[i] \in Requests \cup {"BODY", "FIN"}
    BY <2>1 DEF Plain
  <2>3. ASSUME NEW i \in 1 .. Len(t), t[i] = "BODY"
        PROVE  IF i = 1 THEN served ELSE t[i - 1] \in Requests
    <3>1. i \in 1 .. m /\ i \in 1 .. Len(s) /\ s[i] = "BODY"
      BY <2>1, <2>3
    <3>2. i # 1 => i - 1 \in 1 .. m
      BY <1>0, <3>1
    <3> QED BY <3>1, <3>2 DEF Plain
  <2> QED BY <2>2, <2>3 DEF Plain
<1> QED BY <1>1, <1>2

\* The server takes the first segment: a header, the body it waited for, or
\* something it does not know.
LEMMA StreamTake ==
  ASSUME NEW s \in Seq(UpSegments), s # <<>>, NEW t, t = Tail(s)
  PROVE  /\ Orderly(s, FALSE) => Orderly(t, FALSE)
         /\ Orderly(s, FALSE) /\ s[1] \in Requests => Orderly(t, TRUE)
         /\ Plain(s, FALSE) /\ s[1] \in Requests => Plain(t, TRUE)
         /\ Orderly(s, TRUE) => Orderly(t, FALSE)
         /\ Orderly(s, TRUE) /\ Plain(s, TRUE) /\ s[1] = "BODY" => Plain(t, FALSE)
<1>1. /\ Len(s) \in Nat \ {0} /\ t \in Seq(UpSegments) /\ Len(t) = Len(s) - 1
      /\ \A i \in 1 .. Len(s) - 1 : t[i] = s[i + 1]
  BY TailAt
<1>2. \A i \in 1 .. Len(t) : i + 1 \in 1 .. Len(s) /\ t[i] = s[i + 1]
  BY <1>1
<1>3. ASSUME NEW served \in BOOLEAN, Orderly(s, served) PROVE Orderly(t, FALSE)
  <2> SUFFICES ASSUME NEW i \in 1 .. Len(t), t[i] \in Requests
               PROVE  i < Len(t) /\ t[i + 1] \in {"BODY", "FIN"}
    BY DEF Orderly
  <2>1. i + 1 < Len(s) /\ s[(i + 1) + 1] \in {"BODY", "FIN"}
    BY <1>2, <1>3 DEF Orderly
  <2>2. i < Len(t) /\ i + 1 \in 1 .. Len(t)
    BY <1>1, <2>1
  <2> QED BY <1>2, <2>1, <2>2
<1>4. ASSUME Orderly(s, FALSE), s[1] \in Requests PROVE Orderly(t, TRUE)
  <2>1. Orderly(t, FALSE)
    BY <1>3, <1>4
  <2>2. 1 < Len(s) /\ s[1 + 1] \in {"BODY", "FIN"}
    BY <1>1, <1>4 DEF Orderly
  <2>3. 1 \in 1 .. Len(t)
    BY <1>1, <2>2
  <2>4. t # <<>> /\ t[1] \in {"BODY", "FIN"}
    BY <1>2, <2>2, <2>3
  <2> QED BY <2>1, <2>4 DEF Orderly
<1>5. ASSUME NEW served \in BOOLEAN, Plain(s, served), NEW after \in BOOLEAN,
             1 < Len(s) /\ s[2] = "BODY" => after
      PROVE  Plain(t, after)
  <2>1. \A i \in 1 .. Len(t) : t[i] \in Requests \cup {"BODY", "FIN"}
    BY <1>2, <1>5 DEF Plain
  <2>2. ASSUME NEW i \in 1 .. Len(t), t[i] = "BODY"
        PROVE  IF i = 1 THEN after ELSE t[i - 1] \in Requests
    <3>1. i + 1 \in 1 .. Len(s) /\ s[i + 1] = "BODY" /\ i + 1 # 1 /\ (i + 1) - 1 = i
      BY <1>2, <2>2
    <3>2. s[i] \in Requests
      BY <1>5, <3>1 DEF Plain
    <3>3. CASE i = 1
      <4>1. 1 < Len(s) /\ s[2] = "BODY"
        BY <1>1, <3>1, <3>3
      <4> QED BY <1>5, <3>3, <4>1
    <3>4. CASE i # 1
      <4>1. i - 1 \in 1 .. Len(t) /\ (i - 1) + 1 = i
        BY <1>1, <3>4
      <4> QED BY <1>2, <3>2, <3>4, <4>1
    <3> QED BY <3>3, <3>4
  <2> QED BY <2>1, <2>2 DEF Plain
<1>6. ASSUME Plain(s, FALSE), s[1] \in Requests PROVE Plain(t, TRUE)
  BY <1>5, <1>6
<1>7. ASSUME Orderly(s, TRUE), Plain(s, TRUE), s[1] = "BODY" PROVE Plain(t, FALSE)
  <2>1. ~(1 < Len(s) /\ s[2] = "BODY")
    <3> SUFFICES ASSUME 1 < Len(s), s[2] = "BODY" PROVE FALSE
      OBVIOUS
    <3>1. 2 \in 1 .. Len(s) /\ 2 # 1 /\ 2 - 1 = 1
      BY <1>1
    <3>2. s[1] \in Requests
      BY <1>7, <3>1 DEF Plain
    <3> QED BY <1>7, <3>2 DEF Requests
  <2> QED BY <1>5, <1>7, <2>1
<1> QED BY <1>3, <1>4, <1>6, <1>7

\* The end of the stream is left where it is, and may be taken for a body.
LEMMA StreamAtEnd ==
  ASSUME NEW s, s[1] = "FIN", Orderly(s, TRUE)
  PROVE  Orderly(s, FALSE) /\ (Plain(s, TRUE) => Plain(s, FALSE))
  BY DEF Orderly, Plain

LEMMA StreamEmpty == Orderly(<<>>, FALSE) /\ Plain(<<>>, FALSE)
  BY DEF Orderly, Plain

-----------------------------------------------------------------------------
(* What the steps do, without where they stand in the programs. *)

\* c does nothing that others see.
Quiet(c) == UNCHANGED <<netVars, sent, got, joins>>

\* c sends what its user typed over its connection.
Says(c, cmd) ==
  /\ Established(c) /\ cmd \in Requests \cup (IF c \in Talkers THEN {"ERROR"} ELSE {})
  /\ ClientSend(c, cmd)
  /\ sent' = IF cmd \in Requests THEN [sent EXCEPT ![c] = Append(@, cmd)] ELSE sent
  /\ UNCHANGED <<down, got, joins>>

\* c reads a message.
Hears(c) ==
  /\ down[c] # <<>> /\ Head(down[c]) # "FIN" /\ Consume(c) /\ UNCHANGED sent

\* c closes its socket.
Goes(c) == ClientClose(c) /\ UNCHANGED <<sent, got, joins>>

LEMMA PeersSteps ==
  ASSUME CliTypeOK, Peers
  PROVE  /\ UNCHANGED srvVars
         /\ \E c \in Clients :
              \/ Connect(c, Up)
              \/ /\ \A d \in Clients : cpc'[d] = "start" => cpc[d] = "start"
                 /\ \/ Quiet(c) \/ (\E cmd : Says(c, cmd)) \/ Hears(c) \/ Goes(c)
<1>1. PICK c \in Clients : ClientMain(c, Up) \/ User(c)
  BY DEF Peers, CliNext
<1>2. LoopTest(c) # "start"
  BY DEF LoopTest
<1>3. UNCHANGED srvVars
  BY DEF Peers
<1> DEFINE Started == \A d \in Clients : cpc'[d] = "start" => cpc[d] = "start"
<1>4. ASSUME Close(c) PROVE Started /\ Goes(c)
  BY <1>4 DEF Close, CliTypeOK, Goes
<1>5. CASE Leave(c)
  BY <1>3, <1>4, <1>5 DEF Leave
<1>6. CASE SelectTimeout(c)
  <2>1. Started
    BY <1>2, <1>6 DEF SelectTimeout, CliTypeOK
  <2>2. Quiet(c)
    BY <1>6 DEF SelectTimeout, Quiet
  <2> QED BY <1>3, <2>1, <2>2
<1>7. CASE Receive(c)
  <2>1. CASE Close(c)
    BY <1>3, <1>4, <2>1
  <2>2. CASE /\ ~EndsLoop(Head(down[c])) /\ Consume(c)
             /\ cpc' = [cpc EXCEPT ![c] = LoopTest(c)]
             /\ UNCHANGED <<bExit, sent, typed>>
    <3>1. Started
      BY <1>2, <2>2 DEF CliTypeOK
    <3>2. Hears(c)
      BY <1>7, <2>2 DEF Receive, EndsLoop, Hears
    <3> QED BY <1>3, <3>1, <3>2
  <2> QED BY <1>7, <2>1, <2>2 DEF Receive
<1>8. CASE TypeExit(c)
  <2>1. Started /\ Quiet(c)
    BY <1>8 DEF TypeExit, Quiet
  <2> QED BY <1>3, <2>1
<1>9. ASSUME NEW cmd \in Requests \cup (IF c \in Talkers THEN {"ERROR"} ELSE {}), Type(c, cmd)
      PROVE  Started /\ (Quiet(c) \/ (\E m : Says(c, m)) \/ Goes(c))
  <2>1. Started
    BY <1>9 DEF Type, CliTypeOK
  <2>2. CASE Established(c) /\ ClientSend(c, cmd)
    <3>1. Says(c, cmd)
      BY <1>9, <2>2 DEF Type, Says
    <3> QED BY <2>1, <3>1
  <2>3. CASE ~Established(c) /\ ClientSend(c, cmd) /\ UNCHANGED down
    <3>1. Quiet(c)
      BY <1>9, <2>3 DEF Type, Quiet, ClientSend, ClientClose, netVars
    <3> QED BY <2>1, <3>1
  <2>4. CASE ClientClose(c) /\ UNCHANGED sent
    <3>1. Goes(c)
      BY <1>9, <2>4 DEF Type, Goes
    <3> QED BY <2>1, <3>1
  <2> QED BY <1>9, <2>1, <2>2, <2>3, <2>4 DEF Type
<1>10. CASE Connect(c, Up)
  BY <1>3, <1>10
<1> QED BY <1>1, <1>3, <1>5, <1>6, <1>7, <1>8, <1>9, <1>10 DEF ClientMain, User

\* accept() succeeds: the lowest free descriptor is the one behind the last.
Accepts(k) ==
  /\ pc = "accept" /\ backlog # <<>> /\ pc' = "join"
  /\ k + 1 \in Fds /\ OpenFds = 1 .. k /\ OpenFds' = 1 .. k + 1
  /\ fd' = [fd EXCEPT ![k + 1] = Head(backlog)]
  /\ link' = [link EXCEPT ![Head(backlog)] = "accepted"]
  /\ backlog' = Tail(backlog)
  /\ cSock' = k + 1 /\ n' = LastIndex
  /\ UNCHANGED <<open, out, in, down, rst, toRm, exitFlag, clients, cur, cnt, ptr>>

LEMMA AcceptShape ==
  ASSUME NetTypeOK, RegistryInv, Accept, OpenFds # Fds
  PROVE  \E k \in 0 .. MaxFd : Accepts(k)
<1>0. pc = "accept" /\ backlog # <<>> /\ Up
  BY DEF Accept, Up, Running
<1>1. PICK k \in 0 .. MaxFd : OpenFds = 1 .. k
  BY <1>0 DEF RegistryInv
<1>2. /\ k + 1 \in Fds \ OpenFds
      /\ \A y \in Fds \ OpenFds : k + 1 <= y
  BY <1>1, NetAssumption DEF NetAssumption, Fds
<1> DEFINE f == CHOOSE x \in Fds \ OpenFds : \A y \in Fds \ OpenFds : x <= y
<1>3. f = k + 1
  <2>1. f \in Fds \ OpenFds /\ \A y \in Fds \ OpenFds : f <= y
    BY <1>2
  <2> QED BY <1>2, <2>1 DEF Fds
<1>4. /\ fd' = [fd EXCEPT ![f] = Head(backlog)] /\ cSock' = f /\ pc' = "join"
      /\ link' = [link EXCEPT ![Head(backlog)] = "accepted"]
      /\ backlog' = Tail(backlog) /\ n' = LastIndex
      /\ UNCHANGED <<open, out, in, down, rst, toRm, exitFlag, clients, cur, cnt, ptr>>
  BY DEF Accept
<1> HIDE DEF f
<1>5. Head(backlog) \in Clients
  BY <1>0 DEF NetTypeOK
<1>6. OpenFds' = 1 .. k + 1
  <2>1. \A x \in Fds : fd'[x] # None <=> x \in OpenFds \/ x = k + 1
    BY <1>2, <1>3, <1>4, <1>5, NetAssumption DEF NetTypeOK, NetAssumption, OpenFds
  <2> QED BY <1>1, <1>2, <2>1, NetAssumption DEF OpenFds, Fds, NetAssumption
<1> QED BY <1>0, <1>1, <1>2, <1>3, <1>4, <1>6 DEF Accepts

\* The server closes descriptors and its listening socket, and runs no more.
Ends == \E fs \in SUBSET OpenFds :
  /\ ServerClose(fs, TRUE)
  /\ ~Up' /\ pc' \in {"killed", "returned", "stopped"}
  /\ pc = "body" /\ n < clients.len => fd[clients.buf[n]] \in {fd[f] : f \in fs}

LEMMA EndsSteps ==
  ASSUME SrvTypeOK, CountersOK, RegistryInv, Killed \/ Uninit \/ ProcessExit
  PROVE  Ends
<1>1. pc' \in {"killed", "returned", "stopped"} /\ ~Up'
  BY DEF Killed, Uninit, ProcessExit, Up, Running
<1>2. pc = "body" /\ n < clients.len => clients.buf[n] \in OpenFds
  <2> SUFFICES ASSUME pc = "body", n < clients.len PROVE clients.buf[n] \in OpenFds
    OBVIOUS
  <2>1. Up /\ n \in Listed
    BY DEF Up, Running, Listed, CountersOK, SrvTypeOK, D!IsDynArr
  <2> QED BY <2>1 DEF RegistryInv
<1>3. CASE Killed \/ ProcessExit
  <2>1. OpenFds \in SUBSET OpenFds
    OBVIOUS
  <2>2. ServerClose(OpenFds, TRUE)
    BY <1>3 DEF Killed, ProcessExit
  <2>3. pc = "body" /\ n < clients.len => fd[clients.buf[n]] \in {fd[f] : f \in OpenFds}
    BY <1>2
  <2> QED BY <1>1, <2>1, <2>2, <2>3 DEF Ends
<1>4. CASE Uninit
  <2>1. Up /\ Listed = 0 .. clients.len - 1
    BY <1>4 DEF Uninit, Up, Running, Listed
  <2>2. Registered \in SUBSET OpenFds
    BY <2>1 DEF RegistryInv, Registered
  <2>3. ServerClose(Registered, TRUE) /\ pc = "uninit"
    BY <1>4 DEF Uninit
  <2> QED BY <1>1, <2>2, <2>3 DEF Ends
<1> QED BY <1>3, <1>4

\* The server's own business: nothing of the network changes.
Within == UNCHANGED netVars /\ Up

LEMMA ServerSteps ==
  ASSUME SrvTypeOK, NetTypeOK, CountersOK, RegistryInv, SrvNext
  PROVE  \/ Ends
         \/ \E k \in 0 .. MaxFd : Accepts(k)
         \/ JoinSend /\ ~Killed
         \/ (ReadHeader \/ ReadBody) /\ ~Killed
         \/ Accept /\ Within /\ GoFilter /\ UNCHANGED <<clients, cur, cSock>>
         \/ (LoopTop \/ Select \/ JoinInsert \/ FilterSkip \/ FilterDone
             \/ CompactStep \/ CompactDone \/ TypeE) /\ Within
<1>1. CASE Killed \/ Uninit \/ ProcessExit
  BY <1>1, EndsSteps
<1>2. CASE Accept
  <2>1. CASE OpenFds # Fds
    BY <1>2, <2>1, AcceptShape
  <2>2. CASE OpenFds = Fds
    BY <1>2, <2>2 DEF Accept, Within, Up, Running
  <2> QED BY <2>1, <2>2
<1>3. CASE LoopTop \/ Select \/ JoinInsert \/ FilterSkip \/ FilterDone
           \/ CompactStep \/ CompactDone \/ TypeE
  <2>1. UNCHANGED netVars
    BY <1>3 DEF LoopTop, Select, JoinInsert, FilterSkip, FilterDone, CompactStep, CompactDone, TypeE
  <2>2. Up
    BY <1>3 DEF LoopTop, Select, JoinInsert, FilterSkip, FilterDone, CompactStep, CompactDone,
                TypeE, Up, Running
  <2> QED BY <1>3, <2>1, <2>2 DEF Within
<1> QED BY <1>1, <1>2, <1>3 DEF SrvNext, MainThread

-----------------------------------------------------------------------------
(* Who is where. *)

\* The client in slot n, while there is one.
LEMMA ServedIsOpen ==
  ASSUME NetTypeOK, SrvTypeOK, RegistryInv, pc \in {"join", "filter", "body"},
         NEW i \in Nat, i < clients.len
  PROVE  /\ i \in Listed /\ clients.buf[i] \in OpenFds /\ clients.buf[i] \in Fds
         /\ fd[clients.buf[i]] \in Clients
<1>1. Up /\ i \in Listed
  BY DEF Up, Running, Listed, SrvTypeOK, D!IsDynArr
<1>2. clients.buf[i] \in OpenFds
  BY <1>1 DEF RegistryInv
<1> QED BY <1>1, <1>2 DEF OpenFds, NetTypeOK

LEMMA PeerFrame ==
  ASSUME PeerInv, UNCHANGED <<link, backlog, fd>>, Up' => Up,
         \A c \in Clients : cpc'[c] = "start" => cpc[c] = "start",
         \A c \in Clients : link[c] = "idle" =>
           in'[c] = in[c] /\ out'[c] = out[c] /\ sent'[c] = sent[c],
         \A c \in Clients : link[c] \in {"idle", "queued"} =>
           (down'[c] = down[c] \/ down'[c] = <<>>) /\ got'[c] = got[c] /\ joins'[c] = joins[c]
  PROVE  PeerInv'
<1>1. OpenFds' = OpenFds
  BY DEF OpenFds
<1>2. \A c \in Clients : cpc'[c] = "start" => link'[c] = "idle"
  BY DEF PeerInv
<1>3. \A c \in Clients : link'[c] = "idle" => in'[c] = <<>> /\ out'[c] = <<>> /\ sent'[c] = <<>>
  BY DEF PeerInv
<1>4. \A c \in Clients : link'[c] \in {"idle", "queued"} =>
        down'[c] = <<>> /\ got'[c] = <<>> /\ joins'[c] = 0
  BY DEF PeerInv
<1>5. \A c \in Clients : Up' => link'[c] # "down"
  BY DEF PeerInv
<1> QED BY <1>1, <1>2, <1>3, <1>4, <1>5 DEF PeerInv

LEMMA PeersPeer ==
  ASSUME NetTypeOK, CliTypeOK, PeerInv, Peers
  PROVE  PeerInv'
<1>0. Up' = Up
  BY DEF Peers, srvVars, Up
<1>1. PICK c \in Clients :
        \/ Connect(c, Up)
        \/ /\ \A d \in Clients : cpc'[d] = "start" => cpc[d] = "start"
           /\ \/ Quiet(c) \/ (\E cmd : Says(c, cmd)) \/ Hears(c) \/ Goes(c)
  BY PeersSteps
<1>2. CASE Connect(c, Up)
  <2>0. /\ cpc[c] = "start" /\ link[c] = "idle" /\ UNCHANGED <<open, out, in, rst, fd, sent, got, joins>>
        /\ cpc'[c] # "start" /\ \A d \in Clients \ {c} : cpc'[d] = cpc[d]
    BY <1>2 DEF Connect, PeerInv, CliTypeOK, LoopTest, ConnectOk, ConnectRefused
  <2>1. OpenFds' = OpenFds
    BY <2>0 DEF OpenFds
  <2>2. CASE Up
    <3>1. /\ backlog' = Append(backlog, c) /\ link' = [link EXCEPT ![c] = "queued"]
          /\ UNCHANGED down
      BY <1>2, <2>2 DEF Connect, ConnectOk
    <3>2. link'[c] = "queued" /\ \A d \in Clients \ {c} : link'[d] = link[d]
      BY <3>1 DEF NetTypeOK
    <3>3. \A i \in 1 .. Len(backlog) : backlog[i] \in Clients \ {c}
      BY <2>0, SMTT(40) DEF NetTypeOK, PeerInv
    <3>4. /\ Len(backlog') = Len(backlog) + 1 /\ backlog'[Len(backlog) + 1] = c
          /\ Len(backlog) \in Nat
          /\ \A i \in 1 .. Len(backlog) : backlog'[i] = backlog[i]
      BY <3>1 DEF NetTypeOK
    <3>5. \A i \in 1 .. Len(backlog') : i = Len(backlog) + 1 \/ i \in 1 .. Len(backlog)
      BY <3>4
    <3>6. \A i \in 1 .. Len(backlog') : link'[backlog'[i]] = "queued"
      BY <3>2, <3>3, <3>4, <3>5 DEF PeerInv
    <3>7. \A i, j \in 1 .. Len(backlog') : i # j => backlog'[i] # backlog'[j]
      <4>1. \A i \in 1 .. Len(backlog) : backlog'[i] = backlog[i] /\ backlog'[i] # c
        BY <3>3, <3>4
      <4> QED BY <3>4, <3>5, <4>1 DEF PeerInv
    <3>8. \A f \in OpenFds : fd[f] \in Clients \ {c} /\ link[fd[f]] = "accepted"
      BY <2>0 DEF OpenFds, NetTypeOK, PeerInv
    <3>9. \A f \in OpenFds' : link'[fd'[f]] = "accepted"
      BY <2>0, <2>1, <3>2, <3>8
    <3>10. \A f, g \in OpenFds' : f # g => fd'[f] # fd'[g]
      BY <2>0, <2>1 DEF PeerInv
    <3>11. \A d \in Clients : cpc'[d] = "start" => link'[d] = "idle"
      BY <2>0, <3>2 DEF PeerInv
    <3>12. \A d \in Clients : link'[d] = "idle" => in'[d] = <<>> /\ out'[d] = <<>> /\ sent'[d] = <<>>
      BY <2>0, <3>2 DEF PeerInv
    <3>13. \A d \in Clients : link'[d] \in {"idle", "queued"} =>
             down'[d] = <<>> /\ got'[d] = <<>> /\ joins'[d] = 0
      BY <2>0, <3>1, <3>2 DEF PeerInv
    <3>14. \A d \in Clients : Up' => link'[d] # "down"
      BY <1>0, <3>2 DEF PeerInv
    <3> QED BY <3>6, <3>7, <3>9, <3>10, <3>11, <3>12, <3>13, <3>14 DEF PeerInv
  <2>3. CASE ~Up
    <3>1. link' = [link EXCEPT ![c] = "down"] /\ down' = [down EXCEPT ![c] = <<"FIN">>]
          /\ UNCHANGED backlog
      BY <1>2, <2>3 DEF Connect, ConnectRefused
    <3>2. link'[c] = "down" /\ \A d \in Clients \ {c} : link'[d] = link[d] /\ down'[d] = down[d]
      BY <3>1 DEF NetTypeOK
    <3>3. \A i \in 1 .. Len(backlog) : backlog[i] \in Clients \ {c}
      BY <2>0, SMTT(40) DEF NetTypeOK, PeerInv
    <3>4. \A f \in OpenFds : fd[f] \in Clients \ {c}
      BY <2>0 DEF OpenFds, NetTypeOK, PeerInv
    <3>5. \A i \in 1 .. Len(backlog') : link'[backlog'[i]] = "queued"
      BY <3>1, <3>2, <3>3 DEF PeerInv
    <3>6. \A f \in OpenFds' : link'[fd'[f]] = "accepted"
      BY <2>0, <2>1, <3>2, <3>4 DEF PeerInv
    <3>7. \A d \in Clients : cpc'[d] = "start" => link'[d] = "idle"
      BY <2>0, <3>2 DEF PeerInv
    <3>8. \A d \in Clients : link'[d] = "idle" => in'[d] = <<>> /\ out'[d] = <<>> /\ sent'[d] = <<>>
      BY <2>0, <3>2 DEF PeerInv
    <3>9. \A d \in Clients : link'[d] \in {"idle", "queued"} =>
            down'[d] = <<>> /\ got'[d] = <<>> /\ joins'[d] = 0
      BY <2>0, <3>2 DEF PeerInv
    <3>10. \A i, j \in 1 .. Len(backlog') : i # j => backlog'[i] # backlog'[j]
      BY <3>1 DEF PeerInv
    <3>11. \A f, g \in OpenFds' : f # g => fd'[f] # fd'[g]
      BY <2>0, <2>1 DEF PeerInv
    <3> QED BY <1>0, <2>3, <3>5, <3>6, <3>7, <3>8, <3>9, <3>10, <3>11 DEF PeerInv
  <2> QED BY <2>2, <2>3
<1> USE DEF PeerInv
<1>3. CASE Quiet(c) /\ \A d \in Clients : cpc'[d] = "start" => cpc[d] = "start"
  BY <1>0, <1>3, PeerFrame DEF Quiet, netVars
<1>4. ASSUME NEW cmd, Says(c, cmd), \A d \in Clients : cpc'[d] = "start" => cpc[d] = "start"
      PROVE  PeerInv'
  <2>1. link[c] # "idle" /\ UNCHANGED <<link, backlog, fd, in, down, got, joins>>
    BY <1>4 DEF Says, ClientSend, Established
  <2>2. \A d \in Clients \ {c} : out'[d] = out[d] /\ sent'[d] = sent[d]
    BY <1>4 DEF Says, ClientSend, NetTypeOK, CliTypeOK
  <2> QED BY <1>0, <1>4, <2>1, <2>2, PeerFrame
<1>5. CASE Hears(c) /\ \A d \in Clients : cpc'[d] = "start" => cpc[d] = "start"
  <2>1. link[c] \notin {"idle", "queued"} /\ UNCHANGED <<link, backlog, fd, in, sent>>
    BY <1>5 DEF Hears, Consume, ClientSend
  <2>2. \A d \in Clients \ {c} :
          out'[d] = out[d] /\ down'[d] = down[d] /\ got'[d] = got[d] /\ joins'[d] = joins[d]
    <3>1. UNCHANGED out \/ ClientSend(c, "ERROR")
      BY <1>5 DEF Hears, Consume
    <3>2. \A d \in Clients \ {c} : out'[d] = out[d]
      BY <3>1 DEF ClientSend, NetTypeOK
    <3>3. \A d \in Clients \ {c} : down'[d] = down[d]
      BY <1>5 DEF Hears, Consume, NetTypeOK
    <3>4. \A d \in Clients \ {c} : got'[d] = got[d]
      BY <1>5 DEF Hears, Consume, CliTypeOK
    <3>5. \A d \in Clients \ {c} : joins'[d] = joins[d]
      BY <1>5 DEF Hears, Consume, CliTypeOK
    <3> QED BY <3>2, <3>3, <3>4, <3>5
  <2> QED BY <1>0, <1>5, <2>1, <2>2, PeerFrame
<1>6. CASE Goes(c) /\ \A d \in Clients : cpc'[d] = "start" => cpc[d] = "start"
  <2>1. UNCHANGED <<link, backlog, fd, in, sent, got, joins>>
    BY <1>6 DEF Goes, ClientClose
  <2>2. down'[c] = <<>> /\ \A d \in Clients \ {c} : down'[d] = down[d]
    BY <1>6 DEF Goes, ClientClose, NetTypeOK
  <2>3. \A d \in Clients : link[d] = "idle" => out'[d] = out[d]
    BY <1>6 DEF Goes, ClientClose, Established, NetTypeOK
  <2> QED BY <1>0, <1>6, <2>1, <2>2, <2>3, PeerFrame
<1> QED BY <1>1, <1>2, <1>3, <1>4, <1>5, <1>6

LEMMA EndsPeer ==
  ASSUME NetTypeOK, PeerInv, Ends, UNCHANGED cliVars
  PROVE  PeerInv'
<1>1. PICK fs \in SUBSET OpenFds : ServerClose(fs, TRUE) /\ ~Up'
  BY DEF Ends
<1> DEFINE cut == {fd[f] : f \in fs} \cup ToSet(backlog)
<1>2. /\ fd' = [f \in Fds |-> IF f \in fs THEN None ELSE fd[f]]
      /\ link' = [c \in Clients |-> IF c \in cut THEN "down" ELSE link[c]]
      /\ out' = [c \in Clients |-> IF c \in cut THEN <<>> ELSE out[c]]
      /\ in' = [c \in Clients |-> IF c \in cut THEN <<>> ELSE in[c]]
      /\ down' = [c \in Clients |-> IF c \in cut /\ open[c] THEN Append(down[c], "FIN") ELSE down[c]]
      /\ backlog' = <<>>
      /\ UNCHANGED <<open, rst, cpc, sent, got, joins>>
  BY <1>1 DEF ServerClose, cliVars
<1>a. \A c \in ToSet(backlog) : link[c] = "queued"
  <2>1. \A c \in ToSet(backlog) : \E i \in 1 .. Len(backlog) : c = backlog[i]
    <3>1. backlog \in Seq(Clients)
      BY DEF NetTypeOK
    <3>2. DOMAIN backlog = 1 .. Len(backlog)
      BY <3>1
    <3> QED BY <3>2 DEF ToSet
  <2> QED BY <2>1 DEF PeerInv
<1>3. \A c \in cut : link[c] \in {"accepted", "queued"}
  <2>2. \A f \in fs : link[fd[f]] = "accepted"
    BY DEF PeerInv
  <2> QED BY <1>a, <2>2
<1>4. \A f \in OpenFds' : f \in OpenFds /\ fd'[f] = fd[f] /\ fd[f] \in Clients /\ fd[f] \notin cut
  <2> SUFFICES ASSUME NEW f \in OpenFds' PROVE f \in OpenFds /\ fd'[f] = fd[f] /\ fd[f] \in Clients /\ fd[f] \notin cut
    OBVIOUS
  <2>1. f \in OpenFds /\ f \notin fs /\ fd'[f] = fd[f] /\ fd[f] \in Clients
    BY <1>2 DEF OpenFds, NetTypeOK
  <2>3. link[fd[f]] = "accepted" /\ \A g \in fs : fd[g] # fd[f]
    BY <2>1 DEF PeerInv
  <2> QED BY <1>a, <2>1, <2>3
<1> HIDE DEF cut
<1>5. \A c \in Clients : link'[c] \in {"idle", "queued"} => c \notin cut /\ link'[c] = link[c]
  BY <1>2
<1>6. \A c \in Clients : cpc'[c] = "start" => link'[c] = "idle"
  BY <1>2, <1>3 DEF PeerInv
<1>7. \A c \in Clients : link'[c] = "idle" => in'[c] = <<>> /\ out'[c] = <<>> /\ sent'[c] = <<>>
  BY <1>2, <1>5 DEF PeerInv
<1>8. \A c \in Clients : link'[c] \in {"idle", "queued"} =>
        down'[c] = <<>> /\ got'[c] = <<>> /\ joins'[c] = 0
  BY <1>2, <1>5 DEF PeerInv
<1>9. \A f \in OpenFds' : link'[fd'[f]] = "accepted"
  BY <1>2, <1>4 DEF PeerInv
<1>10. \A f, g \in OpenFds' : f # g => fd'[f] # fd'[g]
  BY <1>4 DEF PeerInv
<1>11. Len(backlog') = 0
  BY <1>2
<1> QED BY <1>1, <1>6, <1>7, <1>8, <1>9, <1>10, <1>11 DEF PeerInv

LEMMA AcceptsPeer ==
  ASSUME NetTypeOK, PeerInv, NEW k \in 0 .. MaxFd, Accepts(k), UNCHANGED cliVars
  PROVE  PeerInv'
<1>1. /\ backlog # <<>> /\ k + 1 \in Fds /\ OpenFds = 1 .. k /\ OpenFds' = 1 .. k + 1
      /\ fd' = [fd EXCEPT ![k + 1] = Head(backlog)]
      /\ link' = [link EXCEPT ![Head(backlog)] = "accepted"]
      /\ backlog' = Tail(backlog) /\ Up
      /\ UNCHANGED <<open, out, in, down, rst, cpc, sent, got, joins>>
  BY DEF Accepts, cliVars, Up, Running
<1> DEFINE c == Head(backlog)
<1>2. /\ c = backlog[1] /\ c \in Clients /\ Tail(backlog) \in Seq(Clients)
      /\ Len(backlog) \in Nat \ {0} /\ Len(Tail(backlog)) = Len(backlog) - 1
      /\ \A i \in 1 .. Len(backlog) - 1 : Tail(backlog)[i] = backlog[i + 1]
  BY <1>1, TailAt DEF NetTypeOK
<1> HIDE DEF c
<1>3. link[c] = "queued" /\ link'[c] = "accepted" /\ \A d \in Clients \ {c} : link'[d] = link[d]
  <2>1. link[c] = "queued"
    BY <1>2 DEF PeerInv
  <2> QED BY <1>1, <1>2, <2>1 DEF NetTypeOK, c
<1>4. \A i \in 1 .. Len(backlog') :
        backlog'[i] = backlog[i + 1] /\ i + 1 \in 1 .. Len(backlog) /\ backlog'[i] \in Clients \ {c}
  <2> SUFFICES ASSUME NEW i \in 1 .. Len(backlog')
               PROVE  /\ backlog'[i] = backlog[i + 1] /\ i + 1 \in 1 .. Len(backlog)
                      /\ backlog'[i] \in Clients \ {c}
    OBVIOUS
  <2>1. backlog'[i] = backlog[i + 1] /\ i + 1 \in 1 .. Len(backlog) /\ 1 \in 1 .. Len(backlog)
        /\ i + 1 # 1 /\ i \in 1 .. Len(Tail(backlog))
    BY <1>1, <1>2
  <2>2. backlog[i + 1] # backlog[1]
    BY <2>1 DEF PeerInv
  <2>3. backlog[i + 1] \in Clients
    BY <2>1 DEF NetTypeOK
  <2> QED BY <1>2, <2>1, <2>2, <2>3
<1>5. \A i \in 1 .. Len(backlog') : link'[backlog'[i]] = "queued"
  BY <1>3, <1>4 DEF PeerInv
<1>6. \A i, j \in 1 .. Len(backlog') : i # j => backlog'[i] # backlog'[j]
  BY <1>4 DEF PeerInv
<1>7. fd'[k + 1] = c /\ \A f \in OpenFds : fd'[f] = fd[f] /\ fd[f] \in Clients \ {c}
  <2>1. fd'[k + 1] = c /\ \A f \in OpenFds : f # k + 1 /\ fd'[f] = fd[f]
    BY <1>1 DEF NetTypeOK, OpenFds, c
  <2>2. \A f \in OpenFds : fd[f] \in Clients /\ link[fd[f]] = "accepted"
    BY DEF OpenFds, NetTypeOK, PeerInv
  <2> QED BY <1>3, <2>1, <2>2
<1>8. \A f \in OpenFds' : f \in OpenFds \/ f = k + 1
  BY <1>1
<1>9. \A f \in OpenFds' : link'[fd'[f]] = "accepted"
  BY <1>3, <1>7, <1>8 DEF PeerInv
<1>10. \A f, g \in OpenFds' : f # g => fd'[f] # fd'[g]
  BY <1>7, <1>8 DEF PeerInv
<1>11. \A d \in Clients : cpc'[d] = "start" => link'[d] = "idle"
  BY <1>1, <1>3 DEF PeerInv
<1>12. \A d \in Clients : link'[d] = "idle" => in'[d] = <<>> /\ out'[d] = <<>> /\ sent'[d] = <<>>
  BY <1>1, <1>3 DEF PeerInv
<1>13. \A d \in Clients : link'[d] \in {"idle", "queued"} =>
         down'[d] = <<>> /\ got'[d] = <<>> /\ joins'[d] = 0
  BY <1>1, <1>3 DEF PeerInv
<1>14. \A d \in Clients : Up' => link'[d] # "down"
  BY <1>1, <1>3 DEF PeerInv
<1> QED BY <1>5, <1>6, <1>9, <1>10, <1>11, <1>12, <1>13, <1>14 DEF PeerInv

-----------------------------------------------------------------------------
(* What the server reads and says. *)

\* An answer is put on its way to a client that is there, and to no other.
Replies(c, msg) ==
  /\ pc' = "filter" /\ n' = n + 1 /\ cur' = "none"
  /\ IF open[c] THEN down' = [down EXCEPT ![c] = Append(@, msg)] /\ UNCHANGED toRm
     ELSE UNCHANGED down /\ toRm' \in {toRm, Append(toRm, n)}

SeesEnd(c) ==
  /\ pc = "filter" /\ in[c][1] = "FIN"
  /\ toRm' = Append(toRm, n) /\ n' = n + 1 /\ UNCHANGED <<pc, cur, in, down>>

TakesHeader(c) ==
  /\ pc = "filter" /\ in[c][1] \in Requests
  /\ cur' = in[c][1] /\ pc' = "body"
  /\ in' = [in EXCEPT ![c] = Tail(@)] /\ UNCHANGED <<down, n, toRm>>

Refuses(c) ==
  /\ pc = "filter" /\ in[c][1] = "ERROR"
  /\ in' = [in EXCEPT ![c] = Tail(@)] /\ Replies(c, "ERROR")

TakesBody(c) ==
  /\ pc = "body"
  /\ in' = IF in[c][1] = "FIN" THEN in ELSE [in EXCEPT ![c] = Tail(@)]
  /\ Replies(c, ResultOf(cur))

\* c is the client in slot n, which the server turns to.
AtSlot(c) ==
  /\ n \in Nat /\ n \in Listed /\ n < clients.len
  /\ clients.buf[n] \in OpenFds /\ c = fd[clients.buf[n]]
  /\ UNCHANGED <<link, open, out, backlog, fd, exitFlag, clients, fdRead, cSock, cnt, ptr>>

LEMMA ReadSteps ==
  ASSUME NetTypeOK, SrvTypeOK, CountersOK, RegistryInv, LoopInv,
         ReadHeader \/ ReadBody, ~Killed
  PROVE  \E c \in Clients : /\ AtSlot(c) /\ in[c] # <<>>
                            /\ SeesEnd(c) \/ TakesHeader(c) \/ Refuses(c) \/ TakesBody(c)
<1> DEFINE c == fd[clients.buf[n]]
<1>1. pc \in {"filter", "body"} /\ n \in Nat /\ n < clients.len
  BY DEF ReadHeader, ReadBody, CountersOK, LoopInv
<1>2. n \in Listed /\ clients.buf[n] \in OpenFds /\ c \in Clients
  BY <1>1, ServedIsOpen
<1>3. in[c] # <<>>
  BY DEF ReadHeader, ReadBody
<1>4. Head(in[c]) = in[c][1]
  OBVIOUS
<1>5. UNCHANGED <<link, open, out, backlog, fd, exitFlag, clients, fdRead, cSock, cnt, ptr>>
  BY DEF ReadHeader, ReadBody, ReplyAndReturn, netVars
<1>6. ASSUME NEW msg, NEW last \in BOOLEAN, ReplyAndReturn(c, msg, last) PROVE Replies(c, msg)
  <2>1. pc' = "filter" /\ n' = n + 1 /\ cur' = "none"
    BY <1>6, Zenon DEF ReplyAndReturn
  <2>2. IF open[c] THEN down' = [down EXCEPT ![c] = Append(@, msg)] /\ UNCHANGED toRm
        ELSE UNCHANGED down /\ toRm' \in {toRm, Append(toRm, n)}
    BY <1>6 DEF ReplyAndReturn, ServerSend, SendMeetsReset
  <2> QED BY <2>1, <2>2 DEF Replies
<1>7. AtSlot(c)
  BY <1>1, <1>2, <1>5 DEF AtSlot
<1>8. CASE ReadHeader
  <2>1. \/ /\ Head(in[c]) = "FIN"
           /\ toRm' = Append(toRm, n) /\ n' = n + 1
           /\ UNCHANGED <<pc, cur, exitFlag, clients, fdRead, cSock, cnt, ptr, netVars>>
        \/ /\ Head(in[c]) \in Requests
           /\ cur' = Head(in[c]) /\ pc' = "body"
           /\ in' = [in EXCEPT ![c] = Tail(@)]
           /\ UNCHANGED <<link, open, out, down, rst, backlog, fd, exitFlag, clients,
                          fdRead, cSock, n, toRm, cnt, ptr>>
        \/ /\ Head(in[c]) = "ERROR"
           /\ in' = [in EXCEPT ![c] = Tail(@)]
           /\ ReplyAndReturn(c, "ERROR", TRUE)
    BY <1>8 DEF ReadHeader
  <2>2. pc = "filter"
    BY <1>8 DEF ReadHeader
  <2> HIDE DEF c
  <2>3. SeesEnd(c) \/ TakesHeader(c) \/ Refuses(c)
    BY <1>4, <1>6, <2>1, <2>2 DEF SeesEnd, TakesHeader, Refuses, netVars
  <2> QED BY <1>2, <1>3, <1>7, <2>3, Zenon
<1>9. CASE ReadBody
  <2>1. /\ in' = IF Head(in[c]) = "FIN" THEN in ELSE [in EXCEPT ![c] = Tail(@)]
        /\ ReplyAndReturn(c, ResultOf(cur), cur = "LOGOUT") /\ pc = "body"
    BY <1>9 DEF ReadBody
  <2> HIDE DEF c
  <2>2. (cur = "LOGOUT") \in BOOLEAN
    OBVIOUS
  <2>3. TakesBody(c)
    BY <1>4, <1>6, <2>1, <2>2 DEF TakesBody
  <2> QED BY <1>2, <1>3, <1>7, <2>3
<1> QED BY <1>8, <1>9

\* The client in slot n is told of the new one, if it is there.
Tells(c) ==
  /\ pc = "join" /\ n' = n - 1 /\ UNCHANGED <<pc, in, cur, toRm>>
  /\ IF open[c] THEN down' = [down EXCEPT ![c] = Append(@, "NEW_USER_JOIN")] ELSE UNCHANGED down

LEMMA JoinSteps ==
  ASSUME NetTypeOK, SrvTypeOK, RegistryInv, LoopInv, JoinSend, ~Killed
  PROVE  \E c \in Clients : AtSlot(c) /\ Tells(c)
<1> DEFINE c == fd[clients.buf[n]]
<1>1. pc = "join" /\ n \in Nat /\ n < clients.len
  BY DEF JoinSend, LoopInv, SrvTypeOK
<1>2. n \in Listed /\ clients.buf[n] \in OpenFds /\ c \in Clients
  BY <1>1, ServedIsOpen
<1>3. /\ \/ ServerSend(c, "NEW_USER_JOIN")
         \/ SendMeetsReset(c) /\ UNCHANGED <<down, rst>>
      /\ n' = n - 1
      /\ UNCHANGED <<link, open, out, in, backlog, fd, pc, exitFlag, clients,
                     fdRead, cSock, cur, toRm, cnt, ptr>>
  BY DEF JoinSend
<1> HIDE DEF c
<1>4. IF open[c] THEN down' = [down EXCEPT ![c] = Append(@, "NEW_USER_JOIN")] ELSE UNCHANGED down
  BY <1>3 DEF ServerSend, SendMeetsReset
<1>5. AtSlot(c)
  BY <1>1, <1>2, <1>3 DEF AtSlot, c
<1>6. Tells(c)
  BY <1>1, <1>3, <1>4 DEF Tells
<1> QED BY <1>2, <1>5, <1>6

\* The client the server turns to is connected; the others are left alone.
LEMMA SlotPeer ==
  ASSUME PeerInv, UNCHANGED cliVars, NEW c \in Clients, AtSlot(c), Up' => Up,
         \A d \in Clients \ {c} : in'[d] = in[d] /\ down'[d] = down[d]
  PROVE  PeerInv'
<1>1. link[c] = "accepted" /\ UNCHANGED <<link, backlog, fd, out, cpc, sent, got, joins>>
  BY DEF AtSlot, PeerInv, cliVars
<1>2. \A d \in Clients : link[d] \in {"idle", "queued"} => d # c
  BY <1>1
<1> QED BY <1>1, <1>2, PeerFrame

LEMMA ServerPeer ==
  ASSUME NetTypeOK, SrvTypeOK, CountersOK, RegistryInv, LoopInv, PeerInv, Server
  PROVE  PeerInv'
<1>0. UNCHANGED cliVars /\ SrvNext
  BY DEF Server
<1>1. CASE Ends
  BY <1>0, <1>1, EndsPeer
<1>2. ASSUME NEW k \in 0 .. MaxFd, Accepts(k) PROVE PeerInv'
  BY <1>0, <1>2, AcceptsPeer
<1>3. CASE JoinSend /\ ~Killed
  <2>1. PICK c \in Clients : AtSlot(c) /\ Tells(c)
    BY <1>3, JoinSteps
  <2>2. \A d \in Clients \ {c} : in'[d] = in[d] /\ down'[d] = down[d]
    BY <2>1 DEF Tells, NetTypeOK
  <2>3. Up
    BY <2>1 DEF Tells, Up, Running
  <2> QED BY <1>0, <2>1, <2>2, <2>3, SlotPeer
<1>4. CASE (ReadHeader \/ ReadBody) /\ ~Killed
  <2>1. PICK c \in Clients : /\ AtSlot(c) /\ in[c] # <<>>
                             /\ SeesEnd(c) \/ TakesHeader(c) \/ Refuses(c) \/ TakesBody(c)
    BY <1>4, ReadSteps
  <2>2. \A d \in Clients \ {c} : in'[d] = in[d] /\ down'[d] = down[d]
    BY <2>1 DEF SeesEnd, TakesHeader, Refuses, TakesBody, Replies, NetTypeOK
  <2>3. Up
    BY <2>1 DEF SeesEnd, TakesHeader, Refuses, TakesBody, Up, Running
  <2> QED BY <1>0, <2>1, <2>2, <2>3, SlotPeer
<1>5. CASE Within
  BY <1>0, <1>5, PeerFrame DEF Within, netVars, cliVars
<1> QED BY <1>0, <1>1, <1>2, <1>3, <1>4, <1>5, ServerSteps

LEMMA NetworkPeer ==
  ASSUME NetTypeOK, PeerInv, Network
  PROVE  PeerInv'
<1>0. UNCHANGED cliVars /\ NetNext /\ Up' = Up
  BY DEF Network, srvVars, Up
<1>1. ASSUME NEW c \in Clients, Deliver(c) PROVE PeerInv'
  <2>1. link[c] # "idle"
    BY <1>1 DEF Deliver, PeerInv
  <2>2. \A d \in Clients \ {c} : in'[d] = in[d] /\ out'[d] = out[d]
    BY <1>1 DEF Deliver, NetTypeOK
  <2>3. UNCHANGED <<link, down, backlog, fd, cpc, sent, got, joins>>
    BY <1>0, <1>1 DEF Deliver, cliVars
  <2> QED BY <1>0, <2>1, <2>2, <2>3, PeerFrame
<1>2. ASSUME NEW c \in Clients, ResetArrives(c) PROVE PeerInv'
  BY <1>0, <1>2, PeerFrame DEF ResetArrives, cliVars
<1> QED BY <1>0, <1>1, <1>2 DEF NetNext

-----------------------------------------------------------------------------
(* Where the server is. *)

LEMMA LoopFrame ==
  LoopInv /\ UNCHANGED <<pc, n, clients, cur, cSock, fd>> => LoopInv'
<1> SUFFICES ASSUME LoopInv, UNCHANGED <<pc, n, clients, cur, cSock, fd>> PROVE LoopInv'
  OBVIOUS
<1>1. OpenFds' = OpenFds /\ Up' = Up
  BY DEF OpenFds, Up
<1> QED BY <1>1 DEF LoopInv

LEMMA ServerLoop ==
  ASSUME NetTypeOK, SrvTypeOK, CountersOK, RegistryInv, LoopInv, Server
  PROVE  LoopInv'
<1>0. SrvNext
  BY DEF Server
<1>1. CASE Ends
  BY <1>1 DEF Ends, LoopInv
<1>2. ASSUME NEW k \in 0 .. MaxFd, Accepts(k) PROVE LoopInv'
  <2>1. clients.len \in Nat /\ n' = clients.len - 1 /\ UNCHANGED clients /\ pc' = "join"
    BY <1>2 DEF Accepts, LastIndex, SrvTypeOK, D!IsDynArr
  <2>2. OpenFds' = 1 .. k + 1 /\ cSock' = k + 1
    BY <1>2 DEF Accepts
  <2>3. n' < clients'.len /\ OpenFds' = 1 .. cSock'
    BY <2>1, <2>2
  <2> QED BY <2>1, <2>3 DEF LoopInv
<1>3. CASE JoinSend /\ ~Killed
  <2>1. PICK c \in Clients : AtSlot(c) /\ Tells(c)
    BY <1>3, JoinSteps
  <2>2. n \in Nat /\ n < clients.len /\ n' = n - 1 /\ pc = "join" /\ UNCHANGED <<pc, clients, cSock, fd>>
    BY <2>1 DEF AtSlot, Tells
  <2>3. n' < clients'.len
    BY <2>2 DEF SrvTypeOK, D!IsDynArr
  <2>4. OpenFds' = OpenFds
    BY <2>2 DEF OpenFds
  <2> QED BY <2>2, <2>3, <2>4 DEF LoopInv
<1>4. CASE (ReadHeader \/ ReadBody) /\ ~Killed
  <2>1. PICK c \in Clients : /\ AtSlot(c) /\ in[c] # <<>>
                             /\ SeesEnd(c) \/ TakesHeader(c) \/ Refuses(c) \/ TakesBody(c)
    BY <1>4, ReadSteps
  <2>2. pc \in {"filter", "body"} /\ UNCHANGED <<clients, cSock>> /\ n < clients.len
    BY <2>1 DEF AtSlot, SeesEnd, TakesHeader, Refuses, TakesBody
  <2>3. pc' = "filter" \/ (pc' = "body" /\ n' = n /\ cur' \in Requests)
    BY <2>1 DEF SeesEnd, TakesHeader, Refuses, TakesBody, Replies
  <2>4. cSock = 0
    BY <2>2 DEF LoopInv, Up, Running
  <2> QED BY <2>2, <2>3, <2>4 DEF LoopInv
<1>5. CASE Within /\ TypeE
  BY <1>5, LoopFrame DEF Within, TypeE, netVars
<1>6. CASE JoinInsert
  BY <1>6 DEF JoinInsert, GoFilter, LoopInv
<1>7. CASE LoopTop \/ Select \/ FilterSkip \/ FilterDone \/ CompactStep \/ CompactDone
           \/ (Accept /\ GoFilter /\ UNCHANGED cSock)
  <2>1. pc' \notin {"body", "join"} /\ pc # "join" /\ Up /\ UNCHANGED cSock
    BY <1>7 DEF LoopTop, Select, GoFilter, FilterSkip, FilterDone, CompactStep, CompactDone,
                Accept, Up, Running
  <2> QED BY <2>1 DEF LoopInv
<1> QED BY <1>0, <1>1, <1>2, <1>3, <1>4, <1>5, <1>6, <1>7, ServerSteps

LEMMA OthersLoop == LoopInv /\ (Network \/ Peers) => LoopInv'
  BY OthersKeepFds, LoopFrame DEF srvVars

-----------------------------------------------------------------------------
(* The streams. *)

\* Taking from the front of the first of two sequences, or moving the front of
\* the second behind the first.
LEMMA ConcatFront ==
  ASSUME NEW S, NEW a \in Seq(S), NEW b \in Seq(S), a # <<>>
  PROVE  a \o b \in Seq(S) /\ a \o b # <<>> /\ (a \o b)[1] = a[1] /\ Tail(a) \o b = Tail(a \o b)
<1> DEFINE h == <<Head(a)>>
           t == Tail(a)
<1>1. h \in Seq(S) /\ t \in Seq(S) /\ h \o t = a /\ Head(a) = a[1]
  BY HeadTailProperties
<1>2. (h \o t) \o b = h \o (t \o b)
  BY <1>1, ConcatAssociative
<1>3. t \o b \in Seq(S)
  BY <1>1, ConcatProperties
<1>4. a \o b = h \o (t \o b)
  BY <1>1, <1>2
<1> DEFINE u == t \o b
<1>5. u \in Seq(S) /\ Head(a) \in S
  BY <1>1, <1>3
<1> HIDE DEF u
<1>6. Tail(<<Head(a)>> \o u) = u /\ (<<Head(a)>> \o u)[1] = Head(a)
      /\ <<Head(a)>> \o u # <<>> /\ <<Head(a)>> \o u \in Seq(S)
  BY <1>5
<1> QED BY <1>1, <1>4, <1>6 DEF u

LEMMA ConcatAppend ==
  ASSUME NEW S, NEW a \in Seq(S), NEW b \in Seq(S), NEW x \in S
  PROVE  a \o (b \o <<x>>) = Append(a \o b, x)
<1> DEFINE e  == <<x>>
           ab == a \o b
<1>1. e \in Seq(S) /\ ab \in Seq(S)
  BY ConcatProperties
<1>2. ab \o <<x>> = Append(ab, x)
  <2> HIDE DEF ab
  <2> QED BY <1>1, AppendIsConcat
<1> HIDE DEF e
<1>3. (a \o b) \o e = a \o (b \o e)
  BY <1>1, ConcatAssociative
<1> QED BY <1>2, <1>3 DEF e, ab

LEMMA ConcatMove ==
  ASSUME NEW S, NEW a \in Seq(S), NEW b \in Seq(S), b # <<>>
  PROVE  Append(a, Head(b)) \o Tail(b) = a \o b
<1> DEFINE h == <<Head(b)>>
           t == Tail(b)
<1>1. h \in Seq(S) /\ t \in Seq(S) /\ h \o t = b /\ Head(b) \in S
  BY HeadTailProperties
<1>2. (a \o h) \o t = a \o (h \o t)
  BY <1>1, ConcatAssociative
<1>3. Append(a, Head(b)) = a \o h
  BY <1>1, AppendIsConcat
<1> QED BY <1>1, <1>2, <1>3

LEMMA ConcatCut ==
  ASSUME NEW S, NEW a \in Seq(S), NEW b \in Seq(S), NEW k \in 0 .. Len(b), NEW x \in S,
         NEW t, t = a \o Append(SubSeq(b, 1, k), x)
  PROVE  /\ Len(a) + k \in 0 .. Len(a \o b) /\ t \in Seq(S)
         /\ Len(t) = (Len(a) + k) + 1 /\ t[(Len(a) + k) + 1] = x
         /\ \A i \in 1 .. Len(a) + k : t[i] = (a \o b)[i]
<1> DEFINE c == SubSeq(b, 1, k)
           d == Append(c, x)
<1>1. Len(a) \in Nat /\ Len(b) \in Nat /\ k \in Nat /\ k <= Len(b)
  OBVIOUS
<1>2. c \in Seq(S) /\ Len(c) = k /\ \A i \in 1 .. k : c[i] = b[i]
  OBVIOUS
<1> HIDE DEF c
<1>3. d \in Seq(S) /\ Len(d) = k + 1 /\ d[k + 1] = x /\ \A i \in 1 .. k : d[i] = b[i]
  <2>1. c \in Seq(S) /\ Len(c) = k
    BY <1>2
  <2>2. d \in Seq(S) /\ Len(d) = k + 1 /\ d[k + 1] = x /\ \A i \in 1 .. k : d[i] = c[i]
    BY <2>1
  <2> QED BY <1>2, <2>2
<1>4. t = a \o d
  BY DEF c
<1> HIDE DEF d
<1>5. ConcatAt(S)
  BY ConcatIsAt
<1>6. /\ a \o d \in Seq(S) /\ Len(a \o d) = Len(a) + Len(d)
      /\ \A i \in 1 .. Len(a) + Len(d) : (a \o d)[i] = IF i <= Len(a) THEN a[i] ELSE d[i - Len(a)]
  BY <1>3, <1>5, Zenon DEF ConcatAt
<1>7. /\ Len(a \o b) = Len(a) + Len(b)
      /\ \A i \in 1 .. Len(a) + Len(b) : (a \o b)[i] = IF i <= Len(a) THEN a[i] ELSE b[i - Len(a)]
  BY <1>5, Zenon DEF ConcatAt
<1>8. Len(a) + k \in 0 .. Len(a \o b) /\ Len(t) = (Len(a) + k) + 1 /\ t \in Seq(S)
  BY <1>1, <1>3, <1>4, <1>6, <1>7
<1>9. t[(Len(a) + k) + 1] = x
  <2>1. t[(Len(a) + k) + 1] = d[((Len(a) + k) + 1) - Len(a)]
    BY <1>1, <1>3, <1>4, <1>6
  <2>2. ((Len(a) + k) + 1) - Len(a) = k + 1
    BY <1>1
  <2> QED BY <1>3, <2>1, <2>2
<1>10. ASSUME NEW i \in 1 .. Len(a) + k PROVE t[i] = (a \o b)[i]
  <2>1. i \in 1 .. Len(a) + Len(d) /\ i \in 1 .. Len(a) + Len(b)
    BY <1>1, <1>3
  <2>2. t[i] = IF i <= Len(a) THEN a[i] ELSE d[i - Len(a)]
    BY <1>4, <1>6, <2>1
  <2>3. (a \o b)[i] = IF i <= Len(a) THEN a[i] ELSE b[i - Len(a)]
    BY <1>7, <2>1
  <2>4. CASE i <= Len(a)
    BY <2>2, <2>3, <2>4
  <2>5. CASE ~(i <= Len(a))
    <3>1. i - Len(a) \in 1 .. k
      BY <1>1, <2>5
    <3>2. d[i - Len(a)] = b[i - Len(a)]
      BY <1>3, <3>1
    <3> QED BY <2>2, <2>3, <2>5, <3>2
  <2> QED BY <2>4, <2>5
<1> QED BY <1>8, <1>9, <1>10

LEMMA StreamType ==
  ASSUME NetTypeOK, NEW c \in Clients
  PROVE  in[c] \in Seq(UpSegments) /\ out[c] \in Seq(UpSegments) /\ Stream(c) \in Seq(UpSegments)
<1>1. in[c] \in Seq(UpSegments) /\ out[c] \in Seq(UpSegments)
  BY DEF NetTypeOK
<1> QED BY <1>1, ConcatProperties DEF Stream

\* A client whose segments nobody touches.
LEMMA StreamFrame ==
  ASSUME NEW c \in Clients, StreamOK(c), Stream(c)' = Stream(c), Serving(c)' <=> Serving(c),
         open'[c] => open[c],
         c \notin Talkers => \A i \in 1 .. Len(down'[c]) : down'[c][i] # "ERROR"
  PROVE  StreamOK(c)'
<1>1. Serving(c)' = Serving(c)
  BY DEF Serving
<1> QED BY <1>1 DEF StreamOK

\* What one message more, or one less, does to what is on its way to a client.
LEMMA NoErrorMore ==
  ASSUME NEW s \in Seq(DownMessages), NEW m \in DownMessages, m # "ERROR",
         \A i \in 1 .. Len(s) : s[i] # "ERROR"
  PROVE  \A i \in 1 .. Len(Append(s, m)) : Append(s, m)[i] # "ERROR"
<1>1. /\ Len(Append(s, m)) = Len(s) + 1 /\ Len(s) \in Nat
      /\ \A i \in 1 .. Len(s) + 1 : Append(s, m)[i] = IF i <= Len(s) THEN s[i] ELSE m
  BY AppendProperties
<1> QED BY <1>1

LEMMA NoErrorLess ==
  ASSUME NEW s \in Seq(DownMessages), s # <<>>, \A i \in 1 .. Len(s) : s[i] # "ERROR"
  PROVE  Head(s) # "ERROR" /\ \A i \in 1 .. Len(Tail(s)) : Tail(s)[i] # "ERROR"
<1>1. /\ Head(s) = s[1] /\ Len(s) \in Nat \ {0} /\ Len(Tail(s)) = Len(s) - 1
      /\ \A i \in 1 .. Len(s) - 1 : Tail(s)[i] = s[i + 1]
  BY TailAt
<1> QED BY <1>1

\* A client whose segments nobody touches while the server's thread stays.
LEMMA StreamSame ==
  ASSUME StreamInv, UNCHANGED <<pc, n, clients, fd>>, NEW c \in Clients,
         in'[c] = in[c], out'[c] = out[c], open'[c] => open[c],
         c \notin Talkers => \A i \in 1 .. Len(down'[c]) : down'[c][i] # "ERROR"
  PROVE  StreamOK(c)'
<1>1. StreamOK(c) /\ Stream(c)' = Stream(c)
  BY DEF StreamInv, Stream
<1>2. Serving(c)' <=> Serving(c)
  BY DEF Serving
<1> QED BY <1>1, <1>2, StreamFrame

LEMMA StreamSent ==
  ASSUME NetTypeOK, NEW c \in Clients, NEW cmd \in Requests \cup {"ERROR"},
         ClientSend(c, cmd), Established(c)
  PROVE  Stream(c)' = Stream(c) \o Segments(cmd)
<1> DEFINE a == in[c]
           b == out[c]
           d == Segments(cmd)
<1>1. in'[c] = a /\ out'[c] = b \o d
  BY DEF ClientSend, NetTypeOK
<1>2. a \in Seq(UpSegments) /\ b \in Seq(UpSegments) /\ d \in Seq(UpSegments)
  BY StreamType, SegmentsType
<1> HIDE DEF a, b, d
<1>3. (a \o b) \o d = a \o (b \o d)
  BY <1>2, ConcatAssociative
<1> QED BY <1>1, <1>3 DEF Stream, a, b, d

\* c sends a message.
LEMMA SendStream ==
  ASSUME NetTypeOK, StreamInv, UNCHANGED <<pc, n, clients, fd>>, NEW c \in Clients,
         NEW cmd \in Requests \cup {"ERROR"}, cmd \notin Requests => c \in Talkers,
         ClientSend(c, cmd),
         c \notin Talkers => \A i \in 1 .. Len(down'[c]) : down'[c][i] # "ERROR"
  PROVE  StreamOK(c)'
<1>1. StreamOK(c) /\ UNCHANGED <<in, open>>
  BY DEF StreamInv, ClientSend
<1>2. Serving(c)' = Serving(c) /\ Serving(c) \in BOOLEAN
  BY DEF Serving
<1>3. CASE ~Established(c)
  <2>1. out'[c] = out[c]
    BY <1>3 DEF ClientSend
  <2> QED BY <1>1, <2>1, StreamSame
<1>4. CASE Established(c)
  <2>3. Stream(c) \in Seq(UpSegments)
    BY StreamType
  <2>5. Stream(c)' = Stream(c) \o Segments(cmd)
    BY <1>4, StreamSent
  <2> DEFINE s == Stream(c)
             b == Serving(c)
  <2>6. /\ Orderly(s, b) => Orderly(Stream(c)', b)
        /\ Plain(s, b) /\ cmd \in Requests => Plain(Stream(c)', b)
        /\ \A i \in 1 .. Len(Stream(c)') : Stream(c)'[i] = "FIN" => i \in 1 .. Len(s) /\ s[i] = "FIN"
    <3> DEFINE t == Stream(c)'
    <3>1. t = s \o Segments(cmd) /\ s \in Seq(UpSegments) /\ b \in BOOLEAN
      BY <1>2, <2>3, <2>5
    <3> HIDE DEF s, b, t
    <3>2. /\ Orderly(s, b) => Orderly(t, b)
          /\ Plain(s, b) /\ cmd \in Requests => Plain(t, b)
          /\ \A i \in 1 .. Len(t) : t[i] = "FIN" => i \in 1 .. Len(s) /\ s[i] = "FIN"
      BY <3>1, StreamSend
    <3> QED BY <3>2 DEF t
  <2> QED BY <1>1, <1>2, <2>6 DEF StreamOK
<1> QED BY <1>3, <1>4

\* c closes its end.
LEMMA CloseStream ==
  ASSUME NetTypeOK, StreamInv, UNCHANGED <<pc, n, clients, fd>>, NEW c \in Clients, ClientClose(c)
  PROVE  StreamOK(c)'
<1>1. StreamOK(c) /\ UNCHANGED in /\ ~open'[c] /\ down'[c] = <<>>
  BY DEF StreamInv, ClientClose, NetTypeOK
<1>2. Serving(c)' = Serving(c) /\ Serving(c) \in BOOLEAN
  BY DEF Serving
<1>3. CASE ~Established(c)
  <2>1. out'[c] = out[c]
    BY <1>3 DEF ClientClose
  <2> QED BY <1>1, <2>1, StreamSame
<1>4. CASE Established(c)
  <2>1. in[c] \in Seq(UpSegments) /\ out[c] \in Seq(UpSegments) /\ Stream(c) \in Seq(UpSegments)
    BY StreamType
  <2>2. \E k \in 0 .. Len(out[c]) : out'[c] = Append(SubSeq(out[c], 1, k), "FIN")
    <3>1. CASE down[c] = <<>>
      <4>1. out'[c] = Append(out[c], "FIN")
        BY <1>4, <3>1 DEF ClientClose, NetTypeOK
      <4>2. SubSeq(out[c], 1, Len(out[c])) = out[c] /\ Len(out[c]) \in 0 .. Len(out[c])
        BY <2>1
      <4> QED BY <4>1, <4>2
    <3>2. CASE down[c] # <<>>
      BY <1>4, <3>2 DEF ClientClose, NetTypeOK
    <3> QED BY <3>1, <3>2
  <2>3. PICK k \in 0 .. Len(out[c]) : out'[c] = Append(SubSeq(out[c], 1, k), "FIN")
    BY <2>2
  <2> DEFINE a == in[c]
             o == out[c]
             s == Stream(c)
             t == Stream(c)'
             b == Serving(c)
             m == Len(a) + k
  <2>4. t = a \o Append(SubSeq(o, 1, k), "FIN") /\ s = a \o o
    BY <1>1, <2>3 DEF Stream
  <2>5. a \in Seq(UpSegments) /\ o \in Seq(UpSegments) /\ s \in Seq(UpSegments) /\ b \in BOOLEAN
        /\ k \in 0 .. Len(o) /\ "FIN" \in UpSegments
    BY <1>2, <2>1 DEF UpSegments
  <2> HIDE DEF a, o, s, t, b
  <2>6. /\ m \in 0 .. Len(a \o o) /\ t \in Seq(UpSegments)
        /\ Len(t) = m + 1 /\ t[m + 1] = "FIN"
        /\ \A i \in 1 .. m : t[i] = (a \o o)[i]
    BY <2>4, <2>5, ConcatCut
  <2> HIDE DEF m
  <2>7. m \in 0 .. Len(s) /\ \A i \in 1 .. m : t[i] = s[i]
    BY <2>4, <2>6
  <2>8. (Orderly(s, b) => Orderly(t, b)) /\ (Plain(s, b) => Plain(t, b))
    BY <2>5, <2>6, <2>7, StreamCut
  <2> QED BY <1>1, <1>2, <2>8 DEF StreamOK, s, t, b
<1> QED BY <1>3, <1>4

LEMMA PeersStream ==
  ASSUME NetTypeOK, CliTypeOK, PeerInv, StreamInv, Peers
  PROVE  StreamInv'
<1>0. UNCHANGED <<pc, n, clients, fd>>
  BY OthersKeepFds DEF srvVars
<1>1. PICK c \in Clients :
        \/ Connect(c, Up)
        \/ Quiet(c) \/ (\E cmd : Says(c, cmd)) \/ Hears(c) \/ Goes(c)
  BY PeersSteps
<1>2. \A d \in Clients \ Talkers : \A i \in 1 .. Len(down[d]) : down[d][i] # "ERROR"
  BY DEF StreamInv, StreamOK
<1>3. CASE Connect(c, Up)
  <2>1. UNCHANGED <<in, out, open>>
    BY <1>3 DEF Connect, ConnectOk, ConnectRefused
  <2>2. ASSUME NEW d \in Clients PROVE down'[d] = down[d] \/ down'[d] = <<"FIN">>
    BY <1>3 DEF Connect, ConnectOk, ConnectRefused, NetTypeOK
  <2>3. ASSUME NEW d \in Clients \ Talkers PROVE \A i \in 1 .. Len(down'[d]) : down'[d][i] # "ERROR"
    BY <1>2, <2>2
  <2> QED BY <1>0, <2>1, <2>3, StreamSame DEF StreamInv
<1>4. CASE Quiet(c)
  <2>1. UNCHANGED <<in, out, open, down>>
    BY <1>4 DEF Quiet, netVars
  <2> QED BY <1>0, <1>2, <2>1, StreamSame DEF StreamInv
<1>5. ASSUME NEW cmd, Says(c, cmd) PROVE StreamInv'
  <2>1. /\ cmd \in Requests \cup {"ERROR"} /\ (cmd \notin Requests => c \in Talkers)
        /\ ClientSend(c, cmd) /\ UNCHANGED <<in, open, down>>
    BY <1>5 DEF Says, ClientSend
  <2>2. \A d \in Clients \ {c} : out'[d] = out[d]
    BY <2>1 DEF ClientSend, NetTypeOK
  <2>3. StreamOK(c)'
    BY <1>0, <1>2, <2>1, SendStream
  <2>4. ASSUME NEW d \in Clients \ {c} PROVE StreamOK(d)'
    BY <1>0, <1>2, <2>1, <2>2, StreamSame
  <2> QED BY <2>3, <2>4 DEF StreamInv
<1>6. CASE Hears(c)
  <2>1. /\ down[c] # <<>> /\ down' = [down EXCEPT ![c] = Tail(@)] /\ UNCHANGED <<in, open>>
        /\ Head(down[c]) # "FIN"
        /\ IF Head(down[c]) \in Understood THEN UNCHANGED out ELSE ClientSend(c, "ERROR")
    BY <1>6 DEF Hears, Consume, ClientSend
  <2>2. \A d \in Clients \ {c} : out'[d] = out[d] /\ down'[d] = down[d]
    BY <2>1 DEF ClientSend, NetTypeOK
  <2>3. down[c] \in Seq(DownMessages) /\ down'[c] = Tail(down[c])
    BY <2>1 DEF NetTypeOK
  <2>4. c \notin Talkers => /\ Head(down[c]) # "ERROR"
                            /\ \A i \in 1 .. Len(down'[c]) : down'[c][i] # "ERROR"
    BY <1>2, <2>1, <2>3, NoErrorLess
  <2>5. Head(down[c]) \notin Understood => Head(down[c]) = "ERROR"
    BY <2>1, <2>3 DEF Understood, DownMessages
  <2>6. StreamOK(c)'
    <3>1. CASE Head(down[c]) \in Understood
      BY <1>0, <2>1, <2>4, <3>1, StreamSame
    <3>2. CASE Head(down[c]) \notin Understood
      <4>1. c \in Talkers /\ ClientSend(c, "ERROR")
        BY <2>1, <2>4, <2>5, <3>2
      <4> QED BY <1>0, <4>1, SendStream
    <3> QED BY <3>1, <3>2
  <2>7. ASSUME NEW d \in Clients \ {c} PROVE StreamOK(d)'
    BY <1>0, <1>2, <2>1, <2>2, StreamSame
  <2> QED BY <2>6, <2>7 DEF StreamInv
<1>7. CASE Goes(c)
  <2>1. ClientClose(c)
    BY <1>7 DEF Goes
  <2>2. StreamOK(c)'
    BY <1>0, <2>1, CloseStream
  <2>3. ASSUME NEW d \in Clients \ {c} PROVE StreamOK(d)'
    <3>1. in'[d] = in[d] /\ out'[d] = out[d] /\ down'[d] = down[d] /\ open'[d] = open[d]
      BY <2>1 DEF ClientClose, NetTypeOK
    <3> QED BY <1>0, <1>2, <3>1, StreamSame
  <2> QED BY <2>2, <2>3 DEF StreamInv
<1> QED BY <1>1, <1>3, <1>4, <1>5, <1>6, <1>7

LEMMA NetworkSame ==
  ASSUME NetTypeOK, Network
  PROVE  /\ UNCHANGED <<srvVars, cliVars, link, fd, open, down>>
         /\ \A d \in Clients : Stream(d)' = Stream(d)
<1>0. UNCHANGED <<srvVars, cliVars, link, fd, open, down>>
  BY OthersKeepFds DEF Network, NetNext, Deliver, ResetArrives
<1>1. ASSUME NEW c \in Clients, Deliver(c), NEW d \in Clients PROVE Stream(d)' = Stream(d)
  <2>1. CASE d = c
    <3>1. in[c] \in Seq(UpSegments) /\ out[c] \in Seq(UpSegments) /\ out[c] # <<>>
      BY <1>1, StreamType DEF Deliver
    <3>2. in'[c] = Append(in[c], Head(out[c])) /\ out'[c] = Tail(out[c])
      BY <1>1 DEF Deliver, NetTypeOK
    <3>3. Append(in[c], Head(out[c])) \o Tail(out[c]) = in[c] \o out[c]
      BY <3>1, ConcatMove
    <3> QED BY <2>1, <3>2, <3>3 DEF Stream
  <2>2. CASE d # c
    BY <1>1, <2>2 DEF Deliver, NetTypeOK, Stream
  <2> QED BY <2>1, <2>2
<1>2. ASSUME NEW c \in Clients, ResetArrives(c), NEW d \in Clients PROVE Stream(d)' = Stream(d)
  BY <1>2 DEF ResetArrives, Stream
<1> QED BY <1>0, <1>1, <1>2 DEF Network, NetNext

LEMMA NetworkStream ==
  ASSUME NetTypeOK, StreamInv, Network
  PROVE  StreamInv'
<1>1. ASSUME NEW d \in Clients PROVE StreamOK(d)'
  <2>1. StreamOK(d) /\ (Serving(d)' <=> Serving(d))
    BY NetworkSame DEF StreamInv, Serving, srvVars
  <2>2. d \notin Talkers => \A i \in 1 .. Len(down'[d]) : down'[d][i] # "ERROR"
    BY NetworkSame, <2>1 DEF StreamOK
  <2>3. open'[d] => open[d]
    BY NetworkSame
  <2>4. Stream(d)' = Stream(d)
    BY NetworkSame
  <2> QED BY <2>1, <2>2, <2>3, <2>4, StreamFrame
<1> QED BY <1>1 DEF StreamInv

\* The server stops: nothing is left of the streams it held.
LEMMA EndsStream ==
  ASSUME NetTypeOK, LoopInv, StreamInv, Ends
  PROVE  StreamInv'
<1>1. PICK fs \in SUBSET OpenFds :
        /\ ServerClose(fs, TRUE) /\ pc' \in {"killed", "returned", "stopped"}
        /\ pc = "body" /\ n < clients.len => fd[clients.buf[n]] \in {fd[f] : f \in fs}
  BY DEF Ends
<1> DEFINE cut == {fd[f] : f \in fs} \cup ToSet(backlog)
<1>2. /\ out' = [c \in Clients |-> IF c \in cut THEN <<>> ELSE out[c]]
      /\ in' = [c \in Clients |-> IF c \in cut THEN <<>> ELSE in[c]]
      /\ down' = [c \in Clients |-> IF c \in cut /\ open[c] THEN Append(down[c], "FIN") ELSE down[c]]
      /\ UNCHANGED open
  BY <1>1 DEF ServerClose
<1>3. \A c \in Clients : Serving(c) => c \in cut
  BY <1>1 DEF Serving, LoopInv
<1>4. \A c \in Clients : ~Serving(c)'
  BY <1>1 DEF Serving
<1> HIDE DEF cut
<1> SUFFICES ASSUME NEW c \in Clients PROVE StreamOK(c)'
  BY DEF StreamInv
<1>5. c \notin Talkers => \A i \in 1 .. Len(down'[c]) : down'[c][i] # "ERROR"
  <2> SUFFICES ASSUME c \notin Talkers PROVE \A i \in 1 .. Len(down'[c]) : down'[c][i] # "ERROR"
    OBVIOUS
  <2>1. \A i \in 1 .. Len(down[c]) : down[c][i] # "ERROR"
    BY DEF StreamInv, StreamOK
  <2>2. down[c] \in Seq(DownMessages) /\ "FIN" \in DownMessages
    BY DEF NetTypeOK, DownMessages
  <2>3. \A i \in 1 .. Len(Append(down[c], "FIN")) : Append(down[c], "FIN")[i] # "ERROR"
    BY <2>1, <2>2, NoErrorMore
  <2> QED BY <1>2, <2>1, <2>3
<1>6. CASE c \in cut
  <2>1. in'[c] = <<>> /\ out'[c] = <<>>
    BY <1>2, <1>6
  <2>2. Stream(c)' = <<>>
    BY <2>1 DEF Stream
  <2>3. Serving(c)' = FALSE
    BY <1>4 DEF Serving
  <2>4. Orderly(Stream(c)', Serving(c)') /\ Plain(Stream(c)', Serving(c)')
    BY <2>2, <2>3, StreamEmpty
  <2>5. \A i \in 1 .. Len(Stream(c)') : FALSE
    BY <2>2
  <2> QED BY <1>5, <2>4, <2>5 DEF StreamOK
<1>7. CASE c \notin cut
  <2>1. Stream(c)' = Stream(c) /\ open'[c] = open[c]
    BY <1>2, <1>7 DEF Stream
  <2>2. Serving(c)' <=> Serving(c)
    BY <1>3, <1>4, <1>7
  <2>3. StreamOK(c)
    BY DEF StreamInv
  <2> QED BY <1>5, <2>1, <2>2, <2>3, StreamFrame
<1> QED BY <1>6, <1>7

\* The server takes a segment of c, or leaves the end where it is.
LEMMA TakeStream ==
  ASSUME NetTypeOK, LoopInv, StreamInv, NEW c \in Clients, AtSlot(c), in[c] # <<>>,
         SeesEnd(c) \/ TakesHeader(c) \/ Refuses(c) \/ TakesBody(c)
  PROVE  StreamOK(c)'
<1> DEFINE s == Stream(c)
           t == Stream(c)'
<1>1. /\ s \in Seq(UpSegments) /\ s # <<>> /\ s[1] = in[c][1]
      /\ Tail(in[c]) \o out[c] = Tail(s)
  <2>1. in[c] \in Seq(UpSegments) /\ out[c] \in Seq(UpSegments)
    BY StreamType
  <2> QED BY <2>1, ConcatFront DEF Stream
<1>2. /\ in'[c] = in[c] => t = s
      /\ in'[c] = Tail(in[c]) => t = Tail(s)
  BY <1>1 DEF AtSlot, Stream
<1>3. \A i \in 1 .. Len(Tail(s)) : i + 1 \in 1 .. Len(s) /\ Tail(s)[i] = s[i + 1]
  <2>1. /\ Len(s) \in Nat \ {0} /\ Len(Tail(s)) = Len(s) - 1
        /\ \A i \in 1 .. Len(s) - 1 : Tail(s)[i] = s[i + 1]
    BY <1>1, TailAt
  <2> HIDE DEF s
  <2> QED BY <2>1
<1>4. StreamOK(c) /\ UNCHANGED open
  BY DEF StreamInv, AtSlot
<1>5. down[c] \in Seq(DownMessages)
  BY DEF NetTypeOK
<1>6. s[1] \in UpSegments
  BY <1>1, TailAt
<1>a. /\ Orderly(s, Serving(c))
      /\ \A i \in 1 .. Len(s) : s[i] = "FIN" => ~open[c]
      /\ c \notin Talkers => Plain(s, Serving(c)) /\ \A i \in 1 .. Len(down[c]) : down[c][i] # "ERROR"
  BY <1>4 DEF StreamOK
<1>b. ASSUME NEW b \in BOOLEAN, Serving(c)' = b, Orderly(t, b), c \notin Talkers => Plain(t, b),
             t = s \/ t = Tail(s),
             c \notin Talkers => \A i \in 1 .. Len(down'[c]) : down'[c][i] # "ERROR"
      PROVE  StreamOK(c)'
  <2>1. \A i \in 1 .. Len(t) : t[i] = "FIN" => ~open'[c]
    BY <1>3, <1>4, <1>a, <1>b
  <2> QED BY <1>b, <2>1 DEF StreamOK
<1>c. ASSUME NEW m \in DownMessages, m # "ERROR" \/ c \in Talkers, Replies(c, m)
      PROVE  c \notin Talkers => \A i \in 1 .. Len(down'[c]) : down'[c][i] # "ERROR"
  <2> SUFFICES ASSUME c \notin Talkers PROVE \A i \in 1 .. Len(down'[c]) : down'[c][i] # "ERROR"
    OBVIOUS
  <2>1. \A i \in 1 .. Len(Append(down[c], m)) : Append(down[c], m)[i] # "ERROR"
    BY <1>5, <1>a, <1>c, NoErrorMore
  <2>2. down'[c] = down[c] \/ down'[c] = Append(down[c], m)
    BY <1>c DEF Replies, NetTypeOK
  <2> QED BY <1>a, <2>1, <2>2
<1> HIDE DEF s, t
<1>7. CASE SeesEnd(c)
  <2>1. Serving(c)' = FALSE /\ Serving(c) = FALSE /\ in'[c] = in[c] /\ UNCHANGED down
    BY <1>7 DEF SeesEnd, Serving
  <2> QED BY <1>2, <1>a, <1>b, <2>1
<1>8. CASE TakesHeader(c)
  <2>1. Serving(c)' = TRUE /\ Serving(c) = FALSE
    BY <1>8 DEF TakesHeader, Serving, AtSlot
  <2>2. in'[c] = Tail(in[c]) /\ s[1] \in Requests /\ UNCHANGED down
    BY <1>1, <1>8 DEF TakesHeader, NetTypeOK
  <2>3. t = Tail(s)
    BY <1>2, <2>2
  <2>4. Orderly(t, TRUE) /\ (c \notin Talkers => Plain(t, TRUE))
    BY <1>1, <1>a, <2>1, <2>2, <2>3, StreamTake
  <2> QED BY <1>a, <1>b, <2>1, <2>2, <2>3, <2>4
<1>9. CASE Refuses(c)
  <2>1. Serving(c)' = FALSE /\ Serving(c) = FALSE
    BY <1>9 DEF Refuses, Replies, Serving
  <2>2. in'[c] = Tail(in[c]) /\ s[1] = "ERROR" /\ Replies(c, "ERROR")
    BY <1>1, <1>9 DEF Refuses, NetTypeOK
  <2>3. c \in Talkers
    <3> SUFFICES ASSUME c \notin Talkers PROVE FALSE
      OBVIOUS
    <3>1. Plain(s, FALSE)
      BY <1>a, <2>1
    <3>2. 1 \in 1 .. Len(s)
      BY <1>1
    <3> QED BY <2>2, <3>1, <3>2 DEF Plain, Requests
  <2>4. t = Tail(s)
    BY <1>2, <2>2
  <2>5. Orderly(t, FALSE)
    BY <1>1, <1>a, <2>1, <2>4, StreamTake
  <2> QED BY <1>b, <2>1, <2>3, <2>4, <2>5
<1>10. CASE TakesBody(c)
  <2>1. Serving(c)' = FALSE /\ Serving(c) = TRUE
    BY <1>10 DEF TakesBody, Replies, Serving, AtSlot
  <2>2. Replies(c, ResultOf(cur)) /\ ResultOf(cur) \in DownMessages /\ ResultOf(cur) # "ERROR"
    BY <1>10 DEF TakesBody, ResultOf, DownMessages, Results
  <2>3. c \notin Talkers => \A i \in 1 .. Len(down'[c]) : down'[c][i] # "ERROR"
    BY <1>c, <2>2
  <2>4. Orderly(s, TRUE) /\ (c \notin Talkers => Plain(s, TRUE))
    BY <1>a, <2>1
  <2>5. CASE s[1] = "FIN"
    <3>1. t = s
      BY <1>1, <1>2, <1>10, <2>5 DEF TakesBody
    <3>2. Orderly(t, FALSE) /\ (c \notin Talkers => Plain(t, FALSE))
      BY <2>4, <2>5, <3>1, StreamAtEnd
    <3> QED BY <1>b, <2>1, <2>3, <3>1, <3>2
  <2>6. CASE s[1] # "FIN"
    <3>1. t = Tail(s)
      BY <1>1, <1>2, <1>10, <2>6 DEF TakesBody, NetTypeOK
    <3>2. s[1] = "BODY"
      BY <2>4, <2>6 DEF Orderly
    <3>3. Orderly(t, FALSE) /\ (c \notin Talkers => Plain(t, FALSE))
      BY <1>1, <2>4, <3>1, <3>2, StreamTake
    <3> QED BY <1>b, <2>1, <2>3, <3>1, <3>3
  <2> QED BY <2>5, <2>6
<1> QED BY <1>7, <1>8, <1>9, <1>10

LEMMA ServerStream ==
  ASSUME NetTypeOK, SrvTypeOK, CountersOK, RegistryInv, LoopInv, StreamInv, Server
  PROVE  StreamInv'
<1>0. SrvNext
  BY DEF Server
<1>1. \A d \in Clients \ Talkers : \A i \in 1 .. Len(down[d]) : down[d][i] # "ERROR"
  BY DEF StreamInv, StreamOK
<1>2. ASSUME NEW d \in Clients, in'[d] = in[d], out'[d] = out[d], open'[d] = open[d],
             Serving(d)' <=> Serving(d),
             d \notin Talkers => \A i \in 1 .. Len(down'[d]) : down'[d][i] # "ERROR"
      PROVE  StreamOK(d)'
  <2>1. StreamOK(d) /\ Stream(d)' = Stream(d)
    BY <1>2 DEF StreamInv, Stream
  <2> QED BY <1>2, <2>1, StreamFrame
<1>3. CASE Ends
  BY <1>3, EndsStream
<1>4. ASSUME NEW k \in 0 .. MaxFd, Accepts(k) PROVE StreamInv'
  <2>1. \A d \in Clients : ~Serving(d)' /\ ~Serving(d)
    BY <1>4 DEF Accepts, Serving
  <2>2. UNCHANGED <<in, out, open, down>>
    BY <1>4 DEF Accepts
  <2> QED BY <1>1, <1>2, <2>1, <2>2 DEF StreamInv
<1>5. CASE JoinSend /\ ~Killed
  <2>1. PICK c \in Clients : AtSlot(c) /\ Tells(c)
    BY <1>5, JoinSteps
  <2>2. \A d \in Clients : ~Serving(d)' /\ ~Serving(d)
    BY <2>1 DEF Tells, Serving
  <2>3. UNCHANGED <<in, out, open>>
    BY <2>1 DEF Tells, AtSlot
  <2>4. ASSUME NEW d \in Clients \ Talkers
        PROVE  \A i \in 1 .. Len(down'[d]) : down'[d][i] # "ERROR"
    <3>1. down'[d] = down[d] \/ down'[d] = Append(down[d], "NEW_USER_JOIN")
      BY <2>1 DEF Tells, NetTypeOK
    <3>2. down[d] \in Seq(DownMessages) /\ "NEW_USER_JOIN" \in DownMessages
      BY DEF NetTypeOK, DownMessages
    <3>3. \A i \in 1 .. Len(Append(down[d], "NEW_USER_JOIN")) :
            Append(down[d], "NEW_USER_JOIN")[i] # "ERROR"
      BY <1>1, <3>2, NoErrorMore
    <3> QED BY <1>1, <3>1, <3>3
  <2> QED BY <1>2, <2>2, <2>3, <2>4 DEF StreamInv
<1>6. CASE (ReadHeader \/ ReadBody) /\ ~Killed
  <2>1. PICK c \in Clients : /\ AtSlot(c) /\ in[c] # <<>>
                             /\ SeesEnd(c) \/ TakesHeader(c) \/ Refuses(c) \/ TakesBody(c)
    BY <1>6, ReadSteps
  <2>2. StreamOK(c)'
    BY <2>1, TakeStream
  <2>3. \A d \in Clients \ {c} : in'[d] = in[d] /\ down'[d] = down[d]
    BY <2>1 DEF SeesEnd, TakesHeader, Refuses, TakesBody, Replies, NetTypeOK
  <2>4. UNCHANGED <<out, open>>
    BY <2>1 DEF AtSlot
  <2>5. \A d \in Clients \ {c} : ~Serving(d)' /\ ~Serving(d)
    <3>1. UNCHANGED <<fd, clients>> /\ c = fd[clients.buf[n]]
      BY <2>1 DEF AtSlot
    <3>2. pc' = "body" => n' = n
      BY <2>1 DEF SeesEnd, TakesHeader, Refuses, TakesBody, Replies
    <3> QED BY <3>1, <3>2 DEF Serving
  <2>6. ASSUME NEW d \in Clients \ {c} PROVE StreamOK(d)'
    BY <1>1, <1>2, <2>3, <2>4, <2>5
  <2> QED BY <2>2, <2>6 DEF StreamInv
<1>7. CASE /\ Within
           /\ (LoopTop \/ Select \/ JoinInsert \/ FilterSkip \/ FilterDone
               \/ CompactStep \/ CompactDone \/ TypeE) \/ (Accept /\ GoFilter)
  <2>1. \A d \in Clients : Serving(d)' <=> Serving(d)
    <3>1. CASE TypeE
      BY <1>7, <3>1 DEF Serving, TypeE, netVars
    <3>2. CASE ~TypeE
      <4>1. pc # "body" /\ pc' # "body"
        BY <1>7, <3>2 DEF LoopTop, Select, GoFilter, JoinInsert, FilterSkip, FilterDone,
                          CompactStep, CompactDone, Accept
      <4> QED BY <4>1 DEF Serving
    <3> QED BY <3>1, <3>2
  <2>2. UNCHANGED <<in, out, open, down>>
    BY <1>7 DEF Within, netVars
  <2> QED BY <1>1, <1>2, <2>1, <2>2 DEF StreamInv
<1> QED BY <1>0, <1>3, <1>4, <1>5, <1>6, <1>7, ServerSteps

-----------------------------------------------------------------------------
(* Requests and answers. *)

LEMMA AnsweredAppend ==
  ASSUME NEW s \in Seq(DownMessages), NEW m \in DownMessages
  PROVE  Answered(Append(s, m))
           = IF m \in Results THEN Answered(s) \o <<AsRequest(m)>> ELSE Answered(s)
<1>1. <<m>> \in Seq(DownMessages) /\ Append(s, m) = s \o <<m>>
  BY AppendIsConcat
<1>2. Answered(s \o <<m>>) = Answered(s) \o Answered(<<m>>)
  BY <1>1, AnsweredConcat
<1>3. Answered(<<m>>) = IF m \in Results THEN <<AsRequest(m)>> ELSE <<>>
  BY AnsweredSingle
<1>4. Answered(s) \in Seq(Requests)
  BY AnsweredAt
<1>5. Answered(s) \o <<>> = Answered(s)
  BY <1>4, ConcatEmptySeq
<1> QED BY <1>1, <1>2, <1>3, <1>5

LEMMA AnsweredFront ==
  ASSUME NEW s \in Seq(DownMessages), s # <<>>
  PROVE  Answered(s) = IF Head(s) \in Results THEN <<AsRequest(Head(s))>> \o Answered(Tail(s))
                       ELSE Answered(Tail(s))
<1>1. Head(s) \in DownMessages /\ Tail(s) \in Seq(DownMessages) /\ <<Head(s)>> \in Seq(DownMessages)
      /\ <<Head(s)>> \o Tail(s) = s
  BY HeadTailProperties
<1>2. Answered(<<Head(s)>> \o Tail(s)) = Answered(<<Head(s)>>) \o Answered(Tail(s))
  BY <1>1, AnsweredConcat
<1>3. Answered(<<Head(s)>>) = IF Head(s) \in Results THEN <<AsRequest(Head(s))>> ELSE <<>>
  BY AnsweredSingle
<1>4. Answered(Tail(s)) \in Seq(Requests)
  BY <1>1, AnsweredAt
<1>5. <<>> \o Answered(Tail(s)) = Answered(Tail(s))
  BY <1>4, ConcatEmptySeq
<1> QED BY <1>1, <1>2, <1>3, <1>5

\* The four places a request can be in, of which the last holds s.
InAll(a, b, c, s) == a \o b \o c \o s

LEMMA InAllType ==
  ASSUME NEW R, NEW a \in Seq(R), NEW b \in Seq(R), NEW c \in Seq(R), NEW s \in Seq(R)
  PROVE  InAll(a, b, c, s) \in Seq(R)
<1>1. a \o b \in Seq(R)
  BY ConcatProperties
<1> DEFINE ab == a \o b
<1>2. ab \in Seq(R)
  BY <1>1
<1> HIDE DEF ab
<1>3. ab \o c \in Seq(R)
  BY <1>2, ConcatProperties
<1> DEFINE abc == ab \o c
<1>4. abc \in Seq(R)
  BY <1>3
<1> HIDE DEF abc
<1>5. abc \o s \in Seq(R)
  BY <1>4, ConcatProperties
<1> QED BY <1>5 DEF abc, ab, InAll

\* Concatenation associates: ConcatAssociative, for any three at once.
LEMMA Regrouped ==
  ASSUME NEW S
  PROVE  \A s, t, u \in Seq(S) : (s \o t) \o u = s \o (t \o u)
  BY ConcatAssociative, SMTT(40)

\* A request moves from one place to the next.
LEMMA InAllMoves ==
  ASSUME NEW R, NEW a \in Seq(R), NEW b \in Seq(R), NEW s \in Seq(R), NEW x \in R
  PROVE  /\ InAll(a, b, <<>>, <<x>> \o s) = InAll(a, b, <<x>>, s)
         /\ InAll(a, b \o <<x>>, <<>>, s) = InAll(a, b, <<x>>, s)
         /\ \A c \in Seq(R) : InAll(a \o <<x>>, b, c, s) = InAll(a, <<x>> \o b, c, s)
<1> DEFINE ab == a \o b
           e  == <<x>>
<1>1. ab \in Seq(R) /\ e \in Seq(R)
  BY ConcatProperties
<1>2. ab \o <<>> = ab
  BY <1>1, ConcatEmptySeq
<1>3. (ab \o e) \o s = ab \o (e \o s)
  <2> HIDE DEF ab, e
  <2> QED BY ONLY <1>1, a \in Seq(R), b \in Seq(R), s \in Seq(R), Regrouped, SMTT(30)
<1>4. (a \o b) \o e = a \o (b \o e)
  <2> HIDE DEF e
  <2> QED BY ONLY <1>1, a \in Seq(R), b \in Seq(R), s \in Seq(R), Regrouped, SMTT(30)
<1>5. a \o (b \o e) \in Seq(R)
  <2> HIDE DEF e
  <2>1. b \o e \in Seq(R)
    BY <1>1, ConcatProperties
  <2> DEFINE be == b \o e
  <2>2. be \in Seq(R)
    BY <2>1
  <2> HIDE DEF be
  <2>3. a \o be \in Seq(R)
    BY <2>2, ConcatProperties
  <2> QED BY <2>3 DEF be
<1>6. (a \o (b \o e)) \o <<>> = a \o (b \o e)
  BY <1>5, ConcatEmptySeq
<1>7. (a \o e) \o b = a \o (e \o b)
  <2> HIDE DEF e
  <2> QED BY <1>1, ConcatAssociative
<1> HIDE DEF e
<1>9. InAll(a, b, <<>>, e \o s) = InAll(a, b, e, s)
  BY <1>2, <1>3 DEF InAll, ab
<1>10. InAll(a, b \o e, <<>>, s) = InAll(a, b, e, s)
  BY <1>4, <1>6 DEF InAll
<1>11. \A c \in Seq(R) : InAll(a \o e, b, c, s) = InAll(a, e \o b, c, s)
  BY <1>7 DEF InAll
<1> QED BY <1>9, <1>10, <1>11 DEF e

LEMMA AskedTypes ==
  ASSUME NetTypeOK, CliTypeOK, LoopInv, NEW c \in Clients
  PROVE  /\ Answered(got[c]) \in Seq(Requests) /\ Answered(down[c]) \in Seq(Requests)
         /\ InService(c) \in Seq(Requests) /\ Only(Stream(c), Requests) \in Seq(Requests)
         /\ got[c] \in Seq(Results) /\ down[c] \in Seq(DownMessages)
         /\ Stream(c) \in Seq(UpSegments)
         /\ Asked(c) = InAll(Answered(got[c]), Answered(down[c]), InService(c),
                             Only(Stream(c), Requests))
<1>1. got[c] \in Seq(Results) /\ down[c] \in Seq(DownMessages) /\ Stream(c) \in Seq(UpSegments)
  BY StreamType DEF NetTypeOK, CliTypeOK
<1>2. Answered(got[c]) \in Seq(Requests) /\ Answered(down[c]) \in Seq(Requests)
  BY <1>1, AnsweredAt
<1>3. Only(Stream(c), Requests) \in Seq(Requests)
  BY <1>1, OnlyType
<1>4. InService(c) \in Seq(Requests)
  <2>1. CASE pc = "body" /\ fd[clients.buf[n]] = c
    <3>1. InService(c) = <<cur>> /\ cur \in Requests
      BY <2>1 DEF InService, LoopInv
    <3> QED BY <3>1
  <2>2. CASE ~(pc = "body" /\ fd[clients.buf[n]] = c)
    <3>1. InService(c) = <<>>
      BY <2>2 DEF InService
    <3> QED BY <3>1
  <2> QED BY <2>1, <2>2
<1>5. Asked(c) = InAll(Answered(got[c]), Answered(down[c]), InService(c), Only(Stream(c), Requests))
  BY DEF Asked, InAll
<1> QED BY <1>1, <1>2, <1>3, <1>4, <1>5

\* A client nobody deals with.
LEMMA AskedFrame ==
  ASSUME NEW c \in Clients, AskedOK(c), Up' => Up, open'[c] => open[c],
         Established(c)' => Established(c), sent'[c] = sent[c], got'[c] = got[c],
         Answered(down'[c]) = Answered(down[c]), Stream(c)' = Stream(c),
         InService(c)' = InService(c)
  PROVE  AskedOK(c)'
<1>1. Asked(c)' = Asked(c)
  BY DEF Asked
<1> QED BY <1>1 DEF AskedOK

LEMMA ServiceSame ==
  ASSUME UNCHANGED <<pc, n, clients, fd, cur>>
  PROVE  Up' = Up /\ \A c : InService(c)' = InService(c)
  BY DEF Up, InService

\* The request c sends is the newest it asked.
LEMMA SendAsked ==
  ASSUME NetTypeOK, CliTypeOK, LoopInv, UNCHANGED <<pc, n, clients, fd, cur>>, NEW c \in Clients,
         NEW cmd \in Requests \cup {"ERROR"}, ClientSend(c, cmd), Established(c)
  PROVE  Only(Stream(c)', Requests)
           = IF cmd \in Requests THEN Only(Stream(c), Requests) \o <<cmd>> ELSE Only(Stream(c), Requests)
<1>1. Stream(c)' = Stream(c) \o Segments(cmd)
  BY StreamSent
<1>2. Stream(c) \in Seq(UpSegments) /\ Segments(cmd) \in Seq(UpSegments)
  BY StreamType, SegmentsType
<1>3. Only(Stream(c) \o Segments(cmd), Requests)
        = Only(Stream(c), Requests) \o Only(Segments(cmd), Requests)
  BY <1>2, OnlyConcat
<1>4. Only(Segments(cmd), Requests) = IF cmd \in Requests THEN <<cmd>> ELSE <<>>
  <2>1. Only(<<cmd>>, Requests) = IF cmd \in Requests THEN <<cmd>> ELSE <<>>
    BY OnlySingle
  <2>2. CASE cmd = "ERROR"
    BY <2>1, <2>2 DEF Segments, HasBody
  <2>3. CASE cmd # "ERROR"
    <3>1. Segments(cmd) = Append(<<cmd>>, "BODY")
      BY <2>3 DEF Segments, HasBody
    <3>2. cmd \in UpSegments /\ "BODY" \in UpSegments /\ "BODY" \notin Requests
      BY DEF UpSegments, Requests
    <3>3. <<cmd>> \in Seq(UpSegments)
      BY <3>2
    <3>4. Only(Append(<<cmd>>, "BODY"), Requests) = Only(<<cmd>>, Requests)
      BY <3>2, <3>3, OnlyAppend
    <3> QED BY <2>1, <3>1, <3>4
  <2> QED BY <2>2, <2>3
<1>5. Only(Stream(c), Requests) \in Seq(Requests)
  BY <1>2, OnlyType
<1>6. Only(Stream(c), Requests) \o <<>> = Only(Stream(c), Requests)
  BY <1>5, ConcatEmptySeq
<1> QED BY <1>1, <1>3, <1>4, <1>6

\* A client that is being served is connected.
LEMMA ServedAccepted ==
  ASSUME SrvTypeOK, CountersOK, NetTypeOK, RegistryInv, LoopInv, PeerInv,
         NEW c \in Clients, link[c] # "accepted"
  PROVE  InService(c) = <<>>
<1>1. pc = "body" => link[fd[clients.buf[n]]] = "accepted"
  <2> SUFFICES ASSUME pc = "body" PROVE link[fd[clients.buf[n]]] = "accepted"
    OBVIOUS
  <2>1. n \in Nat /\ n < clients.len
    BY DEF CountersOK, LoopInv
  <2>2. clients.buf[n] \in OpenFds
    BY <2>1, ServedIsOpen
  <2> QED BY <2>2 DEF PeerInv
<1> QED BY <1>1 DEF InService

LEMMA PeersAsked ==
  ASSUME NetTypeOK, SrvTypeOK, CliTypeOK, CountersOK, RegistryInv, LoopInv, PeerInv, AskedInv, Peers
  PROVE  AskedInv'
<1>0. UNCHANGED <<pc, n, clients, fd, cur>>
  BY OthersKeepFds DEF srvVars
<1>a. Up' = Up /\ \A d : InService(d)' = InService(d)
  BY <1>0, ServiceSame
<1>1. PICK c \in Clients :
        \/ Connect(c, Up)
        \/ Quiet(c) \/ (\E cmd : Says(c, cmd)) \/ Hears(c) \/ Goes(c)
  BY PeersSteps
<1>2. \A d \in Clients : AskedOK(d)
  BY DEF AskedInv
<1>b. ASSUME NEW d \in Clients, in'[d] = in[d], out'[d] = out[d], down'[d] = down[d],
             got'[d] = got[d], sent'[d] = sent[d], open'[d] = open[d], link'[d] = link[d]
      PROVE  AskedOK(d)'
  <2>1. Stream(d)' = Stream(d) /\ (Established(d)' => Established(d))
    BY <1>b DEF Stream, Established
  <2> QED BY <1>a, <1>b, <1>2, <2>1, AskedFrame
<1>3. CASE Connect(c, Up)
  <2>1. UNCHANGED <<in, out, open, sent, got>> /\ link[c] = "idle"
    BY <1>3 DEF Connect, ConnectOk, ConnectRefused, PeerInv
  <2>2. \A d \in Clients \ {c} : down'[d] = down[d] /\ link'[d] = link[d]
    BY <1>3 DEF Connect, ConnectOk, ConnectRefused, NetTypeOK
  <2>3. ASSUME NEW d \in Clients \ {c} PROVE AskedOK(d)'
    BY <1>b, <2>1, <2>2
  <2>4. AskedOK(c)'
    <3>1. CASE ~Up
      BY <1>a, <3>1 DEF AskedOK
    <3>2. CASE Up
      <4>1. /\ UNCHANGED down /\ in[c] = <<>> /\ out[c] = <<>> /\ sent[c] = <<>>
            /\ down[c] = <<>> /\ got[c] = <<>>
        BY <1>3, <2>1, <3>2 DEF Connect, ConnectOk, PeerInv
      <4>2. InService(c)' = <<>>
        BY <1>a, <2>1, ServedAccepted
      <4>3. Stream(c)' = <<>>
        BY <2>1, <4>1 DEF Stream
      <4>4. Asked(c)' = Answered(<<>>) \o Answered(<<>>) \o <<>> \o Only(<<>>, Requests)
        BY <2>1, <4>1, <4>2, <4>3 DEF Asked
      <4>5. Asked(c)' = <<>> \o <<>> \o <<>> \o <<>>
        BY <4>4, AnsweredEmpty, OnlyEmpty
      <4>6. Asked(c)' = <<>>
        BY <4>5
      <4> QED BY <2>1, <4>1, <4>6 DEF AskedOK
    <3> QED BY <3>1, <3>2
  <2> QED BY <2>3, <2>4 DEF AskedInv
<1>4. CASE Quiet(c)
  BY <1>4, <1>b DEF Quiet, netVars, AskedInv
<1>5. ASSUME NEW cmd, Says(c, cmd) PROVE AskedInv'
  <2>1. /\ cmd \in Requests \cup {"ERROR"} /\ ClientSend(c, cmd) /\ Established(c)
        /\ UNCHANGED <<link, in, open, down, got>>
        /\ sent' = IF cmd \in Requests THEN [sent EXCEPT ![c] = Append(@, cmd)] ELSE sent
    BY <1>5 DEF Says, ClientSend
  <2>2. \A d \in Clients \ {c} : out'[d] = out[d] /\ sent'[d] = sent[d]
    BY <2>1 DEF ClientSend, NetTypeOK, CliTypeOK
  <2>3. ASSUME NEW d \in Clients \ {c} PROVE AskedOK(d)'
    BY <1>b, <2>1, <2>2
  <2>4. AskedOK(c)'
    <3> DEFINE a == Answered(got[c])
               b == Answered(down[c])
               v == InService(c)
               s == Only(Stream(c), Requests)
               t == Only(Stream(c)', Requests)
    <3>1. /\ a \in Seq(Requests) /\ b \in Seq(Requests) /\ v \in Seq(Requests) /\ s \in Seq(Requests)
          /\ Asked(c) = InAll(a, b, v, s)
      BY AskedTypes
    <3>2. Asked(c)' = InAll(a, b, v, t)
      BY <1>a, <2>1 DEF Asked, InAll
    <3>3. t = IF cmd \in Requests THEN s \o <<cmd>> ELSE s
      BY <1>0, <2>1, SendAsked
    <3>4. AskedOK(c) /\ (Established(c)' <=> Established(c))
      BY <1>2, <2>1 DEF Established
    <3> HIDE DEF a, b, v, s, t
    <3>5. CASE cmd \notin Requests
      <4>1. Asked(c)' = Asked(c) /\ sent' = sent
        BY <2>1, <3>1, <3>2, <3>3, <3>5
      <4> QED BY <1>a, <2>1, <3>4, <4>1 DEF AskedOK
    <3>6. CASE cmd \in Requests
      <4>1. t = s \o <<cmd>> /\ sent'[c] = Append(sent[c], cmd)
        BY <2>1, <3>3, <3>6 DEF CliTypeOK
      <4>2. InAll(a, b, v, s \o <<cmd>>) = Append(InAll(a, b, v, s), cmd)
        <5> DEFINE x == a \o b \o v
        <5>1. a \in Seq(Requests) /\ b \in Seq(Requests) /\ s \in Seq(Requests) /\ v \in Seq(Requests)
          BY <3>1
        <5>2. x \in Seq(Requests)
          <6>1. a \o b \in Seq(Requests)
            BY <5>1, ConcatProperties
          <6> QED BY <5>1, <6>1, ConcatProperties
        <5> HIDE DEF x
        <5>3. x \o (s \o <<cmd>>) = Append(x \o s, cmd)
          BY <3>6, <5>1, <5>2, ConcatAppend
        <5> QED BY <5>3 DEF InAll, x
      <4>3. Asked(c)' = Append(Asked(c), cmd)
        BY <3>1, <3>2, <4>1, <4>2
      <4> QED BY <1>a, <2>1, <3>4, <4>1, <4>3 DEF AskedOK
    <3> QED BY <3>5, <3>6
  <2> QED BY <2>3, <2>4 DEF AskedInv
<1>6. CASE Hears(c)
  <2>1. /\ down[c] # <<>> /\ down' = [down EXCEPT ![c] = Tail(@)] /\ UNCHANGED <<link, in, open, sent>>
        /\ got' = IF Head(down[c]) \in Results THEN [got EXCEPT ![c] = Append(@, Head(down[c]))] ELSE got
        /\ IF Head(down[c]) \in Understood THEN UNCHANGED out ELSE ClientSend(c, "ERROR")
    BY <1>6 DEF Hears, Consume, ClientSend
  <2>2. \A d \in Clients \ {c} : out'[d] = out[d] /\ down'[d] = down[d] /\ got'[d] = got[d]
    <3>1. \A d \in Clients \ {c} : out'[d] = out[d]
      BY <2>1 DEF ClientSend, NetTypeOK
    <3>2. \A d \in Clients \ {c} : down'[d] = down[d]
      BY <2>1 DEF NetTypeOK
    <3>3. \A d \in Clients \ {c} : got'[d] = got[d]
      BY <2>1 DEF CliTypeOK
    <3> QED BY <3>1, <3>2, <3>3
  <2>3. ASSUME NEW d \in Clients \ {c} PROVE AskedOK(d)'
    BY <1>b, <2>1, <2>2
  <2>4. AskedOK(c)'
    <3> DEFINE m == Head(down[c])
               g == Answered(got[c])
               b == Answered(Tail(down[c]))
               v == InService(c)
               s == Only(Stream(c), Requests)
    <3>1. /\ g \in Seq(Requests) /\ v \in Seq(Requests) /\ s \in Seq(Requests)
          /\ got[c] \in Seq(Results) /\ down[c] \in Seq(DownMessages)
          /\ Asked(c) = InAll(g, Answered(down[c]), v, s)
      BY AskedTypes
    <3>2. Tail(down[c]) \in Seq(DownMessages) /\ m \in DownMessages
      BY <2>1, <3>1, HeadTailProperties
    <3>3. b \in Seq(Requests)
      BY <3>2, AnsweredAt
    <3>4. Answered(down[c]) = IF m \in Results THEN <<AsRequest(m)>> \o b ELSE b
      BY <2>1, <3>1, AnsweredFront
    <3>5. down'[c] = Tail(down[c]) /\ (Established(c)' <=> Established(c)) /\ AskedOK(c)
      BY <1>2, <2>1 DEF NetTypeOK, Established
    <3>6. AsRequest(m) \in Requests
      BY DEF AsRequest, Requests
    <3>7. Answered(got'[c]) = IF m \in Results THEN g \o <<AsRequest(m)>> ELSE g
      <4>1. CASE m \in Results
        <5>1. got'[c] = Append(got[c], m)
          BY <2>1, <4>1 DEF CliTypeOK
        <5>2. got[c] \in Seq(DownMessages)
          <6>1. Results \subseteq DownMessages
            BY DEF DownMessages
          <6> QED BY <3>1, <6>1, SeqMonotonic
        <5> QED BY <3>2, <4>1, <5>1, <5>2, AnsweredAppend
      <4>2. CASE m \notin Results
        BY <2>1, <4>2
      <4> QED BY <4>1, <4>2
    <3>8. Established(c) => Only(Stream(c)', Requests) = s
      <4>1. CASE UNCHANGED out
        BY <2>1, <4>1 DEF Stream
      <4>2. CASE ClientSend(c, "ERROR")
        BY <1>0, <4>2, SendAsked DEF Requests
      <4> QED BY <2>1, <4>1, <4>2
    <3>9. Established(c) => Asked(c)' = InAll(Answered(got'[c]), b, v, s)
      BY <1>a, <3>5, <3>8 DEF Asked, InAll
    <3> HIDE DEF m, g, b, v, s
    <3>10. InAll(g \o <<AsRequest(m)>>, b, v, s) = InAll(g, <<AsRequest(m)>> \o b, v, s)
      BY <3>1, <3>3, <3>6, InAllMoves
    <3>11. Established(c) => Asked(c)' = Asked(c)
      BY <3>1, <3>4, <3>7, <3>9, <3>10
    <3> QED BY <1>a, <2>1, <3>5, <3>11 DEF AskedOK
  <2> QED BY <2>3, <2>4 DEF AskedInv
<1>7. CASE Goes(c)
  <2>1. ~open'[c]
    BY <1>7 DEF Goes, ClientClose, NetTypeOK
  <2>2. AskedOK(c)'
    BY <2>1 DEF AskedOK
  <2>3. ASSUME NEW d \in Clients \ {c} PROVE AskedOK(d)'
    <3>1. /\ in'[d] = in[d] /\ out'[d] = out[d] /\ down'[d] = down[d] /\ open'[d] = open[d]
          /\ link'[d] = link[d] /\ sent'[d] = sent[d] /\ got'[d] = got[d]
      BY <1>7 DEF Goes, ClientClose, NetTypeOK
    <3> QED BY <1>b, <3>1
  <2> QED BY <2>2, <2>3 DEF AskedInv
<1> QED BY <1>1, <1>3, <1>4, <1>5, <1>6, <1>7

LEMMA NetworkAsked ==
  ASSUME NetTypeOK, AskedInv, Network
  PROVE  AskedInv'
<1>1. UNCHANGED <<pc, n, clients, fd, cur, sent, got, open, down, link>>
  BY NetworkSame DEF srvVars, cliVars
<1>2. ASSUME NEW d \in Clients PROVE AskedOK(d)'
  <2>1. AskedOK(d) /\ InService(d)' = InService(d) /\ Up' = Up
    BY <1>1, ServiceSame DEF AskedInv
  <2>2. Established(d)' => Established(d)
    BY <1>1 DEF Established
  <2>3. Stream(d)' = Stream(d)
    BY NetworkSame
  <2> QED BY <1>1, <2>1, <2>2, <2>3, AskedFrame
<1> QED BY <1>2 DEF AskedInv

\* The client in slot n after one call of processor.
LEMMA TakeAsked ==
  ASSUME NetTypeOK, CliTypeOK, LoopInv, StreamInv, AskedInv, UNCHANGED cliVars, Up,
         NEW c \in Clients, AtSlot(c), in[c] # <<>>,
         SeesEnd(c) \/ TakesHeader(c) \/ Refuses(c) \/ TakesBody(c)
  PROVE  AskedOK(c)'
<1> DEFINE a == Answered(got[c])
           b == Answered(down[c])
           s == Stream(c)
           t == Only(Tail(Stream(c)), Requests)
           h == Head(Stream(c))
<1>1. AskedOK(c) /\ UNCHANGED <<got, sent, open, link, out, clients, fd>>
      /\ (Established(c)' <=> Established(c))
  BY DEF AskedInv, AtSlot, cliVars, Established
<1>2. in[c] \in Seq(UpSegments) /\ out[c] \in Seq(UpSegments) /\ s \in Seq(UpSegments)
  BY StreamType
<1>3. s # <<>> /\ s[1] = in[c][1] /\ Tail(in[c]) \o out[c] = Tail(s)
  BY <1>2, ConcatFront DEF Stream
<1>4. h = in[c][1]
  BY <1>2, <1>3
<1>5. Tail(s) \in Seq(UpSegments)
  BY <1>2, <1>3, HeadTailProperties
<1>6. a \in Seq(Requests) /\ b \in Seq(Requests) /\ t \in Seq(Requests)
      /\ down[c] \in Seq(DownMessages)
  BY <1>5, AskedTypes, OnlyType
<1>7. Only(s, Requests) = IF h \in Requests THEN <<h>> \o t ELSE t
  BY <1>2, <1>3, OnlyFront
<1>8. in'[c] = in[c] => Stream(c)' = s
  BY <1>1 DEF Stream
<1>9. in'[c] = Tail(in[c]) => Stream(c)' = Tail(s)
  BY <1>1, <1>3 DEF Stream
<1>10. Asked(c) = InAll(a, b, InService(c), Only(s, Requests))
  BY DEF Asked, InAll
<1>11. Asked(c)' = InAll(a, Answered(down'[c]), InService(c)', Only(Stream(c)', Requests))
  BY <1>1 DEF Asked, InAll
<1>a. ASSUME open[c] => Asked(c)' = Asked(c) PROVE AskedOK(c)'
  BY <1>1, <1>a DEF AskedOK
<1>b. c = fd[clients.buf[n]]
  BY DEF AtSlot
<1> HIDE DEF a, b, t, h
<1>12. CASE SeesEnd(c)
  <2>1. InService(c) = <<>> /\ InService(c)' = <<>> /\ in'[c] = in[c] /\ UNCHANGED down
    BY <1>12 DEF SeesEnd, InService
  <2>2. Answered(down'[c]) = b /\ Stream(c)' = s
    BY <1>8, <2>1 DEF b
  <2>3. Asked(c)' = Asked(c)
    BY <1>10, <1>11, <2>1, <2>2
  <2> QED BY <1>a, <2>3
<1>13. CASE TakesHeader(c)
  <2>1. InService(c) = <<>> /\ h \in Requests
    BY <1>4, <1>13 DEF TakesHeader, InService
  <2>2. InService(c)' = <<h>>
    BY <1>1, <1>4, <1>b, <1>13 DEF TakesHeader, InService
  <2>3. in'[c] = Tail(in[c]) /\ Answered(down'[c]) = b
    BY <1>13 DEF TakesHeader, NetTypeOK, b
  <2>4. Only(Stream(c)', Requests) = t
    BY <1>9, <2>3 DEF t
  <2>5. InAll(a, b, <<>>, <<h>> \o t) = InAll(a, b, <<h>>, t)
    BY <1>6, <2>1, InAllMoves
  <2>6. Asked(c)' = Asked(c)
    BY <1>7, <1>10, <1>11, <2>1, <2>2, <2>3, <2>4, <2>5
  <2> QED BY <1>a, <2>6
<1>14. CASE Refuses(c)
  <2>1. InService(c) = <<>> /\ InService(c)' = <<>> /\ h \notin Requests
    BY <1>4, <1>14 DEF Refuses, Replies, InService, Requests
  <2>2. in'[c] = Tail(in[c])
    BY <1>14 DEF Refuses, NetTypeOK
  <2>3. Only(Stream(c)', Requests) = t
    BY <1>9, <2>2 DEF t
  <2>4. down'[c] = down[c] \/ down'[c] = Append(down[c], "ERROR")
    BY <1>14 DEF Refuses, Replies, NetTypeOK
  <2>5. "ERROR" \in DownMessages /\ "ERROR" \notin Results
    BY DEF DownMessages, Results
  <2>6. Answered(Append(down[c], "ERROR")) = b
    BY <1>6, <2>5, AnsweredAppend DEF b
  <2>7. Answered(down'[c]) = b
    BY <2>4, <2>6 DEF b
  <2>8. Asked(c)' = Asked(c)
    BY <1>7, <1>10, <1>11, <2>1, <2>3, <2>7
  <2> QED BY <1>a, <2>8
<1>15. CASE TakesBody(c)
  <2>1. pc = "body" /\ cur \in Requests /\ pc' = "filter"
    BY <1>15 DEF TakesBody, Replies, LoopInv
  <2>2. InService(c) = <<cur>> /\ InService(c)' = <<>>
    BY <1>b, <2>1 DEF InService
  <2>3. h \in {"BODY", "FIN"}
    <3>1. Orderly(s, TRUE)
      BY <1>b, <2>1 DEF StreamInv, StreamOK, Serving
    <3> QED BY <1>3, <1>4, <3>1 DEF Orderly
  <2>4. Only(Stream(c)', Requests) = Only(s, Requests)
    <3>1. h \notin Requests
      BY <2>3 DEF Requests
    <3>2. CASE in[c][1] = "FIN"
      BY <1>8, <1>15, <3>2 DEF TakesBody
    <3>3. CASE in[c][1] # "FIN"
      <4>1. in'[c] = Tail(in[c])
        BY <1>15, <3>3 DEF TakesBody, NetTypeOK
      <4> QED BY <1>7, <1>9, <3>1, <4>1 DEF t
    <3> QED BY <3>2, <3>3
  <2>5. ASSUME open[c] PROVE Asked(c)' = Asked(c)
    <3>1. down'[c] = Append(down[c], ResultOf(cur))
      BY <1>15, <2>5 DEF TakesBody, Replies, NetTypeOK
    <3>2. ResultOf(cur) \in Results /\ ResultOf(cur) \in DownMessages
          /\ AsRequest(ResultOf(cur)) = cur
      BY <2>1 DEF ResultOf, Results, DownMessages, AsRequest, Requests
    <3>3. Answered(down'[c]) = b \o <<cur>>
      BY <1>6, <3>1, <3>2, AnsweredAppend DEF b
    <3> DEFINE u == Only(s, Requests)
    <3>4. u \in Seq(Requests)
      BY <1>2, OnlyType
    <3> HIDE DEF u, s
    <3>5. InAll(a, b \o <<cur>>, <<>>, u) = InAll(a, b, <<cur>>, u)
      BY <1>6, <2>1, <3>4, InAllMoves
    <3> QED BY <1>10, <1>11, <2>2, <2>4, <3>3, <3>5 DEF u
  <2> QED BY <1>a, <2>5
<1> QED BY <1>12, <1>13, <1>14, <1>15

LEMMA ServerAsked ==
  ASSUME NetTypeOK, CliTypeOK, SrvTypeOK, CountersOK, RegistryInv, LoopInv, PeerInv, StreamInv,
         AskedInv, Server
  PROVE  AskedInv'
<1>0. SrvNext /\ UNCHANGED cliVars
  BY DEF Server
<1>1. CASE Ends
  BY <1>1 DEF Ends, AskedInv, AskedOK
<1>2. ASSUME NEW d \in Clients, in'[d] = in[d], out'[d] = out[d], open'[d] = open[d],
             Established(d)' => Established(d), Answered(down'[d]) = Answered(down[d]),
             InService(d)' = InService(d), Up
      PROVE  AskedOK(d)'
  <2>1. AskedOK(d) /\ Stream(d)' = Stream(d) /\ UNCHANGED <<sent, got>>
    BY <1>0, <1>2 DEF AskedInv, Stream, cliVars
  <2> QED BY <1>2, <2>1, AskedFrame
<1>3. ASSUME NEW k \in 0 .. MaxFd, Accepts(k) PROVE AskedInv'
  <2>1. \A d \in Clients : InService(d)' = <<>> /\ InService(d) = <<>>
    BY <1>3 DEF Accepts, InService
  <2>2. UNCHANGED <<in, out, open, down>> /\ Up
    BY <1>3 DEF Accepts, Up, Running
  <2>3. \A d \in Clients : Established(d)' => Established(d)
    <3>1. link[Head(backlog)] = "queued"
      <4>1. Head(backlog) = backlog[1] /\ 1 \in 1 .. Len(backlog)
        BY <1>3 DEF Accepts, NetTypeOK
      <4> QED BY <4>1 DEF PeerInv
    <3> QED BY <1>3, <3>1 DEF Accepts, Established, NetTypeOK
  <2> QED BY <1>2, <2>1, <2>2, <2>3 DEF AskedInv
<1>4. CASE JoinSend /\ ~Killed
  <2>1. PICK c \in Clients : AtSlot(c) /\ Tells(c)
    BY <1>4, JoinSteps
  <2>2. \A d \in Clients : InService(d)' = <<>> /\ InService(d) = <<>>
    BY <2>1 DEF Tells, InService
  <2>3. UNCHANGED <<in, out, open, link>> /\ Up
    BY <2>1 DEF Tells, AtSlot, Up, Running
  <2>4. ASSUME NEW d \in Clients PROVE Answered(down'[d]) = Answered(down[d])
    <3>1. down'[d] = down[d] \/ down'[d] = Append(down[d], "NEW_USER_JOIN")
      BY <2>1 DEF Tells, NetTypeOK
    <3>2. down[d] \in Seq(DownMessages) /\ "NEW_USER_JOIN" \in DownMessages
          /\ "NEW_USER_JOIN" \notin Results
      BY DEF NetTypeOK, DownMessages, Results
    <3>3. Answered(Append(down[d], "NEW_USER_JOIN")) = Answered(down[d])
      BY <3>2, AnsweredAppend
    <3> QED BY <3>1, <3>3
  <2> QED BY <1>2, <2>2, <2>3, <2>4 DEF AskedInv, Established
<1>5. CASE (ReadHeader \/ ReadBody) /\ ~Killed
  <2>1. PICK c \in Clients : /\ AtSlot(c) /\ in[c] # <<>>
                             /\ SeesEnd(c) \/ TakesHeader(c) \/ Refuses(c) \/ TakesBody(c)
    BY <1>5, ReadSteps
  <2>2. Up
    BY <2>1 DEF SeesEnd, TakesHeader, Refuses, TakesBody, Up, Running
  <2>3. AskedOK(c)'
    BY <1>0, <2>1, <2>2, TakeAsked
  <2>4. \A d \in Clients \ {c} : in'[d] = in[d] /\ down'[d] = down[d]
    BY <2>1 DEF SeesEnd, TakesHeader, Refuses, TakesBody, Replies, NetTypeOK
  <2>5. UNCHANGED <<out, open, link, fd, clients>> /\ c = fd[clients.buf[n]]
    BY <2>1 DEF AtSlot
  <2>6. \A d \in Clients \ {c} : InService(d)' = <<>> /\ InService(d) = <<>>
    <3>1. pc' = "body" => n' = n
      BY <2>1 DEF SeesEnd, TakesHeader, Refuses, TakesBody, Replies
    <3> QED BY <2>5, <3>1 DEF InService
  <2>7. ASSUME NEW d \in Clients \ {c} PROVE AskedOK(d)'
    BY <1>2, <2>2, <2>4, <2>5, <2>6 DEF Established
  <2> QED BY <2>3, <2>7 DEF AskedInv
<1>6. CASE /\ Within
           /\ (LoopTop \/ Select \/ JoinInsert \/ FilterSkip \/ FilterDone
               \/ CompactStep \/ CompactDone \/ TypeE) \/ (Accept /\ GoFilter)
  <2>1. \A d \in Clients : InService(d)' = InService(d)
    <3>1. CASE TypeE
      BY <1>6, <3>1 DEF InService, TypeE, netVars
    <3>2. CASE ~TypeE
      <4>1. pc # "body" /\ pc' # "body"
        BY <1>6, <3>2 DEF LoopTop, Select, GoFilter, JoinInsert, FilterSkip, FilterDone,
                          CompactStep, CompactDone, Accept
      <4> QED BY <4>1 DEF InService
    <3> QED BY <3>1, <3>2
  <2>2. UNCHANGED <<in, out, open, down, link>> /\ Up
    BY <1>6 DEF Within, netVars
  <2> QED BY <1>2, <2>1, <2>2 DEF AskedInv, Established
<1> QED BY <1>0, <1>1, <1>3, <1>4, <1>5, <1>6, ServerSteps

-----------------------------------------------------------------------------
(* The slots of g_clients. *)

\* The new client goes in behind the others.
LEMMA InsertShape ==
  ASSUME SrvTypeOK, CountersOK, JoinInsert
  PROVE  /\ clients.len \in Nat /\ clients'.len = clients.len + 1
         /\ clients'.buf[clients.len] = cSock
         /\ \A i \in 0 .. clients.len - 1 : clients'.buf[i] = clients.buf[i]
         /\ Listed = 0 .. clients.len - 1 /\ Listed' = 0 .. clients.len
<1>0. pc = "join" /\ pc' = "filter" /\ cSock \in Fds
  BY DEF JoinInsert, GoFilter, CountersOK
<1>1. L!IsDynArr(clients) /\ clients.len \in Nat /\ clients' = L!Insert(clients, clients.len, cSock)
  BY SameOps DEF JoinInsert, SrvTypeOK, D!IsDynArr
<1>2. /\ clients'.len = clients.len + 1 /\ clients'.buf[clients.len] = cSock
      /\ \A i \in 0 .. clients.len - 1 : clients'.buf[i] = clients.buf[i]
  BY <1>0, <1>1, L!InsertOK
<1>3. Listed = 0 .. clients.len - 1 /\ Listed' = 0 .. clients.len
  BY <1>0, <1>1, <1>2 DEF Listed
<1> QED BY <1>1, <1>2, <1>3

\* A step of the compaction keeps every slot that counts, but for the one it
\* hits; the slot it reads moves down by the number of hits.
LEMMA CompactShape ==
  ASSUME SrvTypeOK, CountersOK, CompactStep
  PROVE  /\ n \in Nat /\ cnt \in Nat /\ n \in Listed /\ n < clients.len /\ clients'.len = clients.len
         /\ \A i \in Listed' : IF i = n - cnt THEN clients'.buf[i] = clients.buf[n]
                               ELSE i \in Listed /\ clients'.buf[i] = clients.buf[i]
         /\ \A i \in n .. clients.len - 1 : clients'.buf[i] = clients.buf[i]
         /\ \A i \in Listed : i # n => i \in Listed' /\ clients'.buf[i] = clients.buf[i]
         /\ cnt' = cnt => n - cnt \in Listed' /\ clients'.buf[n - cnt] = clients.buf[n]
<1>0. /\ pc = "compact" /\ pc' = "compact" /\ n' = n + 1
      /\ (cnt' = cnt \/ cnt' = cnt + 1)
  BY DEF CompactStep
<1>1. /\ n \in Nat /\ cnt \in Nat /\ cnt <= n /\ n < clients.len
      /\ clients.len \in Nat /\ clients.cap \in Nat /\ clients.len <= clients.cap
      /\ DOMAIN clients.buf = 0 .. clients.cap - 1
  BY DEF CompactStep, CountersOK, SrvTypeOK, D!IsDynArr
<1>2. clients' = [buf |-> [clients.buf EXCEPT ![n - cnt] = clients.buf[n]],
                  len |-> clients.len, cap |-> clients.cap]
  BY DEF CompactStep, SrvTypeOK, D!IsDynArr
<1>3. /\ clients'.len = clients.len
      /\ clients'.buf[n - cnt] = clients.buf[n]
      /\ \A i \in 0 .. clients.len - 1 : i # n - cnt => clients'.buf[i] = clients.buf[i]
  BY <1>1, <1>2
<1>4. Listed = {i \in 0 .. clients.len - 1 : i < n - cnt \/ n <= i}
  BY <1>0 DEF Listed
<1>5. Listed' = {i \in 0 .. clients.len - 1 : i < (n + 1) - cnt' \/ n + 1 <= i}
  BY <1>0, <1>3 DEF Listed
<1>6. \A i \in Listed' : i \in 0 .. clients.len - 1 /\ (i < n - cnt \/ n + 1 <= i \/ i = n - cnt)
  BY <1>0, <1>1, <1>5
<1>7. n \in Listed
  BY <1>1, <1>4
<1>8. \A i \in Listed' : IF i = n - cnt THEN clients'.buf[i] = clients.buf[n]
                         ELSE i \in Listed /\ clients'.buf[i] = clients.buf[i]
  BY <1>1, <1>3, <1>4, <1>6
<1>9. \A i \in n .. clients.len - 1 : clients'.buf[i] = clients.buf[i]
  <2> SUFFICES ASSUME NEW i \in n .. clients.len - 1 PROVE clients'.buf[i] = clients.buf[i]
    OBVIOUS
  <2>1. CASE i = n - cnt
    BY <1>1, <1>3, <2>1
  <2>2. CASE i # n - cnt
    BY <1>1, <1>3, <2>2
  <2> QED BY <2>1, <2>2
<1>10. ASSUME NEW i \in Listed, i # n PROVE i \in Listed' /\ clients'.buf[i] = clients.buf[i]
  <2>1. i \in 0 .. clients.len - 1 /\ (i < n - cnt \/ n + 1 <= i)
    BY <1>1, <1>4, <1>10
  <2> QED BY <1>0, <1>1, <1>3, <1>5, <2>1
<1>11. cnt' = cnt => n - cnt \in Listed' /\ clients'.buf[n - cnt] = clients.buf[n]
  BY <1>1, <1>3, <1>5
<1> QED BY <1>1, <1>3, <1>7, <1>8, <1>9, <1>10, <1>11

\* The end of the compaction: the slots that count are the ones left.
LEMMA CompactedShape ==
  ASSUME SrvTypeOK, CountersOK, CompactDone
  PROVE  Listed' = Listed /\ clients'.buf = clients.buf
<1>0. pc = "compact" /\ pc' = "top"
  BY DEF CompactDone
<1>1. /\ n = clients.len /\ cnt \in Nat /\ cnt <= n /\ clients.len \in Nat
      /\ Kept \in 0 .. clients.len
  BY DEF CompactDone, Kept, CountersOK, SrvTypeOK, D!IsDynArr
<1>2. clients' = L!Resize(clients, Kept) /\ L!IsDynArr(clients)
  BY SameOps DEF CompactDone, SrvTypeOK
<1>3. clients' = [buf |-> clients.buf, len |-> Kept, cap |-> clients.cap]
  BY <1>1, <1>2, L!ResizeOK
<1>4. clients'.buf = clients.buf /\ clients'.len = clients.len - cnt
  BY <1>3 DEF Kept
<1>5. Listed' = Listed
  BY <1>0, <1>1, <1>4 DEF Listed
<1> QED BY <1>4, <1>5

\* The server's other steps leave the array alone.
LEMMA ListedSame ==
  ASSUME CountersOK, SrvTypeOK,
         LoopTop \/ Select \/ FilterSkip \/ FilterDone \/ TypeE \/ Accept
  PROVE  Listed' = Listed /\ UNCHANGED clients
<1>1. UNCHANGED clients
  BY DEF LoopTop, Select, FilterSkip, FilterDone, TypeE, Accept
<1>2. CASE TypeE
  BY <1>1, <1>2 DEF TypeE, Listed
<1>3. CASE FilterDone /\ pc' = "compact"
  <2>1. pc = "filter" /\ n' = 0 /\ cnt' = 0 /\ clients.len \in Nat
    BY <1>3 DEF FilterDone, CountersOK, SrvTypeOK, D!IsDynArr
  <2> QED BY <1>1, <1>3, <2>1 DEF Listed
<1>4. CASE ~TypeE /\ pc' # "compact"
  <2>1. pc # "compact"
    BY <1>4 DEF LoopTop, Select, FilterSkip, FilterDone, Accept
  <2> QED BY <1>1, <1>4, <2>1 DEF Listed
<1>5. ~TypeE /\ ~FilterDone => pc' # "compact"
  BY DEF LoopTop, Select, GoFilter, FilterSkip, Accept
<1> QED BY <1>1, <1>2, <1>3, <1>4, <1>5

-----------------------------------------------------------------------------
(* Notices. *)

LEMMA NoticesMore ==
  ASSUME NEW s \in Seq(DownMessages), NEW m \in DownMessages
  PROVE  /\ Len(Only(s, {"NEW_USER_JOIN"})) \in Nat
         /\ Len(Only(Append(s, m), {"NEW_USER_JOIN"}))
              = Len(Only(s, {"NEW_USER_JOIN"})) + (IF m = "NEW_USER_JOIN" THEN 1 ELSE 0)
<1> DEFINE o == Only(s, {"NEW_USER_JOIN"})
<1>1. o \in Seq({"NEW_USER_JOIN"})
  BY OnlyType
<1>2. Only(Append(s, m), {"NEW_USER_JOIN"}) = IF m \in {"NEW_USER_JOIN"} THEN Append(o, m) ELSE o
  BY OnlyAppend
<1> HIDE DEF o
<1>3. m = "NEW_USER_JOIN" => Len(Append(o, m)) = Len(o) + 1
  BY <1>1
<1>4. Len(o) \in Nat
  BY <1>1
<1> QED BY <1>2, <1>3, <1>4 DEF o

LEMMA NoticesLess ==
  ASSUME NEW s \in Seq(DownMessages), s # <<>>
  PROVE  /\ Len(Only(Tail(s), {"NEW_USER_JOIN"})) \in Nat
         /\ Len(Only(s, {"NEW_USER_JOIN"}))
              = Len(Only(Tail(s), {"NEW_USER_JOIN"})) + (IF Head(s) = "NEW_USER_JOIN" THEN 1 ELSE 0)
<1> DEFINE J == {"NEW_USER_JOIN"}
           o == Only(Tail(s), J)
           h == <<Head(s)>>
<1>1. Tail(s) \in Seq(DownMessages)
  BY HeadTailProperties
<1>2. o \in Seq(J)
  BY <1>1, OnlyType
<1>3. Only(s, J) = IF Head(s) \in J THEN h \o o ELSE o
  BY OnlyFront
<1> HIDE DEF o
<1>4. Len(o) \in Nat /\ (Head(s) \in J => h \in Seq(J) /\ Len(h) = 1)
  BY <1>2
<1> HIDE DEF h
<1>5. Head(s) \in J => Len(h \o o) = Len(h) + Len(o)
  BY <1>2, <1>4, ConcatProperties
<1>6. CASE Head(s) = "NEW_USER_JOIN"
  <2>1. Only(s, J) = h \o o /\ Head(s) \in J
    BY <1>3, <1>6
  <2>2. Len(h \o o) = Len(h) + Len(o) /\ Len(h) = 1
    BY <1>4, <1>5, <2>1
  <2>3. Len(Only(s, J)) = Len(o) + 1
    BY <1>4, <2>1, <2>2
  <2> QED BY <1>4, <1>6, <2>3 DEF o
<1>7. CASE Head(s) # "NEW_USER_JOIN"
  <2>1. Only(s, J) = o
    BY <1>3, <1>7
  <2>2. Len(Only(s, J)) = Len(o) + 0
    BY <1>4, <2>1
  <2> QED BY <1>4, <1>7, <2>2 DEF o
<1> QED BY <1>6, <1>7

LEMMA NoticesNat ==
  ASSUME NetTypeOK, CliTypeOK, NEW c \in Clients
  PROVE  Notices(c) \in Nat
<1>1. Len(Only(down[c], {"NEW_USER_JOIN"})) \in Nat
  BY OnlyLen DEF NetTypeOK
<1> QED BY <1>1 DEF Notices, CliTypeOK

\* A client counts a notice when it reads it and not before.
LEMMA PeersNotices ==
  ASSUME NetTypeOK, CliTypeOK, PeerInv, Up, Network \/ Peers
  PROVE  \A d \in Clients : open'[d] => open[d] /\ Notices(d)' = Notices(d)
<1>1. CASE Network
  BY <1>1, NetworkSame DEF cliVars, Notices
<1>2. CASE Peers
  <2>1. PICK c \in Clients :
          \/ Connect(c, Up)
          \/ Quiet(c) \/ (\E cmd : Says(c, cmd)) \/ Hears(c) \/ Goes(c)
    BY <1>2, PeersSteps
  <2>2. CASE Connect(c, Up)
    BY <2>2 DEF Connect, ConnectOk, Notices
  <2>3. CASE Quiet(c)
    BY <2>3 DEF Quiet, netVars, Notices
  <2>4. CASE \E cmd : Says(c, cmd)
    BY <2>4 DEF Says, ClientSend, Notices
  <2>5. CASE Goes(c)
    <3>1. ~open'[c] /\ \A d \in Clients \ {c} : open'[d] = open[d] /\ down'[d] = down[d] /\ joins'[d] = joins[d]
      BY <2>5 DEF Goes, ClientClose, NetTypeOK
    <3> QED BY <3>1 DEF Notices
  <2>6. CASE Hears(c)
    <3>1. /\ down[c] # <<>> /\ down' = [down EXCEPT ![c] = Tail(@)] /\ UNCHANGED open
          /\ joins' = IF Head(down[c]) = "NEW_USER_JOIN" THEN [joins EXCEPT ![c] = @ + 1] ELSE joins
      BY <2>6 DEF Hears, Consume, ClientSend
    <3>2. \A d \in Clients \ {c} : down'[d] = down[d] /\ joins'[d] = joins[d]
      BY <3>1 DEF NetTypeOK, CliTypeOK
    <3>3. Notices(c)' = Notices(c)
      <4>1. /\ down'[c] = Tail(down[c]) /\ joins[c] \in Nat /\ down[c] \in Seq(DownMessages)
            /\ joins'[c] = joins[c] + (IF Head(down[c]) = "NEW_USER_JOIN" THEN 1 ELSE 0)
        BY <3>1 DEF NetTypeOK, CliTypeOK
      <4>2. /\ Len(Only(Tail(down[c]), {"NEW_USER_JOIN"})) \in Nat
            /\ Len(Only(down[c], {"NEW_USER_JOIN"}))
                 = Len(Only(Tail(down[c]), {"NEW_USER_JOIN"}))
                     + (IF Head(down[c]) = "NEW_USER_JOIN" THEN 1 ELSE 0)
        BY <3>1, <4>1, NoticesLess
      <4> QED BY <4>1, <4>2 DEF Notices
    <3> QED BY <3>1, <3>2, <3>3 DEF Notices
  <2> QED BY <2>1, <2>2, <2>3, <2>4, <2>5, <2>6
<1> QED BY <1>1, <1>2

LEMMA SameLast ==
  ASSUME NEW k \in Nat, NEW m \in Nat, 1 .. k = 1 .. m
  PROVE  k = m
<1>1. ASSUME NEW a \in Nat, NEW b \in Nat, a < b, 1 .. a = 1 .. b PROVE FALSE
  <2>1. b \in 1 .. b /\ b \notin 1 .. a
    BY <1>1
  <2> QED BY <1>1, <2>1
<1> QED BY <1>1

\* No client is served, told or listed under two descriptors.
LEMMA NoticeFrame ==
  ASSUME NoticeInv, NetTypeOK, SrvTypeOK, RegistryInv, Up' => Up, UNCHANGED fd,
         \A i \in Listed' : \E j \in Listed : /\ clients'.buf[i] = clients.buf[j]
                                              /\ pc' = "join" => i = j,
         \A d \in Clients : open'[d] => open[d] /\ Notices(d)' = Notices(d),
         (pc' = "join" /\ pc = "join" /\ UNCHANGED <<n, cSock>> /\ cSock \in OpenFds)
           \/ (pc' # "join" /\ (pc = "join" => n < 0))
  PROVE  NoticeInv'
<1> SUFFICES ASSUME Up', NEW k \in 0 .. MaxFd, OpenFds' = 1 .. k
             PROVE /\ \A i \in Listed' : open'[fd'[clients'.buf[i]]] =>
                        Notices(fd[clients.buf[i]])'
                          = k - clients'.buf[i] - (IF pc' = "join" /\ i <= n' THEN 1 ELSE 0)
                   /\ pc' = "join" /\ open'[fd'[cSock']] => Notices(fd[cSock])' = 0
  BY Zenon DEF NoticeInv
<1>1. Up /\ OpenFds = 1 .. k
  BY DEF OpenFds
<1>2. /\ \A i \in Listed : open[fd[clients.buf[i]]] =>
           Notices(fd[clients.buf[i]])
             = k - clients.buf[i] - (IF pc = "join" /\ i <= n THEN 1 ELSE 0)
      /\ pc = "join" /\ open[fd[cSock]] => Notices(fd[cSock]) = 0
  BY <1>1, Zenon DEF NoticeInv
<1>3. ASSUME NEW i \in Listed', open'[fd'[clients'.buf[i]]]
      PROVE  Notices(fd[clients.buf[i]])'
               = k - clients'.buf[i] - (IF pc' = "join" /\ i <= n' THEN 1 ELSE 0)
  <2>1. PICK j \in Listed : clients'.buf[i] = clients.buf[j] /\ (pc' = "join" => i = j)
    OBVIOUS
  <2>2. clients.buf[j] \in OpenFds
    BY <1>1 DEF RegistryInv
  <2>3. fd[clients.buf[j]] \in Clients /\ fd'[clients'.buf[i]] = fd[clients.buf[j]]
    BY <2>1, <2>2 DEF OpenFds, NetTypeOK
  <2>4. open[fd[clients.buf[j]]] /\ Notices(fd[clients.buf[i]])' = Notices(fd[clients.buf[j]])
    <3>1. PICK d \in Clients : d = fd[clients.buf[j]]
      BY <2>3
    <3>2. Notices(fd[clients.buf[i]])' = Notices(d)' /\ open'[d]
      BY <1>3, <2>3, <3>1 DEF Notices
    <3>3. open[d] /\ Notices(d)' = Notices(d)
      BY <3>2
    <3> QED BY <3>1, <3>2, <3>3
  <2>5. Notices(fd[clients.buf[j]])
          = k - clients.buf[j] - (IF pc = "join" /\ j <= n THEN 1 ELSE 0)
    BY <1>2, <2>4
  <2>6. (pc' = "join" /\ i <= n') <=> (pc = "join" /\ j <= n)
    BY <2>1 DEF Listed, SrvTypeOK, D!IsDynArr
  <2> QED BY <2>1, <2>4, <2>5, <2>6
<1>4. ASSUME pc' = "join", open'[fd'[cSock']] PROVE Notices(fd[cSock])' = 0
  <2>1. fd[cSock] \in Clients /\ UNCHANGED <<fd, cSock>>
    BY <1>4 DEF OpenFds, NetTypeOK
  <2>2. pc = "join" /\ fd'[cSock'] = fd[cSock]
    BY <1>4, <2>1
  <2>3. open[fd[cSock]] /\ Notices(fd[cSock])' = Notices(fd[cSock])
    <3>1. PICK d \in Clients : d = fd[cSock]
      BY <2>1
    <3>2. Notices(fd[cSock])' = Notices(d)' /\ open'[d]
      BY <1>4, <2>2, <3>1 DEF Notices
    <3>3. open[d] /\ Notices(d)' = Notices(d)
      BY <3>2
    <3> QED BY <3>1, <3>2, <3>3
  <2> QED BY <1>2, <2>2, <2>3
<1> QED BY <1>3, <1>4

LEMMA OthersNotice ==
  ASSUME NetTypeOK, CliTypeOK, SrvTypeOK, CountersOK, RegistryInv, PeerInv, NoticeInv, Network \/ Peers
  PROVE  NoticeInv'
<1>1. UNCHANGED <<fd, srvVars>>
  BY OthersKeepFds
<1>2. Up' = Up /\ Listed' = Listed
  BY <1>1 DEF Up, Listed, srvVars
<1>3. CASE ~Up
  BY <1>2, <1>3 DEF NoticeInv
<1>4. CASE Up
  <2>1. \A d \in Clients : open'[d] => open[d] /\ Notices(d)' = Notices(d)
    BY <1>4, PeersNotices
  <2>2. UNCHANGED <<pc, n, cSock, clients>>
    BY <1>1 DEF srvVars
  <2>3. (pc' = "join" /\ pc = "join" /\ UNCHANGED <<n, cSock>> /\ cSock \in OpenFds)
          \/ (pc' # "join" /\ (pc = "join" => n < 0))
    BY <1>4, <2>2 DEF RegistryInv
  <2>4. \A i \in Listed' : \E j \in Listed : clients'.buf[i] = clients.buf[j] /\ (pc' = "join" => i = j)
    BY <1>2, <2>2
  <2> QED BY <1>1, <1>2, <2>1, <2>3, <2>4, NoticeFrame
<1> QED BY <1>3, <1>4

\* accept(): one more descriptor, and a notice of it to be sent to all listed.
LEMMA AcceptsNotice ==
  ASSUME NetTypeOK, CliTypeOK, SrvTypeOK, RegistryInv, PeerInv, NoticeInv, UNCHANGED cliVars,
         NEW k \in 0 .. MaxFd, Accepts(k)
  PROVE  NoticeInv'
<1>1. /\ Up /\ pc = "accept" /\ pc' = "join" /\ cSock' = k + 1 /\ n' = clients.len - 1
      /\ OpenFds = 1 .. k /\ OpenFds' = 1 .. k + 1 /\ k \in Nat
      /\ fd' = [fd EXCEPT ![k + 1] = Head(backlog)] /\ UNCHANGED <<open, down, joins, clients>>
  BY NetAssumption DEF Accepts, Up, Running, LastIndex, cliVars, NetAssumption
<1>2. Listed = 0 .. clients.len - 1 /\ Listed' = Listed /\ clients.len \in Nat
  BY <1>1 DEF Listed, SrvTypeOK, D!IsDynArr
<1>3. \A i \in Listed : clients.buf[i] \in 1 .. k /\ fd'[clients.buf[i]] = fd[clients.buf[i]]
  <2>1. \A i \in Listed : clients.buf[i] \in 1 .. k
    BY <1>1 DEF RegistryInv
  <2> QED BY <1>1, <2>1 DEF NetTypeOK
<1> SUFFICES ASSUME NEW m \in 0 .. MaxFd, OpenFds' = 1 .. m
             PROVE /\ \A i \in Listed' : open'[fd'[clients'.buf[i]]] =>
                        Notices(fd[clients.buf[i]])'
                          = m - clients'.buf[i] - (IF pc' = "join" /\ i <= n' THEN 1 ELSE 0)
                   /\ pc' = "join" /\ open'[fd'[cSock']] => Notices(fd[cSock])' = 0
  BY Zenon DEF NoticeInv
<1>4. m = k + 1
  <2>1. m \in Nat /\ k + 1 \in Nat
    BY <1>1, NetAssumption DEF NetAssumption
  <2> QED BY <1>1, <2>1, SameLast
<1>5. \A i \in Listed : open[fd[clients.buf[i]]] => Notices(fd[clients.buf[i]]) = k - clients.buf[i]
  <2>1. \A i \in Listed : open[fd[clients.buf[i]]] =>
          Notices(fd[clients.buf[i]])
            = k - clients.buf[i] - (IF pc = "join" /\ i <= n THEN 1 ELSE 0)
    BY <1>1, Zenon DEF NoticeInv
  <2>2. \A i \in Listed : (k - clients.buf[i]) - 0 = k - clients.buf[i]
    BY <1>1, <1>3
  <2> QED BY <1>1, <2>1, <2>2
<1>6. ASSUME NEW i \in Listed', open'[fd'[clients'.buf[i]]]
      PROVE  Notices(fd[clients.buf[i]])'
               = m - clients'.buf[i] - (IF pc' = "join" /\ i <= n' THEN 1 ELSE 0)
  <2>1. i \in Listed /\ clients'.buf[i] = clients.buf[i] /\ i <= n' /\ clients.buf[i] \in 1 .. k
    BY <1>1, <1>2, <1>3
  <2>2. Notices(fd[clients.buf[i]])' = Notices(fd[clients.buf[i]]) /\ open[fd[clients.buf[i]]]
    BY <1>1, <1>3, <1>6, <2>1 DEF Notices
  <2>3. Notices(fd[clients.buf[i]]) = k - clients.buf[i]
    BY <1>5, <2>1, <2>2
  <2>4. k - clients.buf[i] = (m - clients.buf[i]) - 1
    BY <1>1, <1>4, <2>1
  <2> QED BY <1>1, <2>1, <2>2, <2>3, <2>4
<1>7. Notices(fd[cSock])' = 0
  <2>1. Head(backlog) = backlog[1] /\ 1 \in 1 .. Len(backlog) /\ Head(backlog) \in Clients
    BY DEF Accepts, NetTypeOK
  <2>2. PICK d \in Clients : d = Head(backlog)
    BY <2>1
  <2>3. link[d] = "queued"
    BY <2>1, <2>2 DEF PeerInv
  <2>4. down[d] = <<>> /\ joins[d] = 0
    BY <2>3 DEF PeerInv
  <2>5. fd'[cSock'] = d
    <3>1. k + 1 \in Fds
      BY DEF Accepts
    <3> QED BY <1>1, <2>2, <3>1 DEF NetTypeOK
  <2>6. Notices(fd[cSock])' = joins[d] + Len(Only(down[d], {"NEW_USER_JOIN"}))
    BY <1>1, <2>5 DEF Notices
  <2>7. Len(Only(down[d], {"NEW_USER_JOIN"})) = 0
    BY <2>4, OnlyEmpty
  <2> QED BY <2>4, <2>6, <2>7
<1> QED BY <1>6, <1>7

\* One more client has been told.
LEMMA TellsNotice ==
  ASSUME NetTypeOK, CliTypeOK, SrvTypeOK, RegistryInv, PeerInv, NoticeInv, UNCHANGED cliVars,
         NEW c \in Clients, AtSlot(c), Tells(c)
  PROVE  NoticeInv'
<1>1. /\ Up /\ pc = "join" /\ pc' = "join" /\ n' = n - 1 /\ n \in Nat /\ n \in Listed
      /\ c = fd[clients.buf[n]] /\ clients.buf[n] \in OpenFds
      /\ UNCHANGED <<open, fd, cSock, clients, joins>>
      /\ IF open[c] THEN down' = [down EXCEPT ![c] = Append(@, "NEW_USER_JOIN")] ELSE UNCHANGED down
  BY DEF AtSlot, Tells, Up, Running, cliVars
<1>2. Listed' = Listed /\ Listed \subseteq Int /\ OpenFds' = OpenFds
  BY <1>1 DEF Listed, OpenFds
<1>3. /\ \A i \in Listed : clients.buf[i] \in OpenFds
      /\ \A i, j \in Listed : i < j => clients.buf[i] < clients.buf[j]
      /\ cSock \in OpenFds /\ \A i \in Listed : clients.buf[i] < cSock
  BY <1>1 DEF RegistryInv
<1>4. OpenFds \subseteq Int
  BY NetAssumption DEF OpenFds, Fds, NetAssumption
<1>5. ASSUME NEW f \in OpenFds, f # clients.buf[n]
      PROVE  fd[f] # c /\ Notices(fd[f])' = Notices(fd[f])
  <2>1. fd[f] # c /\ fd[f] \in Clients
    BY <1>1, <1>5 DEF PeerInv, OpenFds, NetTypeOK
  <2>2. down'[fd[f]] = down[fd[f]] /\ fd'[f] = fd[f]
    BY <1>1, <2>1 DEF NetTypeOK
  <2> QED BY <1>1, <2>1, <2>2 DEF Notices
<1>6. open[c] => Notices(c)' = Notices(c) + 1
  <2> SUFFICES ASSUME open[c] PROVE Notices(c)' = Notices(c) + 1
    OBVIOUS
  <2>1. down'[c] = Append(down[c], "NEW_USER_JOIN") /\ down[c] \in Seq(DownMessages)
        /\ joins'[c] = joins[c] /\ joins[c] \in Nat /\ "NEW_USER_JOIN" \in DownMessages
    BY <1>1, ZenonT(40) DEF NetTypeOK, CliTypeOK, DownMessages
  <2>2. /\ Len(Only(down[c], {"NEW_USER_JOIN"})) \in Nat
        /\ Len(Only(Append(down[c], "NEW_USER_JOIN"), {"NEW_USER_JOIN"}))
             = Len(Only(down[c], {"NEW_USER_JOIN"})) + 1
    BY <2>1, NoticesMore
  <2>3. Notices(c)' = joins[c] + Len(Only(Append(down[c], "NEW_USER_JOIN"), {"NEW_USER_JOIN"}))
    BY <2>1 DEF Notices
  <2>4. Notices(c) = joins[c] + Len(Only(down[c], {"NEW_USER_JOIN"}))
    BY DEF Notices
  <2>5. joins[c] \in Nat
    BY <2>1
  <2> QED BY <2>2, <2>3, <2>4, <2>5, SMTT(40)
<1> SUFFICES ASSUME NEW k \in 0 .. MaxFd, OpenFds' = 1 .. k
             PROVE /\ \A i \in Listed' : open'[fd'[clients'.buf[i]]] =>
                        Notices(fd[clients.buf[i]])'
                          = k - clients'.buf[i] - (IF pc' = "join" /\ i <= n' THEN 1 ELSE 0)
                   /\ pc' = "join" /\ open'[fd'[cSock']] => Notices(fd[cSock])' = 0
  BY Zenon DEF NoticeInv
<1>7. /\ \A i \in Listed : open[fd[clients.buf[i]]] =>
           Notices(fd[clients.buf[i]])
             = k - clients.buf[i] - (IF pc = "join" /\ i <= n THEN 1 ELSE 0)
      /\ pc = "join" /\ open[fd[cSock]] => Notices(fd[cSock]) = 0
  BY <1>1, <1>2, Zenon DEF NoticeInv
<1>8. ASSUME NEW i \in Listed, open[fd[clients.buf[i]]]
      PROVE  Notices(fd[clients.buf[i]])'
               = k - clients'.buf[i] - (IF pc' = "join" /\ i <= n' THEN 1 ELSE 0)
  <2>0. Notices(fd[clients.buf[i]]) = k - clients.buf[i] - (IF pc = "join" /\ i <= n THEN 1 ELSE 0)
    BY <1>7, <1>8
  <2>1. clients.buf[i] \in Int /\ k \in Int /\ i \in Int /\ clients'.buf[i] = clients.buf[i]
    BY <1>1, <1>2, <1>3, <1>4
  <2>2. CASE i = n
    <3>1. Notices(c) = (k - clients.buf[i]) - 1
      BY <1>1, <2>0, <2>2
    <3>2. Notices(c)' = Notices(c) + 1
      BY <1>1, <1>6, <1>8, <2>2
    <3>3. Notices(fd[clients.buf[i]])' = Notices(c)'
      BY <1>1, <2>2 DEF Notices
    <3>4. ~(i <= n')
      BY <1>1, <2>2
    <3> QED BY <1>1, <2>1, <3>1, <3>2, <3>3, <3>4
  <2>3. CASE i # n
    <3>1. clients.buf[i] # clients.buf[n]
      <4>1. i < n \/ n < i
        BY <1>1, <2>1, <2>3
      <4>2. clients.buf[i] \in Int /\ clients.buf[n] \in Int
        BY <1>1, <1>4, <2>1
      <4>3. n \in Listed
        BY <1>1
      <4>4. clients.buf[i] < clients.buf[n] \/ clients.buf[n] < clients.buf[i]
        BY <1>3, <4>1, <4>3
      <4> QED BY <4>2, <4>4
    <3>2. Notices(fd[clients.buf[i]])' = Notices(fd[clients.buf[i]])
      <4>1. PICK f \in OpenFds : f = clients.buf[i]
        BY <1>3
      <4>2. Notices(fd[f])' = Notices(fd[f])
        BY <1>5, <3>1, <4>1
      <4>3. Notices(fd[clients.buf[i]])' = Notices(fd[f])'
        BY <1>1, <4>1 DEF Notices
      <4> QED BY <4>1, <4>2, <4>3
    <3>3. (i <= n') <=> (i <= n)
      BY <1>1, <2>1, <2>3
    <3> QED BY <1>1, <2>0, <2>1, <3>2, <3>3
  <2> QED BY <2>2, <2>3
<1>9. ASSUME open[fd[cSock]] PROVE Notices(fd[cSock])' = 0
  <2>1. PICK f \in OpenFds : f = cSock
    BY <1>3
  <2>2. f # clients.buf[n]
    <3>1. clients.buf[n] < cSock /\ clients.buf[n] \in Int /\ cSock \in Int
      BY <1>1, <1>3, <1>4
    <3> QED BY <2>1, <3>1
  <2>3. Notices(fd[f])' = Notices(fd[f])
    BY <1>5, <2>2
  <2>4. Notices(fd[cSock])' = Notices(fd[f])'
    BY <1>1, <2>1 DEF Notices
  <2> QED BY <1>1, <1>7, <1>9, <2>1, <2>3, <2>4
<1> QED
  <2>1. /\ Listed' = Listed /\ UNCHANGED <<open, fd, clients, cSock>>
    BY <1>1, <1>2
  <2> QED BY <1>8, <1>9, <2>1

\* A client is registered before anybody is accepted after it.
LEMMA InsertsNotice ==
  ASSUME NetTypeOK, SrvTypeOK, CountersOK, RegistryInv, LoopInv, NoticeInv, UNCHANGED cliVars, JoinInsert
  PROVE  NoticeInv'
<1>1. /\ Up /\ pc = "join" /\ n < 0 /\ pc' = "filter" /\ UNCHANGED <<fd, open, down, joins>>
      /\ OpenFds' = OpenFds /\ OpenFds = 1 .. cSock /\ cSock \in Nat
  BY NetAssumption DEF JoinInsert, GoFilter, Up, Running, netVars, cliVars, OpenFds, LoopInv,
                       CountersOK, Fds, NetAssumption
<1>2. /\ clients.len \in Nat /\ clients'.buf[clients.len] = cSock
      /\ \A i \in 0 .. clients.len - 1 : clients'.buf[i] = clients.buf[i]
      /\ Listed = 0 .. clients.len - 1 /\ Listed' = 0 .. clients.len
  BY InsertShape
<1> SUFFICES ASSUME NEW k \in 0 .. MaxFd, OpenFds' = 1 .. k
             PROVE  \A i \in Listed' : open'[fd'[clients'.buf[i]]] =>
                      Notices(fd[clients.buf[i]])'
                        = k - clients'.buf[i] - (IF pc' = "join" /\ i <= n' THEN 1 ELSE 0)
  BY <1>1, Zenon DEF NoticeInv
<1>3. k = cSock
  <2>1. k \in Nat
    BY NetAssumption DEF NetAssumption
  <2> QED BY <1>1, <2>1, SameLast
<1>4. /\ \A i \in Listed : open[fd[clients.buf[i]]] =>
           Notices(fd[clients.buf[i]])
             = k - clients.buf[i] - (IF pc = "join" /\ i <= n THEN 1 ELSE 0)
      /\ pc = "join" /\ open[fd[cSock]] => Notices(fd[cSock]) = 0
  BY <1>1, Zenon DEF NoticeInv
<1>5. ASSUME NEW i \in Listed', open'[fd'[clients'.buf[i]]]
      PROVE  Notices(fd[clients.buf[i]])' = k - clients'.buf[i] - 0
  <2>1. CASE i = clients.len
    <3>1. clients'.buf[i] = cSock /\ Notices(fd[clients.buf[i]])' = Notices(fd[cSock])
      BY <1>1, <1>2, <2>1 DEF Notices
    <3>2. Notices(fd[cSock]) = 0
      BY <1>1, <1>4, <1>5, <3>1
    <3> QED BY <1>1, <1>3, <3>1, <3>2
  <2>2. CASE i # clients.len
    <3>1. i \in Listed /\ clients'.buf[i] = clients.buf[i]
      BY <1>2, <2>2
    <3>2. Notices(fd[clients.buf[i]])' = Notices(fd[clients.buf[i]]) /\ open[fd[clients.buf[i]]]
      BY <1>1, <1>5, <3>1 DEF Notices
    <3>3. ~(i <= n)
      BY <1>1, <1>2, <1>5 DEF SrvTypeOK
    <3> QED BY <1>4, <3>1, <3>2, <3>3
  <2> QED BY <2>1, <2>2
<1> QED BY <1>1, <1>5

LEMMA ServerNotice ==
  ASSUME NetTypeOK, CliTypeOK, SrvTypeOK, CountersOK, RegistryInv, LoopInv, PeerInv, NoticeInv, Server
  PROVE  NoticeInv'
<1>0. SrvNext /\ UNCHANGED cliVars
  BY DEF Server
<1>1. CASE Ends
  BY <1>1 DEF Ends, NoticeInv
<1>2. ASSUME NEW k \in 0 .. MaxFd, Accepts(k) PROVE NoticeInv'
  BY <1>0, <1>2, AcceptsNotice
<1>3. CASE JoinSend /\ ~Killed
  <2>1. PICK c \in Clients : AtSlot(c) /\ Tells(c)
    BY <1>3, JoinSteps
  <2> QED BY <1>0, <2>1, TellsNotice
<1>4. CASE (ReadHeader \/ ReadBody) /\ ~Killed
  <2>1. PICK c \in Clients : /\ AtSlot(c) /\ in[c] # <<>>
                             /\ SeesEnd(c) \/ TakesHeader(c) \/ Refuses(c) \/ TakesBody(c)
    BY <1>4, ReadSteps, Zenon
  <2>2. /\ pc \in {"filter", "body"} /\ pc' \in {"filter", "body"} /\ Up
        /\ UNCHANGED <<fd, clients, open, joins>>
    BY <1>0, <2>1 DEF AtSlot, SeesEnd, TakesHeader, Refuses, TakesBody, Replies, Up, Running, cliVars
  <2>3. Listed' = Listed
    BY <2>2 DEF Listed
  <2>4. ASSUME NEW d \in Clients PROVE Notices(d)' = Notices(d)
    <3> DEFINE J(s) == Len(Only(s, {"NEW_USER_JOIN"}))
    <3>1. PICK m \in {"ERROR", "LOGIN_RESULT", "LOGOUT_RESULT"} :
            down'[d] = down[d] \/ down'[d] = Append(down[d], m)
      BY <2>1 DEF SeesEnd, TakesHeader, Refuses, TakesBody, Replies, ResultOf, NetTypeOK
    <3>2. down[d] \in Seq(DownMessages) /\ m \in DownMessages /\ m # "NEW_USER_JOIN"
      BY DEF NetTypeOK, DownMessages, Results
    <3>3. J(Append(down[d], m)) = J(down[d]) + 0 /\ J(down[d]) \in Nat
      BY <3>2, NoticesMore
    <3>4. Notices(d)' = joins[d] + J(down'[d]) /\ Notices(d) = joins[d] + J(down[d])
      BY <2>2 DEF Notices
    <3> HIDE DEF J
    <3>5. J(Append(down[d], m)) = J(down[d])
      BY <3>3
    <3>6. J(down'[d]) = J(down[d])
      BY <3>1, <3>5
    <3> QED BY <3>4, <3>6
  <2> QED BY <2>2, <2>3, <2>4, NoticeFrame
<1>5. CASE JoinInsert
  BY <1>0, <1>5, InsertsNotice
<1>6. ASSUME Within PROVE /\ UNCHANGED fd /\ \A d \in Clients : open'[d] = open[d] /\ Notices(d)' = Notices(d)
  BY <1>0, <1>6 DEF Within, netVars, cliVars, Notices
<1>7. CASE CompactStep /\ Within
  <2>1. \A i \in Listed' : \E j \in Listed : clients'.buf[i] = clients.buf[j]
    BY <1>7, CompactShape
  <2>2. pc' # "join" /\ pc # "join" /\ Up
    BY <1>7 DEF CompactStep, Within
  <2> QED BY <1>6, <1>7, <2>1, <2>2, NoticeFrame
<1>8. CASE CompactDone /\ Within
  <2>1. \A i \in Listed' : \E j \in Listed : clients'.buf[i] = clients.buf[j]
    BY <1>8, CompactedShape
  <2>2. pc' # "join" /\ pc # "join" /\ Up
    BY <1>8 DEF CompactDone, Within
  <2> QED BY <1>6, <1>8, <2>1, <2>2, NoticeFrame
<1>9. CASE /\ LoopTop \/ Select \/ FilterSkip \/ FilterDone \/ TypeE \/ (Accept /\ GoFilter)
           /\ Within
  <2>1. Listed' = Listed /\ UNCHANGED clients
    BY <1>9, ListedSame
  <2>2. Up
    BY <1>9 DEF Within
  <2>3. \A i \in Listed' : \E j \in Listed : clients'.buf[i] = clients.buf[j] /\ (pc' = "join" => i = j)
    BY <2>1
  <2>4. (pc' = "join" /\ pc = "join" /\ UNCHANGED <<n, cSock>> /\ cSock \in OpenFds)
          \/ (pc' # "join" /\ (pc = "join" => n < 0))
    <3>1. CASE TypeE
      BY <2>2, <3>1 DEF TypeE, RegistryInv
    <3>2. CASE ~TypeE
      BY <1>9, <3>2 DEF LoopTop, Select, GoFilter, FilterSkip, FilterDone, Accept
    <3> QED BY <3>1, <3>2
  <2> QED BY <1>6, <1>9, <2>2, <2>3, <2>4, NoticeFrame
<1> QED BY <1>0, <1>1, <1>2, <1>3, <1>4, <1>5, <1>7, <1>8, <1>9, ServerSteps

-----------------------------------------------------------------------------
(* Who is taken off the list. *)

LEMMA OthersClose ==
  ASSUME NetTypeOK, CliTypeOK, Network \/ Peers
  PROVE  \A d \in Clients : open'[d] => open[d]
<1>1. CASE Network
  BY <1>1, NetworkSame
<1>2. CASE Peers
  <2>1. PICK c \in Clients :
          \/ Connect(c, Up)
          \/ Quiet(c) \/ (\E cmd : Says(c, cmd)) \/ Hears(c) \/ Goes(c)
    BY <1>2, PeersSteps
  <2>2. CASE ~Goes(c)
    BY <2>1, <2>2 DEF Connect, ConnectOk, ConnectRefused, Quiet, netVars, Says, ClientSend, Hears, Consume
  <2>3. CASE Goes(c)
    BY <2>3 DEF Goes, ClientClose, NetTypeOK
  <2> QED BY <2>2, <2>3
<1> QED BY <1>1, <1>2

\* t_idxToRm holds indices of slots that count.
LEMMA RecordedSlots ==
  ASSUME NetTypeOK, SrvTypeOK, CountersOK, RegistryInv, RemovalInv, pc \in {"filter", "body", "compact"},
         NEW j \in 1 .. Len(toRm), pc = "compact" => n <= toRm[j]
  PROVE  /\ toRm[j] \in Nat /\ toRm[j] < clients.len /\ toRm[j] \in Listed
         /\ clients.buf[toRm[j]] \in OpenFds /\ fd[clients.buf[toRm[j]]] \in Clients
<1>1. toRm[j] \in Nat /\ toRm[j] < clients.len /\ clients.len \in Nat
  BY DEF SrvTypeOK, RemovalInv, D!IsDynArr
<1>2. toRm[j] \in Listed
  BY <1>1 DEF Listed
<1>3. clients.buf[toRm[j]] \in OpenFds
  BY <1>2 DEF RegistryInv, Up, Running
<1> QED BY <1>1, <1>2, <1>3 DEF OpenFds, NetTypeOK

\* A client that has exited stays exited, and its slot is where it was.
LEMMA RemovalFrame ==
  ASSUME NetTypeOK, SrvTypeOK, CountersOK, RegistryInv, RemovalInv,
         UNCHANGED <<pc, n, toRm, ptr, clients, fd>>, \A d \in Clients : open'[d] => open[d]
  PROVE  RemovalInv'
<1>1. ASSUME pc \in {"filter", "body", "compact"}, NEW j \in 1 .. Len(toRm),
             pc = "compact" => n <= toRm[j], Gone(toRm[j])
      PROVE  Gone(toRm[j])'
  <2>1. fd[clients.buf[toRm[j]]] \in Clients
    BY <1>1, RecordedSlots
  <2> QED BY <1>1, <2>1 DEF Gone
<1>2. pc' \in {"filter", "body"} => \A j \in 1 .. Len(toRm') : toRm'[j] < n' /\ Gone(toRm[j])'
  BY <1>1 DEF RemovalInv
<1>3. pc' = "compact" => \A j \in ptr' + 1 .. Len(toRm') : n' <= toRm'[j] /\ Gone(toRm[j])'
  <2> SUFFICES ASSUME pc = "compact", NEW j \in ptr + 1 .. Len(toRm)
               PROVE  n <= toRm[j] /\ Gone(toRm[j])'
    OBVIOUS
  <2>1. j \in 1 .. Len(toRm)
    BY DEF SrvTypeOK
  <2>2. n <= toRm[j] /\ Gone(toRm[j])
    BY DEF RemovalInv
  <2> QED BY <1>1, <2>1, <2>2
<1>4. pc' \in {"filter", "body", "compact"} =>
        /\ \A j \in 1 .. Len(toRm') : toRm'[j] < clients'.len
        /\ \A i, j \in 1 .. Len(toRm') : i < j => toRm'[i] < toRm'[j]
  BY DEF RemovalInv
<1> QED BY <1>2, <1>3, <1>4 DEF RemovalInv

\* The indices recorded so far, and perhaps the one the loop is at.
LEMMA RemovalMore ==
  ASSUME NetTypeOK, SrvTypeOK, CountersOK, RegistryInv, RemovalInv, UNCHANGED <<clients, fd, open>>,
         pc \in {"filter", "body"}, pc' \in {"filter", "body"}, n \in Nat, n < clients.len,
         (n' = n /\ toRm' = toRm) \/ (n' = n + 1 /\ toRm' = toRm)
           \/ (n' = n + 1 /\ toRm' = Append(toRm, n) /\ Gone(n))
  PROVE  RemovalInv'
<1>1. toRm \in Seq(Nat) /\ clients.len \in Nat
  BY DEF SrvTypeOK, D!IsDynArr
<1>2. /\ \A j \in 1 .. Len(toRm) : toRm[j] < clients.len /\ toRm[j] < n /\ Gone(toRm[j])
      /\ \A i, j \in 1 .. Len(toRm) : i < j => toRm[i] < toRm[j]
  BY DEF RemovalInv
<1>3. \A i : Gone(i)' <=> Gone(i)
  BY DEF Gone
<1>4. CASE toRm' = toRm
  <2>1. \A j \in 1 .. Len(toRm) : toRm[j] < n'
    BY <1>1, <1>2, <1>4
  <2>2. \A j \in 1 .. Len(toRm) : Gone(toRm[j])'
    BY <1>2, <1>4 DEF Gone
  <2>3. \A j \in 1 .. Len(toRm') : toRm'[j] < clients'.len /\ toRm'[j] < n' /\ Gone(toRm[j])'
    BY <1>2, <1>4, <2>1, <2>2
  <2>4. \A i, j \in 1 .. Len(toRm') : i < j => toRm'[i] < toRm'[j]
    BY <1>2, <1>4
  <2> QED BY <2>3, <2>4 DEF RemovalInv
<1>5. CASE n' = n + 1 /\ toRm' = Append(toRm, n) /\ Gone(n)
  <2>1. /\ Len(toRm') = Len(toRm) + 1 /\ toRm'[Len(toRm) + 1] = n
        /\ \A j \in 1 .. Len(toRm) : toRm'[j] = toRm[j]
    BY <1>1, <1>5
  <2>2. ASSUME NEW j \in 1 .. Len(toRm')
        PROVE  toRm'[j] < clients'.len /\ toRm'[j] < n' /\ Gone(toRm[j])'
    <3>1. CASE j = Len(toRm) + 1
      <4>1. toRm'[j] = n /\ n < clients'.len /\ n < n'
        BY <1>1, <1>5, <2>1, <3>1
      <4>2. Gone(toRm[j])' <=> Gone(n)
        BY <4>1 DEF Gone
      <4> QED BY <1>5, <4>1, <4>2
    <3>2. CASE j # Len(toRm) + 1
      <4>1. j \in 1 .. Len(toRm)
        BY <1>1, <2>1, <2>2, <3>2
      <4>2. toRm'[j] = toRm[j] /\ toRm[j] \in Nat
        BY <1>1, <2>1, <4>1
      <4>3. toRm[j] < clients.len /\ toRm[j] < n /\ Gone(toRm[j])
        BY <1>2, <4>1
      <4>4. Gone(toRm[j])' <=> Gone(toRm[j])
        BY <4>2 DEF Gone
      <4> QED BY <1>1, <1>5, <4>2, <4>3, <4>4
    <3> QED BY <3>1, <3>2
  <2>3. ASSUME NEW i \in 1 .. Len(toRm'), NEW j \in 1 .. Len(toRm'), i < j
        PROVE  toRm'[i] < toRm'[j]
    <3>1. i \in 1 .. Len(toRm)
      BY <1>1, <2>1, <2>3
    <3>2. CASE j = Len(toRm) + 1
      BY <1>2, <2>1, <3>1, <3>2
    <3>3. CASE j # Len(toRm) + 1
      <4>1. Len(toRm) \in Nat /\ j \in 1 .. Len(toRm) + 1
        BY <1>1, <2>1
      <4>2. j \in 1 .. Len(toRm)
        BY <3>3, <4>1
      <4> QED BY <1>2, <2>1, <2>3, <3>1, <4>2
    <3> QED BY <3>2, <3>3
  <2> QED BY <2>2, <2>3 DEF RemovalInv
<1> QED BY <1>4, <1>5

\* What the slot behind t_idxToRm reads as is not an index of g_clients.
NoIndexInGarbage == Garbage \cap Nat = {}

\* The compaction hits the slots of t_idxToRm, and no other.
LEMMA CompactHits ==
  ASSUME NetTypeOK, SrvTypeOK, CountersOK, RegistryInv, RemovalInv, NoIndexInGarbage,
         UNCHANGED <<fd, open>>, CompactStep
  PROVE  RemovalInv' /\ (cnt' # cnt => cnt' = cnt + 1 /\ Gone(n))
<1>1. /\ pc = "compact" /\ pc' = "compact" /\ n' = n + 1 /\ UNCHANGED toRm
      /\ toRm \in Seq(Nat) /\ n \in Nat /\ ptr \in Nat /\ cnt \in Nat
      /\ n < clients.len /\ clients'.len = clients.len /\ clients.len \in Nat
  BY CompactShape DEF CompactStep, SrvTypeOK, D!IsDynArr
<1>2. PICK hit \in BOOLEAN : /\ IsHit(hit)
                             /\ IF hit THEN cnt' = cnt + 1 /\ ptr' = ptr + 1 ELSE UNCHANGED <<cnt, ptr>>
  BY DEF CompactStep
<1>3. /\ \A j \in 1 .. Len(toRm) : toRm[j] < clients.len
      /\ \A i, j \in 1 .. Len(toRm) : i < j => toRm[i] < toRm[j]
      /\ \A j \in ptr + 1 .. Len(toRm) : n <= toRm[j] /\ Gone(toRm[j])
  BY <1>1 DEF RemovalInv
<1>4. \A i \in n .. clients.len - 1 : clients'.buf[i] = clients.buf[i]
  BY CompactShape
<1>5. hit => ptr < Len(toRm) /\ n = toRm[ptr + 1]
  <2> SUFFICES ASSUME hit PROVE ptr < Len(toRm) /\ n = toRm[ptr + 1]
    OBVIOUS
  <2>1. CASE ptr < Len(toRm)
    BY <1>2, <2>1 DEF IsHit
  <2>2. CASE ~(ptr < Len(toRm))
    <3>1. \E g \in Garbage : hit = (n = g)
      BY <1>2, <2>2 DEF IsHit
    <3> QED BY <1>1, <3>1 DEF NoIndexInGarbage
  <2> QED BY <2>1, <2>2
<1>6. ~hit /\ ptr < Len(toRm) => n # toRm[ptr + 1]
  BY <1>2 DEF IsHit
<1>7. Len(toRm) \in Nat
  BY <1>1
<1>8. hit => Gone(n)
  <2> SUFFICES ASSUME hit PROVE Gone(n)
    OBVIOUS
  <2>1. ptr + 1 \in ptr + 1 .. Len(toRm)
    BY <1>1, <1>5, <1>7
  <2> QED BY <1>3, <1>5, <2>1
<1>9. ASSUME NEW j \in ptr' + 1 .. Len(toRm)
      PROVE  n + 1 <= toRm[j] /\ Gone(toRm[j])'
  <2>1. ptr' \in {ptr, ptr + 1} /\ (hit => ptr' = ptr + 1)
    BY <1>2
  <2>2. j \in ptr + 1 .. Len(toRm) /\ j \in 1 .. Len(toRm) /\ (hit => j # ptr + 1)
    <3>1. ptr \in Nat /\ Len(toRm) \in Nat /\ j \in ptr' + 1 .. Len(toRm)
      BY <1>1, <1>7, <1>9
    <3>2. CASE ptr' = ptr + 1
      BY <3>1, <3>2
    <3>3. CASE ptr' = ptr
      <4>1. ~hit
        BY <2>1, <3>1, <3>3
      <4> QED BY <3>1, <3>3, <4>1
    <3> QED BY <2>1, <3>2, <3>3
  <2>3. toRm[j] \in Nat /\ n <= toRm[j] /\ toRm[j] < clients.len /\ Gone(toRm[j])
    BY <1>1, <1>3, <2>2
  <2>4. n # toRm[j]
    <3>1. ptr + 1 \in 1 .. Len(toRm) /\ ptr < Len(toRm)
      BY <1>1, <1>7, <2>2
    <3>2. CASE j = ptr + 1
      BY <1>6, <2>2, <3>1, <3>2
    <3>3. CASE j # ptr + 1
      <4>1. ptr + 1 < j
        BY <1>1, <1>7, <2>2, <3>3
      <4>2. toRm[ptr + 1] < toRm[j] /\ ptr + 1 \in ptr + 1 .. Len(toRm)
        BY <1>1, <1>3, <1>7, <2>2, <3>1, <4>1
      <4>3. n <= toRm[ptr + 1] /\ toRm[ptr + 1] \in Nat
        BY <1>1, <1>3, <3>1, <4>2
      <4> QED BY <1>1, <2>3, <4>2, <4>3
    <3> QED BY <3>2, <3>3
  <2>5. clients'.buf[toRm[j]] = clients.buf[toRm[j]]
    BY <1>1, <1>4, <2>3
  <2>6. Gone(toRm[j])' <=> Gone(toRm[j])
    BY <1>1, <2>5 DEF Gone
  <2> QED BY <1>1, <2>3, <2>4, <2>6
<1>10. RemovalInv'
  <2>1. \A j \in ptr' + 1 .. Len(toRm') : n' <= toRm'[j] /\ Gone(toRm[j])'
    BY <1>1, <1>9
  <2>2. /\ \A j \in 1 .. Len(toRm') : toRm'[j] < clients'.len
        /\ \A i, j \in 1 .. Len(toRm') : i < j => toRm'[i] < toRm'[j]
    BY <1>1, <1>3
  <2>3. pc' = "compact"
    BY <1>1
  <2> QED BY <2>1, <2>2, <2>3 DEF RemovalInv
<1> QED BY <1>2, <1>8, <1>10

\* A call of processor records its slot only if the client has exited.
LEMMA RecordsGone ==
  ASSUME NetTypeOK, StreamInv, NEW c \in Clients, AtSlot(c), in[c] # <<>>,
         SeesEnd(c) \/ TakesHeader(c) \/ Refuses(c) \/ TakesBody(c)
  PROVE  \/ n' = n /\ toRm' = toRm
         \/ n' = n + 1 /\ toRm' = toRm
         \/ n' = n + 1 /\ toRm' = Append(toRm, n) /\ Gone(n)
<1>1. c = fd[clients.buf[n]]
  BY DEF AtSlot
<1>2. CASE SeesEnd(c)
  <2>1. in[c] \in Seq(UpSegments) /\ out[c] \in Seq(UpSegments)
    BY StreamType
  <2>2. Stream(c) # <<>> /\ Stream(c)[1] = "FIN" /\ Stream(c) \in Seq(UpSegments)
    BY <1>2, <2>1, ConcatFront DEF SeesEnd, Stream
  <2>3. 1 \in 1 .. Len(Stream(c))
    BY <2>2
  <2>4. ~open[c]
    BY <2>2, <2>3 DEF StreamInv, StreamOK
  <2> QED BY <1>1, <1>2, <2>4 DEF SeesEnd, Gone
<1>3. CASE TakesHeader(c)
  BY <1>3 DEF TakesHeader
<1>4. CASE Refuses(c) \/ TakesBody(c)
  <2>1. PICK m : Replies(c, m)
    BY <1>4 DEF Refuses, TakesBody
  <2>2. n' = n + 1 /\ (toRm' = toRm \/ (toRm' = Append(toRm, n) /\ ~open[c]))
    BY <2>1 DEF Replies
  <2> QED BY <1>1, <2>2 DEF Gone
<1> QED BY <1>2, <1>3, <1>4

LEMMA ServerRemoval ==
  ASSUME NetTypeOK, SrvTypeOK, CountersOK, RegistryInv, LoopInv, StreamInv, RemovalInv,
         NoIndexInGarbage, Server
  PROVE  RemovalInv'
<1>0. SrvNext
  BY DEF Server
<1>1. ASSUME pc' \notin {"filter", "body", "compact"} PROVE RemovalInv'
  BY <1>1 DEF RemovalInv
<1>2. ASSUME GoFilter PROVE RemovalInv'
  <2>1. toRm' = <<>> /\ Len(toRm') = 0 /\ pc' = "filter"
    BY <1>2 DEF GoFilter
  <2> QED BY <2>1 DEF RemovalInv
<1>3. CASE Ends \/ (\E k \in 0 .. MaxFd : Accepts(k)) \/ LoopTop \/ CompactDone
           \/ (Select /\ ~GoFilter)
  BY <1>1, <1>3 DEF Ends, Accepts, LoopTop, CompactDone, Select
<1>4. CASE JoinSend /\ ~Killed
  <2>1. pc' = "join"
    BY <1>4 DEF JoinSend
  <2> QED BY <1>1, <2>1
<1>5. CASE (ReadHeader \/ ReadBody) /\ ~Killed
  <2>1. PICK c \in Clients : /\ AtSlot(c) /\ in[c] # <<>>
                             /\ SeesEnd(c) \/ TakesHeader(c) \/ Refuses(c) \/ TakesBody(c)
    BY <1>5, ReadSteps, Zenon
  <2>2. /\ n \in Nat /\ n < clients.len /\ UNCHANGED <<clients, fd, open>>
        /\ pc \in {"filter", "body"} /\ pc' \in {"filter", "body"}
    BY <2>1 DEF AtSlot, SeesEnd, TakesHeader, Refuses, TakesBody, Replies
  <2> QED BY <2>1, <2>2, RecordsGone, RemovalMore
<1>6. CASE JoinInsert \/ GoFilter
  BY <1>2, <1>6 DEF JoinInsert
<1>7. CASE CompactStep /\ Within
  BY <1>7, CompactHits DEF Within, netVars
<1>8. CASE FilterSkip /\ Within
  <2>1. /\ n \in Nat /\ n < clients.len /\ UNCHANGED <<clients, fd, open, toRm>> /\ n' = n + 1
        /\ pc = "filter" /\ pc' = "filter"
    BY <1>8 DEF FilterSkip, Within, netVars, CountersOK
  <2> QED BY <2>1, RemovalMore
<1>9. CASE FilterDone /\ Within
  <2>1. /\ pc = "filter" /\ n' = 0 /\ UNCHANGED <<clients, fd, open, toRm, ptr>> /\ ptr = 0
        /\ toRm \in Seq(Nat) /\ pc' \in {"top", "compact"}
    BY <1>9 DEF FilterDone, Within, netVars, CountersOK, SrvTypeOK
  <2>2. /\ \A j \in 1 .. Len(toRm) : toRm[j] < clients.len /\ Gone(toRm[j])
        /\ \A i, j \in 1 .. Len(toRm) : i < j => toRm[i] < toRm[j]
    BY <2>1 DEF RemovalInv
  <2>3. \A j \in 1 .. Len(toRm) : Gone(toRm[j])'
    BY <2>1, <2>2 DEF Gone
  <2>4. \A j \in ptr' + 1 .. Len(toRm') : n' <= toRm'[j] /\ Gone(toRm[j])'
    BY <2>1, <2>3
  <2>5. \A j \in 1 .. Len(toRm') : toRm'[j] < clients'.len
    BY <2>1, <2>2
  <2>6. \A i, j \in 1 .. Len(toRm') : i < j => toRm'[i] < toRm'[j]
    BY <2>1, <2>2
  <2> QED BY <2>1, <2>4, <2>5, <2>6 DEF RemovalInv
<1>10. CASE TypeE /\ Within
  BY <1>10, RemovalFrame DEF TypeE, Within, netVars
<1> QED BY <1>0, <1>3, <1>4, <1>5, <1>6, <1>7, <1>8, <1>9, <1>10, ServerSteps

-----------------------------------------------------------------------------
(* Who is known. *)

\* Descriptors stay listed, and the clients that have exited stay exited.
LEMMA KnownFrame ==
  ASSUME NetTypeOK, KnownInv, Up' => Up, UNCHANGED <<fd, cSock>>,
         \A d \in Clients : open'[d] => open[d],
         \A i \in Listed : \E j \in Listed' : clients'.buf[j] = clients.buf[i]
  PROVE  KnownInv'
<1> SUFFICES ASSUME Up, NEW f \in OpenFds
             PROVE  \/ \E i \in Listed' : clients'.buf[i] = f
                    \/ f = cSock'
                    \/ ~open'[fd'[f]]
  BY DEF KnownInv, OpenFds
<1>1. fd[f] \in Clients
  BY DEF OpenFds, NetTypeOK
<1>2. CASE \E i \in Listed : clients.buf[i] = f
  BY <1>2
<1>3. CASE f = cSock
  BY <1>3
<1>4. CASE ~open[fd[f]]
  BY <1>1, <1>4
<1> QED BY <1>2, <1>3, <1>4 DEF KnownInv

LEMMA OthersKnown ==
  ASSUME NetTypeOK, CliTypeOK, KnownInv, Network \/ Peers
  PROVE  KnownInv'
<1>1. UNCHANGED <<fd, srvVars>> /\ \A d \in Clients : open'[d] => open[d]
  BY OthersKeepFds, OthersClose
<1>2. Up' = Up /\ Listed' = Listed /\ UNCHANGED <<clients, cSock>>
  BY <1>1 DEF Up, Listed, srvVars
<1> QED BY <1>1, <1>2, KnownFrame

LEMMA ServerKnown ==
  ASSUME NetTypeOK, SrvTypeOK, CountersOK, RegistryInv, LoopInv, RemovalInv, KnownInv,
         NoIndexInGarbage, Server
  PROVE  KnownInv'
<1>0. SrvNext
  BY DEF Server
<1>1. CASE Ends
  BY <1>1 DEF Ends, KnownInv
<1>2. ASSUME NEW k \in 0 .. MaxFd, Accepts(k) PROVE KnownInv'
  <2>1. /\ Up /\ pc = "accept" /\ pc' = "join" /\ cSock' = k + 1 /\ cSock = 0 /\ k \in Nat
        /\ OpenFds = 1 .. k /\ OpenFds' = 1 .. k + 1 /\ UNCHANGED <<open, clients>>
        /\ fd' = [fd EXCEPT ![k + 1] = Head(backlog)]
    BY <1>2, NetAssumption DEF Accepts, Up, Running, LoopInv, NetAssumption
  <2>2. Listed' = Listed
    BY <2>1 DEF Listed
  <2>3. ASSUME NEW f \in OpenFds'
        PROVE  (\E i \in Listed' : clients'.buf[i] = f) \/ f = cSock' \/ ~open'[fd'[f]]
    <3>1. CASE f = k + 1
      BY <2>1, <3>1
    <3>2. CASE f # k + 1
      <4>1. f \in OpenFds /\ f # cSock
        BY <2>1, <2>3, <3>2
      <4>2. f \in Fds /\ fd'[f] = fd[f]
        BY <2>1, <3>2, <4>1 DEF OpenFds, NetTypeOK
      <4>3. (\E i \in Listed : clients.buf[i] = f) \/ ~open[fd[f]]
        BY <2>1, <4>1 DEF KnownInv
      <4> QED BY <2>1, <2>2, <4>2, <4>3
    <3> QED BY <3>1, <3>2
  <2> QED BY <2>3 DEF KnownInv
<1>3. CASE JoinSend /\ ~Killed
  <2>1. PICK c \in Clients : AtSlot(c) /\ Tells(c)
    BY <1>3, JoinSteps
  <2>2. pc = "join" /\ Up /\ UNCHANGED <<pc, clients, fd, open, cSock>>
    BY <2>1 DEF AtSlot, Tells, Up, Running
  <2>3. Listed' = Listed
    BY <2>2 DEF Listed
  <2> QED BY <2>2, <2>3, KnownFrame
<1>4. CASE (ReadHeader \/ ReadBody) /\ ~Killed
  <2>1. PICK c \in Clients : /\ AtSlot(c) /\ in[c] # <<>>
                             /\ SeesEnd(c) \/ TakesHeader(c) \/ Refuses(c) \/ TakesBody(c)
    BY <1>4, ReadSteps, Zenon
  <2>2. /\ pc \in {"filter", "body"} /\ pc' \in {"filter", "body"} /\ Up
        /\ UNCHANGED <<fd, clients, open, cSock>>
    BY <2>1 DEF AtSlot, SeesEnd, TakesHeader, Refuses, TakesBody, Replies, Up, Running
  <2>3. Listed' = Listed
    BY <2>2 DEF Listed
  <2> QED BY <2>2, <2>3, KnownFrame
<1>5. CASE JoinInsert /\ Within
  <2>1. /\ clients.len \in Nat /\ clients'.buf[clients.len] = cSock
        /\ \A i \in 0 .. clients.len - 1 : clients'.buf[i] = clients.buf[i]
        /\ Listed = 0 .. clients.len - 1 /\ Listed' = 0 .. clients.len
    BY <1>5, InsertShape
  <2>2. UNCHANGED <<fd, open>> /\ OpenFds' = OpenFds /\ Up
    BY <1>5 DEF Within, netVars, OpenFds
  <2>3. ASSUME NEW f \in OpenFds'
        PROVE  (\E i \in Listed' : clients'.buf[i] = f) \/ f = cSock' \/ ~open'[fd'[f]]
    <3>1. (\E i \in Listed : clients.buf[i] = f) \/ f = cSock \/ ~open[fd[f]]
      BY <2>2, <2>3 DEF KnownInv
    <3>2. CASE \E i \in Listed : clients.buf[i] = f
      <4>1. PICK i \in Listed : clients.buf[i] = f
        BY <3>2
      <4>2. i \in Listed' /\ clients'.buf[i] = f
        BY <2>1, <4>1
      <4> QED BY <4>2
    <3>3. CASE f = cSock
      <4>1. clients.len \in Listed' /\ clients'.buf[clients.len] = f
        BY <2>1, <3>3
      <4> QED BY <4>1
    <3>4. CASE ~open[fd[f]]
      BY <2>2, <3>4
    <3> QED BY <3>1, <3>2, <3>3, <3>4
  <2> QED BY <2>3 DEF KnownInv
<1>6. CASE CompactStep /\ Within
  <2>1. UNCHANGED <<fd, open, cSock>> /\ OpenFds' = OpenFds /\ Up
    BY <1>6 DEF CompactStep, Within, netVars, OpenFds
  <2>2. cnt' # cnt => Gone(n)
    BY <1>6, <2>1, CompactHits
  <2>3. /\ \A i \in Listed : i # n => i \in Listed' /\ clients'.buf[i] = clients.buf[i]
        /\ cnt' = cnt => n - cnt \in Listed' /\ clients'.buf[n - cnt] = clients.buf[n]
    BY <1>6, CompactShape
  <2>4. ASSUME NEW f \in OpenFds'
        PROVE  (\E i \in Listed' : clients'.buf[i] = f) \/ f = cSock' \/ ~open'[fd'[f]]
    <3>1. (\E i \in Listed : clients.buf[i] = f) \/ f = cSock \/ ~open[fd[f]]
      BY <2>1, <2>4 DEF KnownInv
    <3>2. CASE \E i \in Listed : clients.buf[i] = f
      <4>1. PICK i \in Listed : clients.buf[i] = f
        BY <3>2
      <4>2. CASE i # n
        BY <2>3, <4>1, <4>2
      <4>3. CASE i = n /\ cnt' = cnt
        BY <2>3, <4>1, <4>3
      <4>4. CASE i = n /\ cnt' # cnt
        BY <2>1, <2>2, <4>1, <4>4 DEF Gone
      <4> QED BY <4>2, <4>3, <4>4
    <3>3. CASE f = cSock \/ ~open[fd[f]]
      BY <2>1, <3>3
    <3> QED BY <3>1, <3>2, <3>3
  <2> QED BY <2>4 DEF KnownInv
<1>7. CASE CompactDone /\ Within
  <2>1. UNCHANGED <<fd, open, cSock>> /\ Up
    BY <1>7 DEF CompactDone, Within, netVars
  <2>2. Listed' = Listed /\ clients'.buf = clients.buf
    BY <1>7, CompactedShape
  <2> QED BY <2>1, <2>2, KnownFrame
<1>8. CASE /\ LoopTop \/ Select \/ FilterSkip \/ FilterDone \/ TypeE \/ (Accept /\ UNCHANGED cSock)
           /\ Within
  <2>1. Listed' = Listed /\ UNCHANGED clients
    BY <1>8, ListedSame
  <2>2. UNCHANGED <<fd, open, cSock>> /\ Up
    BY <1>8 DEF LoopTop, Select, FilterSkip, FilterDone, TypeE, Within, netVars
  <2> QED BY <2>1, <2>2, KnownFrame
<1> QED BY <1>0, <1>1, <1>2, <1>3, <1>4, <1>5, <1>6, <1>7, <1>8, ServerSteps

-----------------------------------------------------------------------------
(* The invariant holds. *)

TalkInv == PeerInv /\ LoopInv /\ StreamInv /\ AskedInv /\ NoticeInv
GoneInv == RemovalInv /\ KnownInv

LEMMA TalkInit == Init => TalkInv /\ GoneInv
<1> SUFFICES ASSUME Init PROVE TalkInv /\ GoneInv
  OBVIOUS
<1>1. /\ pc = "top" /\ n = 0 /\ cSock = 0 /\ backlog = <<>> /\ OpenFds = {}
      /\ clients.len = 0 /\ Listed = {}
  BY DEF Init, NetInit, SrvInit, OpenFds, D!InitZero, Listed
<1>2. /\ \A c \in Clients : /\ link[c] = "idle" /\ in[c] = <<>> /\ out[c] = <<>> /\ down[c] = <<>>
                            /\ sent[c] = <<>> /\ got[c] = <<>> /\ joins[c] = 0
  BY DEF Init, NetInit, CliInit
<1>3. PeerInv
  <2>1. \A c \in Clients : link[c] # "down"
    BY <1>2
  <2> QED BY <1>1, <1>2, <2>1 DEF PeerInv
<1>4. LoopInv
  BY <1>1 DEF LoopInv
<1>5. StreamInv
  <2> SUFFICES ASSUME NEW c \in Clients PROVE StreamOK(c)
    BY DEF StreamInv
  <2>1. Stream(c) = <<>> /\ Serving(c) = FALSE
    BY <1>1, <1>2 DEF Stream, Serving
  <2>2. Orderly(Stream(c), Serving(c)) /\ Plain(Stream(c), Serving(c))
    BY <2>1, StreamEmpty
  <2> QED BY <1>2, <2>1, <2>2 DEF StreamOK
<1>6. AskedInv
  BY <1>2 DEF AskedInv, AskedOK, Established
<1>7. NoticeInv
  BY <1>1 DEF NoticeInv
<1>8. GoneInv
  BY <1>1 DEF GoneInv, RemovalInv, KnownInv
<1> QED BY <1>3, <1>4, <1>5, <1>6, <1>7, <1>8 DEF TalkInv

LEMMA TalkNext == IInv /\ TalkInv /\ [Next]_vars => TalkInv'
<1> SUFFICES ASSUME IInv, TalkInv, [Next]_vars PROVE TalkInv'
  OBVIOUS
<1>0. /\ NetTypeOK /\ SrvTypeOK /\ CliTypeOK /\ CountersOK /\ RegistryInv
      /\ PeerInv /\ LoopInv /\ StreamInv /\ AskedInv /\ NoticeInv
  BY DEF IInv, TypeOK, TalkInv
<1>1. CASE Server
  <2>1. PeerInv' /\ LoopInv'
    BY <1>0, <1>1, ServerPeer, ServerLoop
  <2>2. StreamInv' /\ AskedInv'
    BY <1>0, <1>1, ServerStream, ServerAsked
  <2>3. NoticeInv'
    BY <1>0, <1>1, ServerNotice
  <2> QED BY <2>1, <2>2, <2>3 DEF TalkInv
<1>2. CASE Network
  <2>1. PeerInv' /\ LoopInv'
    BY <1>0, <1>2, NetworkPeer, OthersLoop
  <2>2. StreamInv' /\ AskedInv'
    BY <1>0, <1>2, NetworkStream, NetworkAsked
  <2>3. NoticeInv'
    BY <1>0, <1>2, OthersNotice
  <2> QED BY <2>1, <2>2, <2>3 DEF TalkInv
<1>3. CASE Peers
  <2>1. PeerInv' /\ LoopInv'
    BY <1>0, <1>3, PeersPeer, OthersLoop
  <2>2. StreamInv' /\ AskedInv'
    BY <1>0, <1>3, PeersStream, PeersAsked
  <2>3. NoticeInv'
    BY <1>0, <1>3, OthersNotice
  <2> QED BY <2>1, <2>2, <2>3 DEF TalkInv
<1>4. CASE UNCHANGED vars
  <2>1. UNCHANGED <<netVars, srvVars, cliVars>>
    BY <1>4 DEF vars
  <2>2. PeerInv' /\ LoopInv'
    BY <1>0, <2>1 DEF netVars, srvVars, cliVars, PeerInv, LoopInv, Up, OpenFds
  <2>3. StreamInv'
    BY <1>0, <2>1 DEF netVars, srvVars, StreamInv, StreamOK, Stream, Serving
  <2>4. AskedInv'
    BY <1>0, <2>1 DEF netVars, srvVars, cliVars, AskedInv, AskedOK, Asked, Stream, InService,
                      Up, Established
  <2>5. NoticeInv'
    BY <1>0, <2>1 DEF netVars, srvVars, cliVars, NoticeInv, Notices, Listed, Up, OpenFds
  <2> QED BY <2>2, <2>3, <2>4, <2>5 DEF TalkInv
<1> QED BY <1>1, <1>2, <1>3, <1>4 DEF Next

LEMMA TalkAlways == Spec => [](IInv /\ TalkInv)
<1>1. Init => TalkInv
  BY TalkInit
<1> QED BY <1>1, TalkNext, InvAlways, PTL DEF Spec

LEMMA GoneNext == ASSUME NoIndexInGarbage PROVE IInv /\ TalkInv /\ GoneInv /\ [Next]_vars => GoneInv'
<1> SUFFICES ASSUME IInv, TalkInv, GoneInv, [Next]_vars PROVE GoneInv'
  OBVIOUS
<1>0. /\ NetTypeOK /\ SrvTypeOK /\ CliTypeOK /\ CountersOK /\ RegistryInv
      /\ PeerInv /\ LoopInv /\ StreamInv /\ RemovalInv /\ KnownInv
  BY DEF IInv, TypeOK, TalkInv, GoneInv
<1>1. CASE Server
  BY <1>0, <1>1, ServerRemoval, ServerKnown DEF GoneInv
<1>2. CASE Network \/ Peers
  <2>1. UNCHANGED <<pc, n, toRm, ptr, clients, fd>> /\ \A d \in Clients : open'[d] => open[d]
    BY <1>0, <1>2, OthersKeepFds, OthersClose DEF srvVars
  <2> QED BY <1>0, <1>2, <2>1, RemovalFrame, OthersKnown DEF GoneInv
<1>3. CASE UNCHANGED vars
  <2>1. UNCHANGED <<netVars, srvVars>>
    BY <1>3 DEF vars
  <2> QED BY <1>0, <2>1 DEF netVars, srvVars, GoneInv, RemovalInv, KnownInv, Gone, Listed, Up, OpenFds
<1> QED BY <1>1, <1>2, <1>3 DEF Next

-----------------------------------------------------------------------------
(* What follows. *)

LEMMA Conserved == IInv /\ TalkInv => RequestsConserved
<1> SUFFICES ASSUME IInv, TalkInv, NEW c \in Clients, Up, open[c], Established(c)
             PROVE  sent[c] = Answered(got[c]) \o Answered(down[c]) \o InService(c)
                                \o Only(in[c], Requests) \o Only(out[c], Requests)
  BY DEF RequestsConserved
<1>0. NetTypeOK /\ CliTypeOK /\ LoopInv
  BY DEF IInv, TypeOK, TalkInv
<1> DEFINE x == Answered(got[c]) \o Answered(down[c]) \o InService(c)
           p == Only(in[c], Requests)
           q == Only(out[c], Requests)
<1>1. in[c] \in Seq(UpSegments) /\ out[c] \in Seq(UpSegments)
  BY <1>0, StreamType
<1>2. Only(in[c] \o out[c], Requests) = p \o q
  BY <1>1, OnlyConcat
<1>3. p \in Seq(Requests) /\ q \in Seq(Requests)
  BY <1>1, OnlyType
<1>4. x \in Seq(Requests)
  <2> DEFINE a == Answered(got[c])
             b == Answered(down[c])
             v == InService(c)
  <2>1. a \in Seq(Requests) /\ b \in Seq(Requests) /\ v \in Seq(Requests)
    BY <1>0, AskedTypes
  <2> HIDE DEF a, b, v
  <2>2. a \o b \in Seq(Requests)
    BY <2>1, ConcatProperties
  <2> DEFINE ab == a \o b
  <2>3. ab \in Seq(Requests)
    BY <2>2
  <2> HIDE DEF ab
  <2>4. ab \o v \in Seq(Requests)
    BY <2>1, <2>3, ConcatProperties
  <2> QED BY <2>4 DEF ab, a, b, v
<1>5. sent[c] = x \o (p \o q)
  BY <1>2 DEF TalkInv, AskedInv, AskedOK, Asked, Stream
<1> HIDE DEF x, p, q
<1>6. (x \o p) \o q = x \o (p \o q)
  BY <1>3, <1>4, ConcatAssociative
<1>7. sent[c] = (x \o p) \o q
  BY <1>5, <1>6
<1> QED BY <1>7 DEF x, p, q

LEMMA NoErrors == IInv /\ TalkInv => NoErrorTraffic
<1> SUFFICES ASSUME IInv, TalkInv, NEW c \in Clients \ Talkers
             PROVE  "ERROR" \notin ToSet(in[c]) \cup ToSet(out[c]) \cup ToSet(down[c])
  BY DEF NoErrorTraffic
<1>0. NetTypeOK /\ StreamOK(c)
  BY DEF IInv, TypeOK, TalkInv, StreamInv
<1>1. in[c] \in Seq(UpSegments) /\ out[c] \in Seq(UpSegments) /\ down[c] \in Seq(DownMessages)
  BY <1>0, StreamType DEF NetTypeOK
<1>2. /\ \A i \in 1 .. Len(down[c]) : down[c][i] # "ERROR"
      /\ \A i \in 1 .. Len(in[c] \o out[c]) : (in[c] \o out[c])[i] # "ERROR"
  BY <1>0 DEF StreamOK, Stream, Plain, Requests
<1>3. ConcatAt(UpSegments)
  BY ConcatIsAt
<1>4. /\ Len(in[c] \o out[c]) = Len(in[c]) + Len(out[c])
      /\ \A i \in 1 .. Len(in[c]) + Len(out[c]) :
           (in[c] \o out[c])[i] = IF i <= Len(in[c]) THEN in[c][i] ELSE out[c][i - Len(in[c])]
  BY <1>1, <1>3, Zenon DEF ConcatAt
<1> DEFINE a == in[c]
           b == out[c]
           s == in[c] \o out[c]
<1>5. Len(a) \in Nat /\ Len(b) \in Nat /\ Len(s) = Len(a) + Len(b)
  BY <1>1, <1>4
<1>6. /\ \A i \in 1 .. Len(s) : s[i] # "ERROR"
      /\ \A i \in 1 .. Len(a) + Len(b) : s[i] = IF i <= Len(a) THEN a[i] ELSE b[i - Len(a)]
  BY <1>2, <1>4
<1> HIDE DEF a, b, s
<1>7. \A i \in 1 .. Len(a) : a[i] # "ERROR"
  BY <1>5, <1>6
<1>8. ASSUME NEW i \in 1 .. Len(b) PROVE b[i] # "ERROR"
  <2>1. Len(a) + i \in 1 .. Len(a) + Len(b) /\ ~(Len(a) + i <= Len(a)) /\ (Len(a) + i) - Len(a) = i
    BY <1>5
  <2> QED BY <1>5, <1>6, <2>1
<1>9. /\ DOMAIN in[c] = 1 .. Len(in[c]) /\ DOMAIN out[c] = 1 .. Len(out[c])
      /\ DOMAIN down[c] = 1 .. Len(down[c])
  BY <1>1
<1>10. "ERROR" \notin ToSet(in[c])
  BY <1>7, <1>9 DEF ToSet, a
<1>11. "ERROR" \notin ToSet(out[c])
  BY <1>8, <1>9 DEF ToSet, b
<1>12. "ERROR" \notin ToSet(down[c])
  BY <1>2, <1>9 DEF ToSet
<1> QED BY <1>10, <1>11, <1>12

\* All that a connected client ever asked is, in order, answered and read, on its
\* way back, being answered, or on its way to the server; and no CMD_ERROR is ever
\* sent to or by a TinyClient whose user types requests (Tools.c:5-52,
\* TinyClient.c:5-70), for any number of clients and messages and whatever the
\* slot behind t_idxToRm reads as.
THEOREM TalkInOrder == Spec => []TalkIsInOrder
<1>1. IInv /\ TalkInv => TalkIsInOrder
  BY Conserved, NoErrors DEF TalkIsInOrder
<1> QED BY <1>1, TalkAlways, PTL

\* Every registered client has been told of every client accepted after it, once
\* (ModuleManager.c:119-126), but for the one the loop has not reached.
THEOREM EverybodyToldOnce == Spec => []JoinsToldOnce
<1>1. IInv /\ TalkInv => JoinsToldOnce
  <2> DEFINE Owed(i) == IF pc = "join" /\ i <= n THEN 1 ELSE 0
  <2> SUFFICES ASSUME IInv, TalkInv, Steady, NEW i \in 0 .. clients.len - 1, open[fd[clients.buf[i]]]
               PROVE  Notices(fd[clients.buf[i]])
                        = Cardinality({g \in OpenFds : g > clients.buf[i]}) - Owed(i)
    BY DEF JoinsToldOnce
  <2>1. Up /\ i \in Listed
    BY DEF Steady, Listed
  <2>2. PICK k \in 0 .. MaxFd : OpenFds = 1 .. k
    BY <2>1 DEF IInv, RegistryInv
  <2>3. Notices(fd[clients.buf[i]]) = k - clients.buf[i] - Owed(i)
    BY <2>1, <2>2 DEF TalkInv, NoticeInv
  <2> HIDE DEF Owed
  <2>4. k \in Nat /\ clients.buf[i] \in 1 .. k
    BY <2>1, <2>2, NetAssumption DEF IInv, RegistryInv, NetAssumption
  <2> DEFINE f == clients.buf[i]
  <2>5. f \in 1 .. k
    BY <2>4
  <2> HIDE DEF f
  <2>6. {g \in OpenFds : g > f} = f + 1 .. k
    BY <2>2, <2>4, <2>5
  <2>7. Cardinality(f + 1 .. k) = k - f
    <3>1. f + 1 \in Int /\ k \in Int
      BY <2>4, <2>5
    <3>2. Cardinality(f + 1 .. k) = IF f + 1 > k THEN 0 ELSE k - (f + 1) + 1
      BY <3>1, FS_Interval
    <3> QED BY <2>4, <2>5, <3>2
  <2> QED BY <2>3, <2>6, <2>7 DEF f
<1> QED BY <1>1, TalkAlways, PTL

\* Only a client that has exited is taken off g_clients (Tools.c:58-86): a
\* descriptor that is open is listed, is the one being accepted, or its client has
\* closed.  The slot that is read behind the last of t_idxToRm must not hold an
\* index; nothing in the code sees to that.
THEOREM NobodyForgotten == ASSUME NoIndexInGarbage PROVE Spec => []NoLiveClientForgotten
<1>1. IInv /\ TalkInv /\ GoneInv => NoLiveClientForgotten
  <2> SUFFICES ASSUME KnownInv, Steady, NEW f \in OpenFds \ (Registered \cup {cSock})
               PROVE  ~open[fd[f]]
    BY DEF NoLiveClientForgotten, GoneInv
  <2>1. \A i \in Listed : clients.buf[i] # f
    BY DEF Registered, Listed
  <2> QED BY <2>1 DEF KnownInv, Steady
<1>2. Init => GoneInv
  BY TalkInit
<1>3. IInv /\ TalkInv /\ GoneInv /\ [Next]_vars => GoneInv'
  BY GoneNext
<1> QED BY <1>1, <1>2, <1>3, TalkAlways, PTL DEF Spec

-----------------------------------------------------------------------------
(* The errors under way. *)

ErrorsIn(s) == Len(Only(s, {"ERROR"}))

LEMMA ErrorsEnds ==
  ASSUME NEW T, NEW s \in Seq(T), NEW m \in T
  PROVE  /\ ErrorsIn(s) \in Nat /\ ErrorsIn(Append(s, m)) \in Nat
         /\ m # "ERROR" => ErrorsIn(Append(s, m)) = ErrorsIn(s)
         /\ m = "ERROR" => ErrorsIn(Append(s, m)) = ErrorsIn(s) + 1
<1> DEFINE o == Only(s, {"ERROR"})
<1>1. o \in Seq({"ERROR"})
  BY OnlyType
<1>2. Only(Append(s, m), {"ERROR"}) = IF m \in {"ERROR"} THEN Append(o, m) ELSE o
  BY OnlyAppend
<1> HIDE DEF o
<1>3. m = "ERROR" => Len(Append(o, m)) = Len(o) + 1
  BY <1>1
<1>4. Len(o) \in Nat
  BY <1>1
<1>5. ErrorsIn(s) = Len(o)
  BY DEF ErrorsIn, o
<1>6. ErrorsIn(Append(s, m)) = IF m \in {"ERROR"} THEN Len(Append(o, m)) ELSE Len(o)
  BY <1>2 DEF ErrorsIn
<1> QED BY <1>3, <1>4, <1>5, <1>6

LEMMA ErrorsConcat ==
  ASSUME NEW T, NEW s \in Seq(T), NEW t \in Seq(T)
  PROVE  ErrorsIn(s) \in Nat /\ ErrorsIn(t) \in Nat /\ ErrorsIn(s \o t) = ErrorsIn(s) + ErrorsIn(t)
<1> DEFINE o == Only(s, {"ERROR"})
           p == Only(t, {"ERROR"})
<1>1. o \in Seq({"ERROR"}) /\ p \in Seq({"ERROR"})
  BY OnlyType
<1>2. Only(s \o t, {"ERROR"}) = o \o p
  BY OnlyConcat
<1> HIDE DEF o, p
<1>3. Len(o \o p) = Len(o) + Len(p)
  BY <1>1, ConcatProperties
<1> QED BY <1>1, <1>2, <1>3 DEF ErrorsIn, o, p

LEMMA ErrorsFront ==
  ASSUME NEW T, NEW s \in Seq(T), s # <<>>
  PROVE  /\ ErrorsIn(Tail(s)) \in Nat
         /\ s[1] # "ERROR" => ErrorsIn(s) = ErrorsIn(Tail(s))
         /\ s[1] = "ERROR" => ErrorsIn(s) = ErrorsIn(Tail(s)) + 1
<1> DEFINE h == <<Head(s)>>
           t == Tail(s)
           e == <<>>
<1>1. h \in Seq(T) /\ t \in Seq(T) /\ h \o t = s /\ Head(s) = s[1] /\ Head(s) \in T
      /\ e \in Seq(T) /\ Append(e, Head(s)) = h
  BY HeadTailProperties
<1> HIDE DEF t, e
<1>2. ErrorsIn(e) = 0
  BY OnlyEmpty DEF ErrorsIn, e
<1>3. /\ Head(s) # "ERROR" => ErrorsIn(Append(e, Head(s))) = ErrorsIn(e)
      /\ Head(s) = "ERROR" => ErrorsIn(Append(e, Head(s))) = ErrorsIn(e) + 1
  BY <1>1, ErrorsEnds
<1> HIDE DEF h
<1>4. ErrorsIn(t) \in Nat /\ ErrorsIn(h \o t) = ErrorsIn(h) + ErrorsIn(t)
  BY <1>1, ErrorsConcat
<1>5. ErrorsIn(s) = ErrorsIn(h) + ErrorsIn(t)
  <2>1. h \o t = s
    BY <1>1
  <2> QED BY <1>4, <2>1
<1>6. /\ Head(s) # "ERROR" => ErrorsIn(h) = ErrorsIn(e)
      /\ Head(s) = "ERROR" => ErrorsIn(h) = ErrorsIn(e) + 1
  <2>1. Append(e, Head(s)) = h
    BY <1>1
  <2> QED BY <1>3, <2>1
<1>7. ErrorsIn(t) \in Nat
  BY <1>4
<1>8. s[1] = Head(s)
  BY <1>1
<1> DEFINE x == ErrorsIn(s)
           y == ErrorsIn(h)
           z == ErrorsIn(t)
           k == Head(s)
           f == s[1]
<1>9. /\ x = y + z /\ z \in Nat /\ f = k
      /\ k # "ERROR" => y = 0
      /\ k = "ERROR" => y = 0 + 1
  BY <1>2, <1>5, <1>6, <1>7, <1>8
<1> HIDE DEF x, y, z, k, f
<1>10. z \in Nat /\ (f # "ERROR" => x = z) /\ (f = "ERROR" => x = z + 1)
  BY <1>9
<1> QED BY <1>10 DEF x, z, f, t

\* What is under way is in the stream and among the answers.
LEMMA ErrorsParts ==
  ASSUME NEW s \in Seq(UpSegments), NEW d \in Seq(DownMessages)
  PROVE  /\ ErrorsIn(s \o d) = ErrorsIn(s) + ErrorsIn(d)
         /\ ErrorsIn(s) \in Nat /\ ErrorsIn(d) \in Nat
<1> DEFINE M == UpSegments \cup DownMessages
<1>1. s \in Seq(M) /\ d \in Seq(M)
  <2>1. UpSegments \subseteq M /\ DownMessages \subseteq M
    OBVIOUS
  <2> HIDE DEF M
  <2> QED BY <2>1, SeqMonotonic
<1> HIDE DEF M
<1> QED BY <1>1, ErrorsConcat

\* More errors among the answers than fewer in the stream, or the other way round.
LEMMA ErrorsKept ==
  ASSUME NetTypeOK, NetTypeOK', NEW c \in Clients,
         ErrorsIn(Stream(c)') + ErrorsIn(down'[c]) >= ErrorsIn(Stream(c)) + ErrorsIn(down[c])
  PROVE  Errors(c)' >= Errors(c)
<1>1. Stream(c) \in Seq(UpSegments) /\ down[c] \in Seq(DownMessages)
  BY StreamType DEF NetTypeOK
<1>2. Stream(c)' \in Seq(UpSegments) /\ down'[c] \in Seq(DownMessages)
  <2>1. in'[c] \in Seq(UpSegments) /\ out'[c] \in Seq(UpSegments) /\ down'[c] \in Seq(DownMessages)
    BY DEF NetTypeOK
  <2> QED BY <2>1, ConcatProperties DEF Stream
<1>3. Errors(c) = ErrorsIn(Stream(c) \o down[c]) /\ Errors(c)' = ErrorsIn(Stream(c)' \o down'[c])
  BY DEF Errors, ErrorsIn, Stream
<1>4. ErrorsIn(Stream(c) \o down[c]) = ErrorsIn(Stream(c)) + ErrorsIn(down[c])
  BY <1>1, ErrorsParts
<1>5. ErrorsIn(Stream(c)' \o down'[c]) = ErrorsIn(Stream(c)') + ErrorsIn(down'[c])
  BY <1>2, ErrorsParts
<1> QED BY <1>3, <1>4, <1>5

LEMMA PeersErrors ==
  ASSUME NetTypeOK, NetTypeOK', CliTypeOK, PeerInv, Up, Peers, NEW c \in Clients, open'[c]
  PROVE  Errors(c)' >= Errors(c)
<1>0. /\ Stream(c) \in Seq(UpSegments) /\ down[c] \in Seq(DownMessages)
      /\ ErrorsIn(Stream(c)) \in Nat /\ ErrorsIn(down[c]) \in Nat
  BY StreamType, ErrorsParts DEF NetTypeOK
<1>1. PICK d \in Clients :
        \/ Connect(d, Up)
        \/ Quiet(d) \/ (\E cmd : Says(d, cmd)) \/ Hears(d) \/ Goes(d)
  BY PeersSteps
<1>a. ASSUME in'[c] = in[c], out'[c] = out[c], down'[c] = down[c] PROVE Errors(c)' >= Errors(c)
  <2>1. Stream(c)' = Stream(c)
    BY <1>a DEF Stream
  <2> QED BY <1>0, <1>a, <2>1, ErrorsKept
<1>2. CASE Connect(d, Up) \/ Quiet(d)
  BY <1>a, <1>2 DEF Connect, ConnectOk, Quiet, netVars
<1>3. CASE d # c
  <2>1. in'[c] = in[c] /\ out'[c] = out[c]
    BY <1>1, <1>3, ZenonT(40) DEF Connect, ConnectOk, Quiet, netVars, Says, Hears, Consume, Goes, ClientSend,
                      ClientClose, NetTypeOK
  <2>2. down'[c] = down[c]
    BY <1>1, <1>3 DEF Connect, ConnectOk, Quiet, netVars, Says, Hears, Consume, Goes, ClientSend,
                      ClientClose, NetTypeOK
  <2> QED BY <1>a, <2>1, <2>2
<1>4. CASE d = c /\ Goes(d)
  BY <1>4 DEF Goes, ClientClose, NetTypeOK
<1>b. ASSUME NEW cmd \in Requests \cup {"ERROR"}, ClientSend(c, cmd), Established(c)
      PROVE  /\ ErrorsIn(Stream(c)') \in Nat /\ ErrorsIn(Stream(c)') >= ErrorsIn(Stream(c))
             /\ cmd = "ERROR" => ErrorsIn(Stream(c)') = ErrorsIn(Stream(c)) + 1
  <2>1. Stream(c)' = Stream(c) \o Segments(cmd) /\ Segments(cmd) \in Seq(UpSegments)
    BY <1>b, StreamSent, SegmentsType
  <2> DEFINE s == Stream(c)
             g == Segments(cmd)
  <2>2. s \in Seq(UpSegments) /\ g \in Seq(UpSegments)
    BY <1>0, <2>1
  <2> HIDE DEF s, g
  <2>3. ErrorsIn(g) \in Nat /\ ErrorsIn(s) \in Nat /\ ErrorsIn(s \o g) = ErrorsIn(s) + ErrorsIn(g)
    BY <2>2, ErrorsConcat
  <2>4. cmd = "ERROR" => ErrorsIn(g) = 1
    <3> SUFFICES ASSUME cmd = "ERROR" PROVE ErrorsIn(g) = 1
      OBVIOUS
    <3>1. g = <<"ERROR">>
      BY DEF g, Segments, HasBody
    <3>2. Only(<<"ERROR">>, {"ERROR"}) = <<"ERROR">>
      BY OnlySingle
    <3> QED BY <3>1, <3>2 DEF ErrorsIn
  <2>5. ErrorsIn(Stream(c)') = ErrorsIn(s) + ErrorsIn(g)
    BY <2>1, <2>3 DEF s, g
  <2> QED BY <2>3, <2>4, <2>5 DEF s
<1>5. CASE d = c /\ \E cmd : Says(d, cmd)
  <2>1. PICK cmd : Says(c, cmd)
    BY <1>5
  <2>2. cmd \in Requests \cup {"ERROR"} /\ ClientSend(c, cmd) /\ Established(c) /\ UNCHANGED down
    BY <2>1 DEF Says
  <2>3. ErrorsIn(Stream(c)') \in Nat /\ ErrorsIn(Stream(c)') >= ErrorsIn(Stream(c))
    BY <1>b, <2>2
  <2> QED BY <1>0, <2>2, <2>3, ErrorsKept
<1>6. CASE d = c /\ Hears(d)
  <2>1. /\ down[c] # <<>> /\ Head(down[c]) # "FIN" /\ down'[c] = Tail(down[c])
        /\ IF Head(down[c]) \in Understood THEN UNCHANGED <<in, out>> ELSE ClientSend(c, "ERROR")
    BY <1>6 DEF Hears, Consume, NetTypeOK
  <2>2. Head(down[c]) = down[c][1] /\ Head(down[c]) \in DownMessages
    BY <1>0, <2>1
  <2>3. Established(c)
    <3>1. link[c] \notin {"idle", "queued", "down"}
      BY <2>1 DEF PeerInv
    <3> QED BY <3>1 DEF Established, NetTypeOK
  <2>4. /\ ErrorsIn(Tail(down[c])) \in Nat
        /\ down[c][1] # "ERROR" => ErrorsIn(down[c]) = ErrorsIn(Tail(down[c]))
        /\ down[c][1] = "ERROR" => ErrorsIn(down[c]) = ErrorsIn(Tail(down[c])) + 1
    BY <1>0, <2>1, ErrorsFront
  <2>5. CASE Head(down[c]) \in Understood
    <3>1. Head(down[c]) # "ERROR" /\ Stream(c)' = Stream(c)
      BY <2>1, <2>5 DEF Understood, Results, Stream
    <3> QED BY <1>0, <2>1, <2>2, <2>4, <3>1, ErrorsKept
  <2>6. CASE Head(down[c]) \notin Understood
    <3>1. Head(down[c]) = "ERROR"
      BY <2>1, <2>2, <2>6 DEF Understood, Results, DownMessages
    <3>2. ErrorsIn(Stream(c)') = ErrorsIn(Stream(c)) + 1
      BY <1>b, <2>1, <2>3, <2>6
    <3>3. ErrorsIn(down[c]) = ErrorsIn(down'[c]) + 1 /\ ErrorsIn(down'[c]) \in Nat
      BY <2>1, <2>2, <2>4, <3>1
    <3> QED BY <1>0, <3>2, <3>3, ErrorsKept
  <2> QED BY <2>5, <2>6
<1> QED BY <1>1, <1>2, <1>3, <1>4, <1>5, <1>6

LEMMA SameErrors ==
  ASSUME NetTypeOK, NetTypeOK', NEW c \in Clients, Stream(c)' = Stream(c), down'[c] = down[c]
  PROVE  Errors(c)' >= Errors(c)
<1>1. /\ Stream(c) \in Seq(UpSegments) /\ down[c] \in Seq(DownMessages)
      /\ ErrorsIn(Stream(c)) \in Nat /\ ErrorsIn(down[c]) \in Nat
  BY StreamType, ErrorsParts DEF NetTypeOK
<1> QED BY <1>1, ErrorsKept

\* The server takes no error that it does not answer with one.
LEMMA TakeErrors ==
  ASSUME NetTypeOK, NetTypeOK', StreamInv, NEW c \in Clients, AtSlot(c), in[c] # <<>>, open[c],
         SeesEnd(c) \/ TakesHeader(c) \/ Refuses(c) \/ TakesBody(c)
  PROVE  Errors(c)' >= Errors(c)
<1> DEFINE s == Stream(c)
           t == Stream(c)'
           d == down[c]
           e == down'[c]
<1>1. /\ s \in Seq(UpSegments) /\ s # <<>> /\ s[1] = in[c][1]
      /\ Tail(in[c]) \o out[c] = Tail(s)
  <2>1. in[c] \in Seq(UpSegments) /\ out[c] \in Seq(UpSegments)
    BY StreamType
  <2> QED BY <2>1, ConcatFront DEF Stream
<1>2. /\ in'[c] = in[c] => t = s
      /\ in'[c] = Tail(in[c]) => t = Tail(s)
  BY <1>1 DEF AtSlot, Stream
<1>3. d \in Seq(DownMessages)
  BY DEF NetTypeOK
<1>4. Orderly(s, Serving(c))
  BY DEF StreamInv, StreamOK
<1>5. ASSUME ErrorsIn(t) + ErrorsIn(e) >= ErrorsIn(s) + ErrorsIn(d) PROVE Errors(c)' >= Errors(c)
  BY <1>5, ErrorsKept
<1> HIDE DEF s, t, d, e
<1>6. /\ ErrorsIn(s) \in Nat /\ ErrorsIn(d) \in Nat
  BY <1>1, <1>3, ErrorsParts
<1>7. /\ ErrorsIn(Tail(s)) \in Nat
      /\ s[1] # "ERROR" => ErrorsIn(s) = ErrorsIn(Tail(s))
      /\ s[1] = "ERROR" => ErrorsIn(s) = ErrorsIn(Tail(s)) + 1
  BY <1>1, ErrorsFront
<1>8. ASSUME NEW m \in DownMessages
      PROVE  /\ ErrorsIn(Append(d, m)) \in Nat
             /\ m # "ERROR" => ErrorsIn(Append(d, m)) = ErrorsIn(d)
             /\ m = "ERROR" => ErrorsIn(Append(d, m)) = ErrorsIn(d) + 1
  BY <1>3, ErrorsEnds
<1>9. ASSUME NEW m, Replies(c, m) PROVE e = Append(d, m)
  BY <1>9 DEF Replies, NetTypeOK, d, e
<1>10. CASE SeesEnd(c)
  <2>1. in'[c] = in[c] /\ e = d
    BY <1>10 DEF SeesEnd, d, e
  <2>2. t = s
    BY <1>2, <2>1
  <2> QED BY <1>5, <1>6, <2>1, <2>2
<1>11. CASE TakesHeader(c)
  <2>1. in'[c] = Tail(in[c]) /\ e = d /\ s[1] \in Requests
    BY <1>1, <1>11 DEF TakesHeader, NetTypeOK, d, e
  <2>2. t = Tail(s) /\ s[1] # "ERROR"
    BY <1>2, <2>1 DEF Requests
  <2> QED BY <1>5, <1>6, <1>7, <2>1, <2>2
<1>12. CASE Refuses(c)
  <2>1. in'[c] = Tail(in[c]) /\ Replies(c, "ERROR")
    BY <1>12 DEF Refuses, NetTypeOK
  <2>2. t = Tail(s) /\ e = Append(d, "ERROR")
    BY <1>2, <1>9, <2>1
  <2>3. ErrorsIn(e) = ErrorsIn(d) + 1
    BY <1>8, <2>2 DEF DownMessages
  <2>4. ErrorsIn(t) + 1 >= ErrorsIn(s) /\ ErrorsIn(t) \in Nat
    BY <1>7, <1>6, <2>2
  <2> QED BY <1>5, <1>6, <2>3, <2>4
<1>13. CASE TakesBody(c)
  <2>1. Replies(c, ResultOf(cur)) /\ ResultOf(cur) \in DownMessages /\ ResultOf(cur) # "ERROR"
    BY <1>13 DEF TakesBody, ResultOf, DownMessages, Results
  <2>2. ErrorsIn(e) = ErrorsIn(d)
    <3>1. e = Append(d, ResultOf(cur))
      BY <1>9, <2>1
    <3>2. ErrorsIn(Append(d, ResultOf(cur))) = ErrorsIn(d)
      BY <1>8, <2>1
    <3> QED BY <3>1, <3>2
  <2>3. Serving(c)
    BY <1>13 DEF TakesBody, Serving, AtSlot
  <2>4. s[1] \in {"BODY", "FIN"}
    BY <1>4, <2>3 DEF Orderly
  <2>5. t = s \/ t = Tail(s)
    <3>1. in'[c] = in[c] \/ in'[c] = Tail(in[c])
      BY <1>13 DEF TakesBody, NetTypeOK
    <3> QED BY <1>2, <3>1
  <2>6. ErrorsIn(t) = ErrorsIn(s)
    BY <1>7, <2>4, <2>5
  <2> QED BY <1>5, <1>6, <2>2, <2>6
<1> QED BY <1>10, <1>11, <1>12, <1>13

LEMMA ServerErrors ==
  ASSUME NetTypeOK, NetTypeOK', SrvTypeOK, CountersOK, RegistryInv, LoopInv, StreamInv, Server,
         Up', NEW c \in Clients, open[c]
  PROVE  Errors(c)' >= Errors(c)
<1>0. SrvNext
  BY DEF Server
<1>1. ASSUME in'[c] = in[c], out'[c] = out[c], down'[c] = down[c] PROVE Errors(c)' >= Errors(c)
  <2>1. Stream(c)' = Stream(c)
    BY <1>1 DEF Stream
  <2> QED BY <1>1, <2>1, SameErrors
<1>2. ~Ends
  BY DEF Ends
<1>3. ASSUME NEW k \in 0 .. MaxFd, Accepts(k) PROVE Errors(c)' >= Errors(c)
  BY <1>1, <1>3 DEF Accepts
<1>4. CASE JoinSend /\ ~Killed
  <2>1. PICK d \in Clients : AtSlot(d) /\ Tells(d)
    BY <1>4, JoinSteps
  <2>2. Stream(c)' = Stream(c)
    BY <2>1 DEF AtSlot, Tells, Stream
  <2>3. CASE down'[c] = down[c]
    BY <2>2, <2>3, SameErrors
  <2>4. CASE down'[c] # down[c]
    <3>1. down'[c] = Append(down[c], "NEW_USER_JOIN")
      BY <2>1, <2>4 DEF Tells, NetTypeOK
    <3>2. /\ Stream(c) \in Seq(UpSegments) /\ down[c] \in Seq(DownMessages)
          /\ ErrorsIn(Stream(c)) \in Nat /\ ErrorsIn(down[c]) \in Nat
      BY StreamType, ErrorsParts DEF NetTypeOK
    <3>3. ErrorsIn(Append(down[c], "NEW_USER_JOIN")) = ErrorsIn(down[c])
      <4>1. "NEW_USER_JOIN" \in DownMessages /\ "NEW_USER_JOIN" # "ERROR"
        BY DEF DownMessages
      <4> QED BY <3>2, <4>1, ErrorsEnds
    <3>4. ErrorsIn(Stream(c)') = ErrorsIn(Stream(c)) /\ ErrorsIn(down'[c]) = ErrorsIn(down[c])
      BY <2>2, <3>1, <3>3
    <3>5. ErrorsIn(Stream(c)') + ErrorsIn(down'[c]) >= ErrorsIn(Stream(c)) + ErrorsIn(down[c])
      BY <3>2, <3>4
    <3> QED BY <3>5, ErrorsKept
  <2> QED BY <2>3, <2>4
<1>5. CASE (ReadHeader \/ ReadBody) /\ ~Killed
  <2>1. PICK d \in Clients : /\ AtSlot(d) /\ in[d] # <<>>
                             /\ SeesEnd(d) \/ TakesHeader(d) \/ Refuses(d) \/ TakesBody(d)
    BY <1>5, ReadSteps
  <2>2. CASE d = c
    BY <2>1, <2>2, TakeErrors
  <2>3. CASE d # c
    <3>1. in'[c] = in[c] /\ down'[c] = down[c]
      BY <2>1, <2>3, ZenonT(40) DEF SeesEnd, TakesHeader, Refuses, TakesBody, Replies, NetTypeOK
    <3>2. out'[c] = out[c]
      BY <2>1 DEF AtSlot
    <3> QED BY <1>1, <3>1, <3>2
  <2> QED BY <2>2, <2>3
<1>6. CASE Within
  BY <1>1, <1>6 DEF Within, netVars
<1> QED BY <1>0, <1>2, <1>3, <1>4, <1>5, <1>6, ServerSteps

\* Errors are answered with errors, in every state of the talk (Tools.c:44-50,
\* TinyClient.c:62-68).
THEOREM ErrorsLiveOn == Spec => ErrorsNeverDieOut
<1>1. ASSUME IInv, TalkInv, IInv', Next, Up, Up', NEW c \in Clients, open[c], open'[c]
      PROVE  Errors(c)' >= Errors(c)
  <2>0. /\ NetTypeOK /\ SrvTypeOK /\ CliTypeOK /\ CountersOK /\ RegistryInv
        /\ PeerInv /\ LoopInv /\ StreamInv /\ NetTypeOK'
    BY <1>1 DEF IInv, TypeOK, TalkInv
  <2>1. CASE Server
    BY <1>1, <2>0, <2>1, ServerErrors
  <2>2. CASE Network
    <3>1. Stream(c)' = Stream(c) /\ UNCHANGED down
      BY <2>0, <2>2, NetworkSame
    <3> QED BY <2>0, <3>1, SameErrors
  <2>3. CASE Peers
    BY <1>1, <2>0, <2>3, PeersErrors
  <2> QED BY <1>1, <2>1, <2>2, <2>3 DEF Next
<1>2. IInv /\ TalkInv /\ IInv' /\ [Next]_vars =>
        [\A c \in Clients : (Up /\ Up' /\ open[c] /\ open'[c]) => Errors(c)' >= Errors(c)]_vars
  BY <1>1
<1>3. Spec => [](IInv /\ TalkInv)
  BY TalkAlways
<1> QED BY <1>2, <1>3, PTL DEF Spec, ErrorsNeverDieOut
=============================================================================
