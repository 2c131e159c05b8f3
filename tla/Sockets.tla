------------------------------ MODULE Sockets ------------------------------
(***************************************************************************)
(* components/source/sysapi/socket.c: the calls that wait: connecting and  *)
(* accepting, with a time limit and without, sending and receiving until   *)
(* all is done; and socketPair as Windows has it.                          *)
(*                                                                         *)
(* A connector and acceptors share one listening socket; a writer and a    *)
(* reader share an established connection, whose bytes are numbered.  The  *)
(* network answers, or not; any wait may be interrupted by a signal.       *)
(***************************************************************************)
EXTENDS Integers, Sequences, FiniteSets

CONSTANTS Acceptors,
          Backlog,              \* of listen
          SockLens, SockMax,    \* lengths of buffers; bound on the bytes sent
          PairFds, NoSockfd     \* descriptors, enough for socketPair; INVALID_SOCKET

ASSUME SocketsAssumption == SockLens \subseteq Nat

VARIABLES connAt,               \* "out" | "select" | "check" | "done"
          sockfd,               \* "none" | "open" | "closed"
          nonBlock,             \* its mode, which is blocking when it is FALSE
          valid, interrupted,   \* it was returned; select failed
          link,                 \* "none" | "syn" | "up" | "refused"
          backlog,              \* connections nobody has accepted
          listenNonBlock,
          acceptAt,             \* "out" | "accept" | "poll" | "polled" | "timed"
          wn, toSend,           \* socketTcpWriteAll: done of nbytes; 0 of 0 outside
          rn, toRead,           \* socketTcpReadAll
          sentBefore,           \* observed: what earlier calls said they sent
          flight, received,     \* bytes on their way; observed: bytes read
          pairAt, pairType,     \* socketPair: the next call; "stream" | "datagram"
          pair,                 \* sockfd[0] and sockfd[1]
          pairOpen, peer        \* the open descriptors; where what they send arrives

connVars == <<connAt, sockfd, nonBlock, valid, interrupted, link>>
acceptVars == <<listenNonBlock, acceptAt>>
byteVars == <<wn, toSend, rn, toRead, sentBefore, flight, received>>
pairVars == <<pairAt, pairType, pair, pairOpen, peer>>
sockVars == <<connVars, backlog, acceptVars, byteVars, pairVars>>

SockInit == /\ connAt = "out" /\ sockfd = "none" /\ nonBlock = FALSE
            /\ valid = FALSE /\ interrupted = FALSE /\ link = "none"
            /\ backlog = 0 /\ listenNonBlock = FALSE
            /\ acceptAt = [t \in Acceptors |-> "out"]
            /\ wn = 0 /\ toSend = 0 /\ rn = 0 /\ toRead = 0 /\ sentBefore = 0
            /\ flight = <<>> /\ received = <<>>
            /\ pairAt = "out" /\ pairType = "stream" /\ pair = <<NoSockfd, NoSockfd>>
            /\ pairOpen = {} /\ peer = [f \in PairFds |-> NoSockfd]

-----------------------------------------------------------------------------
\* socketTcpConnect

LinkUp == link' = "up" /\ backlog < Backlog /\ backlog' = backlog + 1

Connect ==
  /\ connAt = "out" /\ interrupted' = FALSE
  /\ \/ /\ sockfd' = "open" /\ connAt' = "done" /\ valid' = TRUE /\ nonBlock' = FALSE
        /\ LinkUp
     \/ /\ sockfd' \in {"none", "closed"} /\ connAt' = "done" /\ valid' = FALSE
        /\ nonBlock' \in BOOLEAN /\ link' = "none" /\ UNCHANGED backlog
     \/ /\ nonBlock' = TRUE /\ sockfd' = "open" /\ connAt' = "select" /\ valid' = FALSE
        /\ link' = "syn" /\ UNCHANGED backlog
  /\ UNCHANGED acceptVars

NetworkAnswers ==
  /\ link = "syn" /\ sockfd = "open"
  /\ \/ LinkUp
     \/ link' = "refused" /\ UNCHANGED backlog
  /\ UNCHANGED <<connAt, sockfd, nonBlock, valid, interrupted, acceptVars>>

\* Mutant: a connection that takes too long is given up, and the socket is kept.
GivesUpKeeps == connAt' = "done" /\ valid' = FALSE /\ UNCHANGED sockfd

GivesUp == connAt' = "done" /\ valid' = FALSE /\ sockfd' = "closed"

\* select returns for lack of time, for the socket, or with an error; an error
\* leaves the sets as they were, so the socket is looked at all the same.
Select ==
  /\ connAt = "select"
  /\ \/ GivesUp /\ UNCHANGED interrupted
     \/ /\ connAt' = "check" /\ interrupted' = (link = "syn")
        /\ UNCHANGED <<valid, sockfd>>
  /\ UNCHANGED <<nonBlock, link, backlog, acceptVars>>

\* getsockopt(SO_ERROR), and back to the blocking mode.
CheckError ==
  /\ connAt = "check"
  /\ IF link = "refused"
       THEN GivesUp /\ UNCHANGED nonBlock
       ELSE connAt' = "done" /\ valid' = TRUE /\ nonBlock' = FALSE /\ UNCHANGED sockfd
  /\ UNCHANGED <<interrupted, link, backlog, acceptVars>>

\* The caller is done with what it got.
CloseSocket ==
  /\ connAt = "done" /\ connAt' = "out" /\ sockfd' = "none" /\ link' = "none"
  /\ valid' = FALSE /\ nonBlock' = FALSE /\ interrupted' = FALSE
  /\ UNCHANGED <<backlog, acceptVars>>

-----------------------------------------------------------------------------
\* socketTcpAccept

AcceptGo(t, from, to) == acceptAt[t] = from /\ acceptAt' = [acceptAt EXCEPT ![t] = to]

\* accept itself: it waits unless the socket is non-blocking.  (Without a time
\* limit it is called again after an interruption.)
Accepts(t) ==
  /\ AcceptGo(t, "accept", "out") \/ AcceptGo(t, "timed", "out")
  /\ \/ backlog > 0 /\ backlog' = backlog - 1
     \/ backlog = 0 /\ listenNonBlock /\ UNCHANGED backlog
  /\ UNCHANGED <<connVars, listenNonBlock>>

\* poll may find a connection, or not; its failure ends the call.
Accept(t) ==
  /\ \/ AcceptGo(t, "out", "accept") \/ AcceptGo(t, "out", "poll")
     \/ AcceptGo(t, "poll", "polled") \/ AcceptGo(t, "poll", "out")
  /\ UNCHANGED <<connVars, backlog, listenNonBlock>>

\* socketNonBlock.  Mutant: only if poll found nothing.
UnblockedLess == listenNonBlock' = (listenNonBlock \/ backlog = 0)

Unblocked == listenNonBlock' = TRUE

AcceptUnblocks(t) == /\ AcceptGo(t, "polled", "timed") /\ Unblocked
                     /\ UNCHANGED <<connVars, backlog>>

\* A client goes away before it was accepted.
ClientLeaves == /\ backlog > 0 /\ backlog' = backlog - 1
                /\ UNCHANGED <<connVars, acceptVars>>

-----------------------------------------------------------------------------
\* socketTcpWriteAll and socketTcpReadAll

\* Mutant: what is left is not counted down.
LeftToSendAll == toSend

LeftToSend == toSend - wn

WriteAll ==
  /\ toSend = 0 /\ toSend' \in SockLens /\ sentBefore + toSend' <= SockMax
  /\ UNCHANGED <<wn, rn, toRead, sentBefore, flight, received>>

\* send takes some of it.
WriteSome ==
  \E k \in 1 .. LeftToSend :
    /\ wn < toSend /\ wn' = wn + k
    /\ flight' = flight \o [i \in 1 .. k |-> sentBefore + wn + i]
    /\ UNCHANGED <<toSend, rn, toRead, sentBefore, received>>

\* All is sent; or send fails, and the caller, told how far it came, goes on there.
WriteReturns ==
  /\ toSend > 0
  /\ sentBefore' = sentBefore + (IF wn < toSend THEN wn ELSE toSend)
  /\ toSend' = 0 /\ wn' = 0
  /\ UNCHANGED <<rn, toRead, flight, received>>

ReadAll ==
  /\ toRead = 0 /\ toRead' \in SockLens
  /\ UNCHANGED <<wn, toSend, rn, sentBefore, flight, received>>

ReadSome ==
  \E k \in 1 .. toRead - rn :
    /\ k <= Len(flight) /\ rn' = rn + k
    /\ received' = received \o SubSeq(flight, 1, k)
    /\ flight' = SubSeq(flight, k + 1, Len(flight))
    /\ UNCHANGED <<wn, toSend, toRead, sentBefore>>

\* All is there, or it ends early: an interruption, the end of the stream.
ReadReturns ==
  /\ toRead > 0 /\ toRead' = 0 /\ rn' = 0
  /\ UNCHANGED <<wn, toSend, sentBefore, flight, received>>

-----------------------------------------------------------------------------
\* socketPair

SocketPair ==
  /\ pairAt = "out" /\ pairAt' = "first" /\ pairType' \in {"stream", "datagram"}
  /\ pair' = <<NoSockfd, NoSockfd>> /\ peer' = [f \in PairFds |-> NoSockfd]
  /\ UNCHANGED pairOpen

PairGoes(from, to) == pairAt = from /\ pairAt' = to

NewSocket(f) == f \in PairFds \ pairOpen

Joined(f, g) == [peer EXCEPT ![f] = g, ![g] = f]

\* Mutant: the listening socket stays open.
AcceptedToo(f) == pairOpen' = pairOpen \cup {f}

\* The accepted socket takes the place of the listening one.
Accepted(f) == pairOpen' = (pairOpen \ {pair[1]}) \cup {f}

\* Two sockets; a stream's first listens, and the second connects to it; those of
\* datagrams connect to each other.
PairStep ==
  /\ \/ \E i \in 1 .. 2, f \in PairFds :
          /\ PairGoes(<<"first", "second">>[i], <<"second", "names">>[i])
          /\ NewSocket(f) /\ pairOpen' = pairOpen \cup {f} /\ pair' = [pair EXCEPT ![i] = f]
          /\ UNCHANGED peer
     \/ /\ PairGoes("names", "connect") /\ UNCHANGED <<pairOpen, pair>>
        /\ peer' = IF pairType = "stream" THEN peer ELSE [peer EXCEPT ![pair[1]] = pair[2]]
     \/ /\ PairGoes("connect", IF pairType = "stream" THEN "accept" ELSE "done")
        /\ peer' = [peer EXCEPT ![pair[2]] = pair[1]] /\ UNCHANGED <<pairOpen, pair>>
     \/ \E f \in PairFds :
          /\ PairGoes("accept", "options") /\ NewSocket(f) /\ Accepted(f)
          /\ pair' = <<f, pair[2]>> /\ peer' = Joined(f, pair[2])
     \/ PairGoes("options", "done") /\ UNCHANGED <<pairOpen, pair, peer>>
  /\ UNCHANGED pairType

\* Any of the calls may fail: whichever socket there is is closed.
PairFails ==
  /\ pairAt \notin {"out", "done", "failed"} /\ pairAt' = "failed"
  /\ pairOpen' = {f \in pairOpen : f # pair[1] /\ f # pair[2]}
  /\ UNCHANGED <<pairType, pair, peer>>

\* The caller closes what it got.
PairClosed ==
  /\ pairAt \in {"done", "failed"} /\ pairAt' = "out"
  /\ pairOpen' = IF pairAt = "done" THEN pairOpen \ {pair[1], pair[2]} ELSE pairOpen
  /\ UNCHANGED <<pairType, pair, peer>>

-----------------------------------------------------------------------------
ConnNext == /\ \/ Connect \/ NetworkAnswers \/ Select \/ CheckError \/ CloseSocket
               \/ \E t \in Acceptors : Accept(t) \/ AcceptUnblocks(t) \/ Accepts(t)
               \/ ClientLeaves
            /\ UNCHANGED <<byteVars, pairVars>>

ByteNext == /\ \/ WriteAll \/ WriteSome \/ WriteReturns
               \/ ReadAll \/ ReadSome \/ ReadReturns
            /\ UNCHANGED <<connVars, backlog, acceptVars, pairVars>>

PairNext == /\ SocketPair \/ PairStep \/ PairFails \/ PairClosed
            /\ UNCHANGED <<connVars, backlog, acceptVars, byteVars>>

SockSpec == SockInit /\ [][ConnNext \/ ByteNext \/ PairNext]_sockVars

-----------------------------------------------------------------------------
\* Calls with a time limit leave nothing behind.  A socket that connect returns is
\* open, connected and blocking again, and otherwise there is none left open,
\* whenever the answer comes; unless select failed before it came, when a socket
\* that is still connecting is returned (socket.c:755-770).  A timed accept never
\* waits in accept, even if the connection that poll found has gone, or another
\* thread has taken it (socket.c:846-854).
TimedCallsKeepTheirWord ==
  /\ connAt = "done" =>
       /\ valid => sockfd = "open" /\ ~nonBlock /\ (link = "up" \/ interrupted)
       /\ ~valid => sockfd # "open"
  /\ \A t \in Acceptors : acceptAt[t] = "timed" => backlog > 0 \/ listenNonBlock

\* Whichever call fails, socketPair leaves no socket open; when it succeeds there
\* are two, and each arrives at the other (socket.c:859-926).
PairIsWhole ==
  /\ pairAt \in {"out", "failed"} => pairOpen = {}
  /\ pairAt = "done" => /\ pairOpen = {pair[1], pair[2]} /\ Cardinality(pairOpen) = 2
                        /\ peer[pair[1]] = pair[2] /\ peer[pair[2]] = pair[1]

\* However send and recv cut the data, and wherever a send fails, the bytes
\* arrive once, in order and without a gap, and a caller that goes on where
\* WriteAll says it came to repeats and leaves out none (socket.c:999-1027).
BytesInOrder == received \o flight = [i \in 1 .. sentBefore + wn |-> i]

\* A call gives all it promises, or says how far it came and leaves nothing behind.
CallsKeepTheirWord == TimedCallsKeepTheirWord /\ PairIsWhole /\ BytesInOrder
=============================================================================
