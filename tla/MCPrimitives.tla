---------------------------- MODULE MCPrimitives ----------------------------
(* The queue, the lock, the two I/O loops, fibers and the waiting socket    *)
(* calls, side by side: they share nothing, and a behaviour uses one of     *)
(* them.  One or two consumers, two wakers and a few items in the queue.    *)
EXTENDS DataQueue, RWLock, Nio, Iocp, Fiber, Sockets

CONSTANTS c1, c2, w1, w2

TwoConsumers == {c1, c2}
OneTimed     == {c1}
TwoWakers    == {w1, w2}

\* Consumers that take one item at a time, all there is, or now this, now that.
MCAskings == {{1}, {All}, {1, 2, All}}

VARIABLE using

uses(what) == using = what /\ UNCHANGED using

allVars == <<using, vars, rwVars, nioVars, iocpVars, fbVars, sockVars>>

AllInit ==
  /\ using \in {"queue", "rwlock", "nio", "iocp", "fibers", "connect", "bytes", "pair"}
  /\ Init /\ RwInit /\ NioInit /\ IocpInit /\ FbInit /\ SockInit
  /\ using # "queue" => active = Consumers /\ asks = {All}

AllNext ==
  \/ /\ uses("queue") /\ Next
     /\ UNCHANGED <<rwVars, nioVars, iocpVars, fbVars, sockVars>>
  \/ /\ uses("rwlock") /\ RwNext
     /\ UNCHANGED <<vars, nioVars, iocpVars, fbVars, sockVars>>
  \/ /\ uses("nio") /\ NioNext
     /\ UNCHANGED <<vars, rwVars, iocpVars, fbVars, sockVars>>
  \/ /\ uses("iocp") /\ IocpNext
     /\ UNCHANGED <<vars, rwVars, nioVars, fbVars, sockVars>>
  \/ /\ uses("fibers") /\ FbNext
     /\ UNCHANGED <<vars, rwVars, nioVars, iocpVars, sockVars>>
  \/ /\ uses("connect") /\ ConnNext
     /\ UNCHANGED <<vars, rwVars, nioVars, iocpVars, fbVars>>
  \/ /\ uses("bytes") /\ ByteNext
     /\ UNCHANGED <<vars, rwVars, nioVars, iocpVars, fbVars>>
  \/ /\ uses("pair") /\ PairNext
     /\ UNCHANGED <<vars, rwVars, nioVars, iocpVars, fbVars>>

\* Consumers come back for more, and a thread inside a call goes on, with the lock
\* when it needs it.  Nobody has to push, or to take the readers-writer lock, and
\* no wait has to end by itself.
AllFairSpec ==
  /\ AllInit /\ [][AllNext]_allVars
  /\ \A c \in Consumers : WF_vars(using = "queue" /\ Pop(c) /\ UNCHANGED program)
  /\ \A w \in Wakers : WF_vars(using = "queue" /\ WakeSignal(w) /\ UNCHANGED program)
  /\ \A t \in RwThreads : WF_rwVars(using = "rwlock" /\ GoesOn(t))
=============================================================================
