------------------------------ MODULE ElogAsync ------------------------------
(***************************************************************************)
(* EasyLogger's asynchronous output: the ring buffer of elog_async.c, the  *)
(* thread that drains it line by line, and the calls of elog.c that start, *)
(* stop and close it, in the configuration of inc/elog_cfg.h (asynchronous *)
(* for every level, line output, POSIX threads).                           *)
(*                                                                         *)
(* A byte is a letter or NL, ELOG_NEWLINE_SIGN.  The output lock of        *)
(* elog_port.c is left to the user there; here it is a lock.               *)
(***************************************************************************)
EXTENDS Integers, Sequences

CONSTANTS
  Size,        \* OUTPUT_BUF_SIZE
  PollSize,    \* ELOG_ASYNC_POLL_GET_LOG_BUF_SIZE
  Byte, NL,    \* what a log is made of
  Callers,     \* the threads that log
  Owner,       \* the one of them that starts and stops the logger
  Logs,        \* what they log
  Banner,      \* the line elog_start logs
  MaxBytes,    \* bound on the bytes ever accepted
  MaxInits     \* bound on the calls of elog_init

ASSUME AsyncAssumption ==
  /\ Size \in Nat \ {0} /\ PollSize \in Nat \ {0}
  /\ NL \in Byte
  /\ Owner \in Callers
  /\ Logs \subseteq Seq(Byte) /\ Banner \in Seq(Byte)
  /\ MaxBytes \in Nat /\ MaxInits \in Nat

VARIABLES
  buf, w, r, full, empty,   \* log_buf, write_index, read_index, buf_is_full, buf_is_empty
  sem,                      \* output_notice
  running,                  \* thread_running
  enabled,                  \* is_enabled of elog_async.c
  outEnabled,               \* elog.output_enabled
  initOk,                   \* init_ok
  tpc,                      \* the output thread: "none" | "test" | "wait" | "get" | "emit" | "over"
  chunk,                    \* poll_get_buf, as much of it as is in use
  cpc, clog,                \* each caller: "idle" | "put" | "notice", and the log it puts
  opc,                      \* the owner's place in elog_start, elog_stop or elog_deinit
  accepted,                 \* how many bytes async_put_log took
  shown,                    \* what the output thread passed to elog_port_output
  inits                     \* how often elog_init ran

ring == <<buf, w, r, full, empty>>
thread == <<tpc, chunk, shown>>
calls == <<cpc, clog>>
life == <<running, enabled, outEnabled, initOk, opc, inits>>
vars == <<ring, sem, thread, calls, life, accepted>>

Init ==
  /\ buf = [i \in 0 .. Size - 1 |-> NL]       \* any byte: nothing reads it
  /\ w = 0 /\ r = 0 /\ full = FALSE /\ empty = TRUE
  /\ sem = 0 /\ running = FALSE /\ enabled = FALSE /\ outEnabled = FALSE
  /\ initOk = FALSE /\ tpc = "none" /\ chunk = <<>> /\ shown = <<>>
  /\ cpc = [c \in Callers |-> "idle"] /\ clog = [c \in Callers |-> <<>>]
  /\ opc = "free" /\ accepted = 0 /\ inits = 0

-----------------------------------------------------------------------------
(* The ring buffer. *)

\* elog_async_get_buf_used.
Used == IF w > r THEN w - r
        ELSE IF ~full /\ ~empty THEN Size - (r - w)
        ELSE IF full THEN Size
        ELSE 0

\* async_get_buf_space.
Space == Size - Used

\* Mutant: the last index is one too far.
PastEnd(i, k) == IF i + k <= Size THEN i + k ELSE i + k - Size

\* The slot that lies k past slot i, around the end.
Past(i, k) == IF i + k < Size THEN i + k ELSE i + k - Size

\* How far slot j lies past slot i.
Ahead(i, j) == IF j >= i THEN j - i ELSE j - i + Size

\* The bytes the buffer accounts for, oldest first.
Stored == [k \in 1 .. Used |-> buf[Past(r, k - 1)]]

\* Mutant: a log that fits exactly does not fill the buffer.
FillsUpLate(log) == Space < Len(log)

\* "drop some log": the log takes all the space there is, or would take more.
FillsUp(log) == Space <= Len(log)

\* Mutant: the log is not cut.
PutSizeUncut(log) == Len(log)

\* How much of a log async_put_log takes: what does not fit is dropped.
PutSize(log) == IF FillsUp(log) THEN Space ELSE Len(log)

\* Mutant: the part behind the end of the buffer is copied from the log's start.
PutLogRestarts(log) ==
  LET size == PutSize(log)
  IN  IF Space = 0 THEN UNCHANGED ring
      ELSE /\ buf' = [i \in 0 .. Size - 1 |->
                        IF Ahead(w, i) < size
                          THEN IF i >= w THEN log[Ahead(w, i) + 1] ELSE log[i + 1]
                          ELSE buf[i]]
           /\ w' = Past(w, size)
           /\ full' = (full \/ FillsUp(log))
           /\ empty' = FALSE
           /\ UNCHANGED r

\* async_put_log.  Without space it leaves everything alone.
PutLog(log) ==
  LET size == PutSize(log)
  IN  IF Space = 0 THEN UNCHANGED ring
      ELSE /\ buf' = [i \in 0 .. Size - 1 |->
                        IF Ahead(w, i) < size THEN log[Ahead(w, i) + 1] ELSE buf[i]]
           /\ w' = Past(w, size)
           /\ full' = (full \/ FillsUp(log))
           /\ empty' = FALSE
           /\ UNCHANGED r

\* elog_cpyln copies up to and including the first newline, n bytes at most.
LineLen(s, n) ==
  IF \E k \in 1 .. n : s[k] = NL
    THEN CHOOSE k \in 1 .. n : s[k] = NL /\ \A j \in 1 .. k - 1 : s[j] # NL
    ELSE n

\* elog_async_get_line_log: a copy that reaches the end of the buffer goes on at
\* the start, to the next newline there.
GetSize ==
  LET size == IF Used <= PollSize THEN Used ELSE PollSize
      back == Size - r                  \* the slots up to the end of the buffer
      one  == LineLen(Stored, IF size < back THEN size ELSE back)
  IN  IF size < back \/ one < back THEN one
      ELSE back + LineLen([k \in 1 .. size - back |-> Stored[back + k]], size - back)

\* Mutant: the buffer stays full.
GetLineStaysFull ==
  IF Used = 0 THEN chunk' = <<>> /\ UNCHANGED ring
  ELSE /\ chunk' = SubSeq(Stored, 1, GetSize)
       /\ r' = Past(r, GetSize)
       /\ empty' = (empty \/ Used = GetSize)
       /\ UNCHANGED <<buf, w, full>>

GetLine ==
  IF Used = 0 THEN chunk' = <<>> /\ UNCHANGED ring
  ELSE /\ chunk' = SubSeq(Stored, 1, GetSize)
       /\ r' = Past(r, GetSize)
       /\ empty' = (empty \/ Used = GetSize)
       /\ full' = FALSE
       /\ UNCHANGED <<buf, w>>

-----------------------------------------------------------------------------
(* A caller of elog_output or elog_raw. *)

\* Output is on: the log is formatted and the output lock asked for.
Call(c, log) ==
  /\ cpc[c] = "idle" /\ outEnabled
  /\ c = Owner => opc = "free"
  /\ accepted + Len(log) <= MaxBytes
  /\ cpc' = [cpc EXCEPT ![c] = "put"]
  /\ clog' = [clog EXCEPT ![c] = log]
  /\ UNCHANGED <<ring, sem, thread, life, accepted>>

LockFree == \A c \in Callers : cpc[c] # "notice"

\* elog_async_output under the lock: into the buffer, or straight to the port
\* when the mode is off.  The notice follows when something was put.
Put(c) ==
  /\ cpc[c] = "put" /\ LockFree
  /\ IF enabled
       THEN /\ PutLog(clog[c])
            /\ accepted' = accepted + PutSize(clog[c])
            /\ cpc' = [cpc EXCEPT ![c] = IF PutSize(clog[c]) > 0 THEN "notice" ELSE "idle"]
       ELSE /\ cpc' = [cpc EXCEPT ![c] = "idle"]
            /\ UNCHANGED <<ring, accepted>>
  /\ clog' = [clog EXCEPT ![c] = <<>>]
  /\ UNCHANGED <<sem, thread, life>>

\* Mutant: the semaphore is not posted.
NoticeNot(c) ==
  /\ cpc[c] = "notice"
  /\ cpc' = [cpc EXCEPT ![c] = "idle"]
  /\ UNCHANGED <<ring, sem, thread, clog, life, accepted>>

\* elog_async_output_notice, and the unlock.
Notice(c) ==
  /\ cpc[c] = "notice"
  /\ sem' = sem + 1
  /\ cpc' = [cpc EXCEPT ![c] = "idle"]
  /\ UNCHANGED <<ring, thread, clog, life, accepted>>

-----------------------------------------------------------------------------
(* The output thread. *)

Test ==
  /\ tpc = "test"
  /\ tpc' = IF running THEN "wait" ELSE "over"
  /\ UNCHANGED <<ring, sem, chunk, shown, calls, life, accepted>>

Wait ==
  /\ tpc = "wait" /\ sem > 0
  /\ sem' = sem - 1 /\ tpc' = "get"
  /\ UNCHANGED <<ring, chunk, shown, calls, life, accepted>>

Get ==
  /\ tpc = "get" /\ LockFree
  /\ GetLine
  /\ tpc' = IF chunk' = <<>> THEN "test" ELSE "emit"
  /\ UNCHANGED <<sem, shown, calls, life, accepted>>

\* Mutant: one line per notice.
EmitOnce ==
  /\ tpc = "emit"
  /\ shown' = shown \o chunk /\ chunk' = <<>>
  /\ tpc' = "test"
  /\ UNCHANGED <<ring, sem, calls, life, accepted>>

Emit ==
  /\ tpc = "emit"
  /\ shown' = shown \o chunk /\ chunk' = <<>>
  /\ tpc' = "get"
  /\ UNCHANGED <<ring, sem, calls, life, accepted>>

OutputThread == Test \/ Wait \/ Get \/ Emit

-----------------------------------------------------------------------------
(* The owner: elog_init, elog_start, elog_stop, elog_deinit. *)

OwnerFree == opc = "free" /\ cpc[Owner] = "idle"

\* elog_async_init: a new semaphore and a new thread on the old buffer.
ElogInit ==
  /\ OwnerFree /\ ~initOk /\ inits < MaxInits
  /\ sem' = 0 /\ running' = TRUE /\ tpc' = "test" /\ initOk' = TRUE
  /\ inits' = inits + 1
  /\ UNCHANGED <<ring, chunk, shown, calls, enabled, outEnabled, opc, accepted>>

\* Output on, then the asynchronous mode on and a line to say so: a log that
\* comes in between goes straight to the port.
ElogStart ==
  /\ OwnerFree /\ initOk /\ ~outEnabled
  /\ accepted + Len(Banner) <= MaxBytes
  /\ outEnabled' = TRUE /\ opc' = "start"
  /\ UNCHANGED <<ring, sem, thread, calls, running, enabled, initOk, inits, accepted>>

ElogStartMode ==
  /\ opc = "start"
  /\ enabled' = TRUE /\ opc' = "free"
  /\ cpc' = [cpc EXCEPT ![Owner] = "put"]
  /\ clog' = [clog EXCEPT ![Owner] = Banner]
  /\ UNCHANGED <<ring, sem, thread, running, outEnabled, initOk, inits, accepted>>

\* Output off, then the mode off; the closing line finds output off.
ElogStop ==
  /\ OwnerFree /\ initOk /\ outEnabled
  /\ outEnabled' = FALSE /\ opc' = "stop"
  /\ UNCHANGED <<ring, sem, thread, calls, running, enabled, initOk, inits, accepted>>

ElogStopMode ==
  /\ opc = "stop"
  /\ enabled' = FALSE /\ opc' = "free"
  /\ UNCHANGED <<ring, sem, thread, calls, running, outEnabled, initOk, inits, accepted>>

\* elog_async_deinit: the flag, a notice so that the thread looks at it, the join.
\* It is called after elog_stop, when no caller is on its way to the semaphore.
ElogDeinit ==
  /\ OwnerFree /\ initOk /\ ~outEnabled
  /\ \A c \in Callers : cpc[c] = "idle"
  /\ running' = FALSE /\ opc' = "notice"
  /\ UNCHANGED <<ring, sem, thread, calls, enabled, outEnabled, initOk, inits, accepted>>

\* Mutant: the thread is not told.
DeinitNoticeNot ==
  /\ opc = "notice"
  /\ opc' = "join"
  /\ UNCHANGED <<ring, sem, thread, calls, running, enabled, outEnabled, initOk, inits, accepted>>

DeinitNotice ==
  /\ opc = "notice"
  /\ sem' = sem + 1 /\ opc' = "join"
  /\ UNCHANGED <<ring, thread, calls, running, enabled, outEnabled, initOk, inits, accepted>>

DeinitJoin ==
  /\ opc = "join" /\ tpc = "over"
  /\ tpc' = "none" /\ initOk' = FALSE /\ opc' = "free"
  /\ UNCHANGED <<ring, sem, chunk, shown, calls, running, enabled, outEnabled, inits, accepted>>

OwnerSteps == ElogStartMode \/ ElogStopMode \/ DeinitNotice \/ DeinitJoin

Next ==
  \/ \E c \in Callers : (\E log \in Logs : Call(c, log)) \/ Put(c) \/ Notice(c)
  \/ OutputThread
  \/ ElogInit \/ ElogStart \/ ElogStop \/ ElogDeinit \/ OwnerSteps

Spec == Init /\ [][Next]_vars

\* Every thread goes on with what it has begun.
FairSpec == /\ Spec
            /\ WF_vars(OutputThread) /\ WF_vars(OwnerSteps)
            /\ \A c \in Callers : WF_vars(Put(c) \/ Notice(c))

-----------------------------------------------------------------------------

TypeOK ==
  /\ buf \in [0 .. Size - 1 -> Byte]
  /\ w \in 0 .. Size - 1 /\ r \in 0 .. Size - 1
  /\ full \in BOOLEAN /\ empty \in BOOLEAN
  /\ sem \in Nat
  /\ running \in BOOLEAN /\ enabled \in BOOLEAN /\ outEnabled \in BOOLEAN /\ initOk \in BOOLEAN
  /\ tpc \in {"none", "test", "wait", "get", "emit", "over"}
  /\ chunk \in Seq(Byte) /\ shown \in Seq(Byte)
  /\ cpc \in [Callers -> {"idle", "put", "notice"}]
  /\ clog \in [Callers -> Seq(Byte)]
  /\ opc \in {"free", "start", "stop", "notice", "join"}
  /\ accepted \in Nat /\ inits \in 0 .. MaxInits

\* The two flags tell apart the two meanings of equal indices, and say nothing
\* false otherwise (elog_async.c:107-119, 148-163, 208-214).
FlagsAgree == /\ full => w = r /\ ~empty
              /\ empty => w = r
              /\ w = r => full \/ empty

\* "asynchronous output ring buffer used size" (elog_async.c:107-108): what the
\* indices account for is what was put and not yet taken out.
UsedIsStored == Used = accepted - Len(shown) - Len(chunk)

\* No wake-up is missed: while there is something to output, a thread about to
\* wait will not, because a notice is there or about to be (elog_async.c:272-275,
\* 294-311).  A second elog_init starts with a new semaphore on the old buffer:
\* what the first life left there waits for the next log.
NoMissedNotice ==
  (inits = 1 /\ Used > 0 /\ tpc = "wait" /\ running) =>
    sem > 0 \/ \E c \in Callers : cpc[c] = "notice"

\* The ring's indices, flags and notices account for what is in it.
RingAgrees == TypeOK /\ FlagsAgree /\ UsedIsStored /\ NoMissedNotice

\* A put appends the log, around the end of the buffer too, and what it drops of
\* the log's end is dropped because the buffer is full then (elog_async.c:147-161).
PutAppends ==
  [][\A c \in Callers : (Put(c) /\ enabled) =>
       \E k \in 0 .. Len(clog[c]) : /\ Stored' = Stored \o SubSeq(clog[c], 1, k)
                                    /\ k < Len(clog[c]) => Used' = Size]_vars

\* "Get line log from asynchronous output ring buffer" (elog_async.c:172): what
\* one call gets is one line at most.
OneLineAtATime == \A k \in 1 .. Len(chunk) - 1 : chunk[k] # NL

\* Refinement: between what callers put and what reaches the port, buffer and
\* poll buffer are one first-in first-out queue.
Pipe == INSTANCE FifoQueue WITH q <- chunk \o Stored, out <- shown, Item <- Byte
IsFifo == Pipe!Spec

\* What was accepted is output in the end, all of it once the callers pause, and
\* they do when MaxBytes are accepted; unless the logger is closed first.
AcceptedIsShown ==
  (inits = 1 /\ accepted > 0) ~> (Len(shown) = accepted \/ ~running)

\* elog_deinit returns: the thread is never left asleep (elog_async.c:372-376).
DeinitReturns == (opc # "free") ~> (opc = "free")

=============================================================================
