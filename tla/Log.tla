--------------------------------- MODULE Log ---------------------------------
(***************************************************************************)
(* components/source/utils/log.c: a log file that several threads print    *)
(* to.  A printer either puts its line in a cache, or writes it itself,    *)
(* both under m_lock; logFlush takes the cache under the lock and writes   *)
(* its lines after giving the lock back.  The file is opened by the first  *)
(* one that has a line to write.                                           *)
(*                                                                         *)
(* m_maxfilesize is ~0 and nobody changes it (log.c:174), so a file is     *)
(* never full: log_rotate runs only where no file is open.                 *)
(*                                                                         *)
(* usage says how the public flag async_print_file is used: "sync" and     *)
(* "async" leave it alone, "mixed" changes it while printing.              *)
(***************************************************************************)
EXTENDS Integers, SequencesExt, Selection

CONSTANTS Printers, Flusher,
          NoFd,
          SegWord,              \* m_filesegmentseq is unsigned and wraps here
          MaxLines              \* bound: lines that each printer prints

ASSUME LogAssumption == /\ IsFiniteSet(Printers) /\ Flusher \notin Printers
                        /\ NoFd \notin Printers \cup {Flusher} \cup Nat
                        /\ SegWord \in Nat \ {0}

LogThread == Printers \cup {Flusher}
MaxFd == 1 + Cardinality(LogThread)
Segments == 0 .. SegWord - 1

VARIABLES usage, async,         \* async_print_file
          alive,                \* until logDestroy
          lock,                 \* m_lock: who is inside, or NoFd for nobody
          cache,                \* m_cachelist
          fd, seq,              \* m_fd, m_filesegmentseq
          fds,                  \* open descriptors, and the segment each one writes
          files,                \* lines in each segment
          logPc, hand,          \* of a thread: where it is, the lines it has to write
          path, num, got,       \* and its locals: the segment to open, the value of
                                \* m_filesegmentseq to change, the descriptor
          printed, entered, dropped, opened    \* observed: lines per printer, lines in
                                \* the order of m_lock, lines given up, segments opened

logVars == <<usage, async, alive, lock, cache, fd, seq, fds, files, logPc, hand,
             path, num, got, printed, entered, dropped, opened>>

LogInit ==
  /\ usage \in {"sync", "async", "mixed"} /\ async = (usage = "async")
  /\ alive = TRUE /\ lock = NoFd /\ cache = <<>>
  /\ fd = NoFd /\ seq = 0 /\ fds = <<>>
  /\ files = [s \in Segments |-> <<>>]
  /\ logPc = [t \in LogThread |-> "idle"] /\ hand = [t \in LogThread |-> <<>>]
  /\ path = [t \in LogThread |-> 0] /\ num = [t \in LogThread |-> 0] /\ got = [t \in LogThread |-> NoFd]
  /\ printed = [t \in Printers |-> 0] /\ entered = <<>> /\ dropped = {}
  /\ opened = <<>>

fileVars == <<fd, seq, fds, files, path, num, got, opened>>

\* A line that the filter refuses, or for which there is no memory, never
\* comes to log_write.  The flag is read before the lock is taken.
LogPrint(t) ==
  /\ logPc[t] = "idle" /\ printed[t] < MaxLines
  /\ printed' = [printed EXCEPT ![t] = @ + 1]
  /\ hand' = [hand EXCEPT ![t] = <<<<t, printed[t]>>>>]
  /\ logPc' = [logPc EXCEPT ![t] = IF async THEN "insert" ELSE "enter"]
  /\ UNCHANGED <<usage, async, lock, cache, entered, dropped, fileVars>>

LogInsert(t) ==                 \* log_write of an asynchronous printer
  /\ logPc[t] = "insert" /\ lock = NoFd
  /\ cache' = cache \o hand[t] /\ entered' = entered \o hand[t]
  /\ hand' = [hand EXCEPT ![t] = <<>>]
  /\ logPc' = [logPc EXCEPT ![t] = "idle"]
  /\ UNCHANGED <<usage, async, lock, printed, dropped, fileVars>>

LogEnter(t) ==                  \* log_write of a synchronous printer
  /\ logPc[t] = "enter" /\ lock = NoFd
  /\ lock' = t /\ entered' = entered \o hand[t]
  /\ logPc' = [logPc EXCEPT ![t] = "check"]
  /\ UNCHANGED <<usage, async, cache, hand, printed, dropped, fileVars>>

LogFlush ==
  /\ logPc[Flusher] = "idle" /\ lock = NoFd /\ cache # <<>>
  /\ hand' = [hand EXCEPT ![Flusher] = cache] /\ cache' = <<>>
  /\ logPc' = [logPc EXCEPT ![Flusher] = "check"]
  /\ UNCHANGED <<usage, async, lock, printed, entered, dropped, fileVars>>

LogClear ==
  /\ lock = NoFd /\ cache' = <<>> /\ dropped' = dropped \cup ToSet(cache)
  /\ UNCHANGED <<usage, async, lock, logPc, hand, printed, entered, fileVars>>

LogToggle ==                    \* the flag is the user's
  /\ usage = "mixed" /\ async' = ~async
  /\ UNCHANGED <<usage, lock, cache, logPc, hand, printed, entered, dropped, fileVars>>

-----------------------------------------------------------------------------
\* log_do_write_cache of the first line in hand, by a printer inside the lock
\* or by the flusher outside of it.

Io(t, from, to) == /\ logPc[t] = from /\ logPc' = [logPc EXCEPT ![t] = to]
                   /\ UNCHANGED <<usage, async, cache, printed, entered>>

\* Nothing more in hand: free, and leave the lock.
LogDone(t) ==
  /\ hand[t] = <<>> /\ Io(t, "check", "idle")
  /\ lock' = IF t = Flusher THEN lock ELSE NoFd
  /\ UNCHANGED <<hand, dropped, fileVars>>

LogCheck(t) ==
  /\ hand[t] # <<>> /\ Io(t, "check", IF fd = NoFd THEN "rotate" ELSE "write")
  /\ UNCHANGED <<lock, hand, dropped, fileVars>>

GiveUp(t) == /\ hand' = [hand EXCEPT ![t] = Tail(@)]
             /\ dropped' = dropped \cup {Head(hand[t])}

\* log_rotate names the segment, looks at its size,
LogRotate(t) ==
  /\ \/ /\ Io(t, "rotate", "load") /\ path' = [path EXCEPT ![t] = seq]
        /\ UNCHANGED <<hand, dropped>>
     \/ Io(t, "rotate", "check") /\ GiveUp(t) /\ UNCHANGED path
  /\ UNCHANGED <<lock, fd, seq, fds, files, num, got, opened>>

\* raises m_filesegmentseq, which a thread that has no lock can do meanwhile,
LogLoadSeq(t) ==
  /\ Io(t, "load", "count") \/ Io(t, "undo", "uncount")
  /\ num' = [num EXCEPT ![t] = seq]
  /\ UNCHANGED <<lock, hand, dropped, fd, seq, fds, files, path, got, opened>>

LogRaise(t) ==
  /\ Io(t, "count", "open")
  /\ seq' = IF num[t] + 1 = SegWord THEN 0 ELSE num[t] + 1
  /\ num' = [num EXCEPT ![t] = 0]
  /\ UNCHANGED <<lock, hand, dropped, fd, fds, files, path, got, opened>>

\* opens the segment,
LogOpen(t) ==
  /\ \/ LET new == Min((1 .. MaxFd) \ DOMAIN fds) IN
        /\ Io(t, "open", "close")
        /\ fds' = [m \in {new} \cup DOMAIN fds |-> IF m = new THEN path[t] ELSE fds[m]]
        /\ got' = [got EXCEPT ![t] = new] /\ opened' = Append(opened, path[t])
     \/ Io(t, "open", "undo") /\ UNCHANGED <<fds, got, opened>>
  /\ path' = [path EXCEPT ![t] = 0]
  /\ UNCHANGED <<lock, hand, dropped, fd, seq, files, num>>

\* Mutant: the number stays raised.
LogLowerForgets(t) ==
  /\ Io(t, "uncount", "check") /\ GiveUp(t)
  /\ num' = [num EXCEPT ![t] = 0]
  /\ UNCHANGED <<lock, fd, seq, fds, files, path, got, opened>>

\* lowers m_filesegmentseq again where that failed,
LogLower(t) ==
  /\ Io(t, "uncount", "check") /\ GiveUp(t)
  /\ seq' = IF num[t] = 0 THEN SegWord - 1 ELSE num[t] - 1
  /\ num' = [num EXCEPT ![t] = 0]
  /\ UNCHANGED <<lock, fd, fds, files, path, got, opened>>

Closed(n) == [m \in DOMAIN fds \ {n} |-> fds[m]]

\* closes the file that is open by now,
LogClose(t) ==
  /\ Io(t, "close", "set") /\ fds' = Closed(fd)
  /\ UNCHANGED <<lock, hand, dropped, fd, seq, files, path, num, got, opened>>

\* Mutant: the descriptor is kept by the one that opened it only.
LogSetForgets(t) == /\ Io(t, "set", "write")
                    /\ got' = [got EXCEPT ![t] = NoFd]
                    /\ UNCHANGED <<lock, hand, dropped, fd, seq, fds, files, path, num, opened>>

\* and takes the new one.
LogSet(t) ==
  /\ Io(t, "set", "write") /\ fd' = got[t] /\ got' = [got EXCEPT ![t] = NoFd]
  /\ UNCHANGED <<lock, hand, dropped, seq, fds, files, path, num, opened>>

LogLoadFd(t) ==
  /\ Io(t, "write", "io") /\ got' = [got EXCEPT ![t] = fd]
  /\ UNCHANGED <<lock, hand, dropped, fd, seq, fds, files, path, num, opened>>

\* fdWrite, to whatever the descriptor is by now.  It may fail, as it must
\* when somebody closed the descriptor.
LogIo(t) ==
  /\ Io(t, "io", "check")
  /\ \/ /\ files' = IF got[t] \in DOMAIN fds
                      THEN [files EXCEPT ![fds[got[t]]] = Append(@, Head(hand[t]))]
                      ELSE files
        /\ hand' = [hand EXCEPT ![t] = Tail(@)] /\ UNCHANGED dropped
     \/ GiveUp(t) /\ UNCHANGED files
  /\ got' = [got EXCEPT ![t] = NoFd]
  /\ UNCHANGED <<lock, fd, seq, fds, path, num, opened>>

\* logDestroy, when nobody uses the log any more.
LogDestroy ==
  /\ \A t \in LogThread : logPc[t] = "idle"
  /\ alive' = FALSE
  /\ cache' = <<>> /\ dropped' = dropped \cup ToSet(cache)
  /\ fds' = Closed(fd)
  /\ UNCHANGED <<usage, async, lock, logPc, hand, printed, entered, fd, seq, files, path, num, got, opened>>

LogStep ==
  \/ \E t \in Printers : LogPrint(t) \/ LogInsert(t) \/ LogEnter(t)
  \/ LogFlush \/ LogClear \/ LogToggle
  \/ \E t \in LogThread : \/ LogDone(t) \/ LogCheck(t) \/ LogRotate(t) \/ LogLoadSeq(t)
                          \/ LogRaise(t) \/ LogOpen(t) \/ LogLower(t)
                          \/ LogClose(t) \/ LogSet(t) \/ LogLoadFd(t) \/ LogIo(t)

LogNext == alive /\ ((LogStep /\ UNCHANGED alive) \/ LogDestroy)

LogSpec == LogInit /\ [][LogNext]_logVars

-----------------------------------------------------------------------------
Line == Printers \X Nat

InHand(t) == IF logPc[t] \in {"idle", "insert", "enter"} THEN <<>> ELSE hand[t]

InFiles == UNION {ToSet(files[s]) : s \in Segments}
InHands == UNION {ToSet(InHand(t)) : t \in LogThread}

\* While the log is used one way only, the lines that were entered are, in the
\* order in which they were, in the file, in the hands of the thread that
\* writes, and in the cache; missing are those for which a file operation
\* failed or which the user had cleared.  Only one segment is ever opened, the
\* first, however often that failed before, and no descriptor is left open.
\* Used both ways, the flusher and a printer can both find no file open, and
\* change the number of the segment at once: lines go missing only if both of
\* them open a file (log.c:49-62, 68-85, 199).
LogKeepsLines ==
  IF usage # "mixed"
    THEN /\ Cardinality(DOMAIN fds) <= 1 /\ opened \in {<<>>, <<0>>}
         /\ \E t \in LogThread :
              /\ \A o \in LogThread \ {t} : InHand(o) = <<>>
              /\ files[0] \o InHand(t) \o cache = Only(entered, Line \ dropped)
    ELSE Len(opened) <= 1 =>
           ToSet(entered) \ dropped = (ToSet(cache) \cup InFiles) \cup InHands
=============================================================================
