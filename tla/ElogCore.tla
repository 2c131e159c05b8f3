------------------------------ MODULE ElogCore ------------------------------
(***************************************************************************)
(* components/easylogger/src/elog.c: threads that log lines through one    *)
(* line buffer, log_buf, inside the output lock, and the filters by tag.   *)
(*                                                                         *)
(* The lock can be disabled "to output system exception log": a fault ends *)
(* the thread it hits, wherever that is, and a handler that runs alone     *)
(* disables the lock, logs, and enables the lock again, which unlocks what *)
(* the dead thread had locked.  Then the other threads go on.              *)
(*                                                                         *)
(* locked is the lock of the port.  elog_port.c leaves it to be written,   *)
(* and without it nothing is promised: here it was.  Which of the outputs  *)
(* (asynchronous, buffered, direct) takes a line is not this module's      *)
(* matter.  A cell of log_buf holds the thread whose line it was written   *)
(* for, or the end sign that vsnprintf writes, or a newline; it is Old when *)
(* that line is done.                                                      *)
(***************************************************************************)
EXTENDS Integers, SequencesExt

CONSTANTS Loggers, Handler,     \* threads, and the one that handles the fault
          Nobody,
          LineSize,             \* ELOG_LINE_BUF_SIZE, in cells
          ColorEnd,             \* length of the sign that ends the color
          HeadLens, BodyLens,   \* lengths that the parts of a line may have
          Tags, Levels, All,    \* All is ELOG_FILTER_LVL_ALL, the highest level
          Slots,                \* ELOG_FILTER_TAG_LVL_MAX_NUM
          Dumps, DumpWord,      \* <<size, width>> of hex dumps; their uint16_t ends here
          ElogMaxOps            \* bound: calls of the loggers

\* A line has room for the end of the color and the newline, and a row of a dump
\* is not empty.
ASSUME CoreAssumption ==
  /\ Handler \notin Loggers /\ Nobody \notin Loggers \cup {Handler}
  /\ LineSize \in Nat /\ ColorEnd \in Nat /\ ColorEnd < LineSize
  /\ HeadLens \subseteq Nat /\ BodyLens \subseteq Nat
  /\ Slots \in Nat
  /\ DumpWord \in Nat \ {0} /\ Dumps \subseteq Nat \X (Nat \ {0})

ElogThreads == Loggers \cup {Handler}
Eos == "eos"
Newline == "newline"
Old == "old"
NoLine == [by |-> Nobody, raw |-> TRUE, cells |-> <<>>]
NoTag == [used |-> FALSE, tag |-> Nobody, level |-> 0]

VARIABLES locked, lockEnabled, lockedBeforeEnable, lockedBeforeDisable,
          lineBuf, logLen,      \* log_buf; log_len of each thread
          tagLvl, slot,         \* filter.tag_lvl; where each thread writes it
          elogAt, doing,        \* of a thread: where it is, and its call
          calls,                \* how many calls the loggers made
          output,               \* the line that is being output
          dead,                 \* whom the fault hit
          wanted,               \* observed: the level asked for each tag
          disturbed             \* observed: a thread inside had its flag cleared by
                                \* another, or was there when the fault hit another

lockVars == <<locked, lockEnabled, lockedBeforeEnable, lockedBeforeDisable, disturbed>>
tagVars == <<tagLvl, slot, wanted>>
coreVars == <<lockVars, lineBuf, logLen, tagVars, elogAt, doing, calls, output, dead>>

CoreInit ==
  /\ locked = FALSE
  /\ lockEnabled = TRUE /\ lockedBeforeEnable = FALSE /\ lockedBeforeDisable = FALSE
  /\ lineBuf = [i \in 1 .. LineSize |-> Eos] /\ logLen = [t \in ElogThreads |-> 0]
  /\ tagLvl = [i \in 1 .. Slots |-> NoTag] /\ slot = [t \in ElogThreads |-> 0]
  /\ elogAt = [t \in ElogThreads |-> IF t = Handler THEN "waits" ELSE "idle"]
  /\ doing = [t \in ElogThreads |-> <<"none">>] /\ calls = 0
  /\ output = NoLine /\ dead = Nobody
  /\ wanted = [g \in Tags |-> All] /\ disturbed = FALSE

-----------------------------------------------------------------------------
Handled == dead # Nobody /\ elogAt[Handler] = "done"

Runs(t) == IF dead = Nobody \/ Handled THEN t \in Loggers \ {dead} ELSE t = Handler

Step(t, from, to) == /\ Runs(t) /\ elogAt[t] = from
                     /\ elogAt' = [elogAt EXCEPT ![t] = to]
                     /\ UNCHANGED dead

MayCall(t) == /\ t = Handler \/ calls < ElogMaxOps
              /\ calls' = IF t = Handler THEN calls ELSE calls + 1

Inside == {t \in ElogThreads : elogAt[t] \in {"note", "ask", "head", "body", "end", "row", "find", "store", "unlock"}}

\* The slot that filters tag g, if there is one.
SlotOf(g) == {i \in 1 .. Slots : tagLvl[i].used /\ tagLvl[i].tag = g}

\* elog_get_filter_tag_lvl.
LevelOf(g) == IF SlotOf(g) = {} THEN All ELSE tagLvl[Min(SlotOf(g))].level

\* elog_output asks for the level of its tag under the lock, which it gives
\* back, and takes again when the filters let the line through.
ElogOutput(t) ==
  \E g \in Tags, level \in Levels :
    /\ MayCall(t) /\ Step(t, IF t = Handler THEN "log" ELSE "idle", "lock")
    /\ doing' = [doing EXCEPT ![t] = <<"ask", g, level>>]
    /\ UNCHANGED <<lockVars, lineBuf, logLen, tagVars, output>>

AskLevel(t) ==
  /\ Step(t, "ask", "unlock")
  /\ doing' = [doing EXCEPT ![t] = <<IF @[3] <= LevelOf(@[2]) THEN "pass" ELSE "drop">>]
  /\ UNCHANGED <<lockVars, lineBuf, logLen, tagVars, calls, output>>

\* elog_raw asks no filter; a level is set for a tag likewise under the lock.
ElogRaw(t) ==
  /\ MayCall(t) /\ Step(t, "idle", "lock")
  /\ doing' = [doing EXCEPT ![t] = <<"raw">>]
  /\ UNCHANGED <<lockVars, lineBuf, logLen, tagVars, output>>

ElogSetTagLvl(t) ==
  \E g \in Tags, level \in Levels :
    /\ MayCall(t) /\ Step(t, "idle", "lock")
    /\ doing' = [doing EXCEPT ![t] = <<"tag", g, level>>]
    /\ UNCHANGED <<lockVars, lineBuf, logLen, tagVars, output>>

\* elog_hexdump: <<"hex", size, width, i, rows output>>.
ElogHexdump(t) ==
  \E d \in Dumps :
    /\ MayCall(t) /\ Step(t, "idle", "lock")
    /\ doing' = [doing EXCEPT ![t] = <<"hex", d[1], d[2], 0, 0>>]
    /\ UNCHANGED <<lockVars, lineBuf, logLen, tagVars, output>>

\* What a thread does under the lock.
CallPlace(t) == CASE doing[t][1] = "line" -> "head"
                  [] doing[t][1] = "raw"  -> "body"
                  [] doing[t][1] = "hex"  -> "row"
                  [] doing[t][1] = "tag"  -> "find"
                  [] doing[t][1] = "ask"  -> "ask"

\* elog_output_lock takes the lock of the port first, and sets the flag then.
OutputLock(t) ==
  /\ Step(t, "lock", IF lockEnabled THEN "note" ELSE CallPlace(t))
  /\ IF lockEnabled THEN ~locked /\ locked' = TRUE /\ UNCHANGED lockedBeforeEnable
                    ELSE lockedBeforeEnable' = TRUE /\ UNCHANGED locked
  /\ UNCHANGED <<lockEnabled, lockedBeforeDisable, disturbed, lineBuf, logLen, tagVars,
                 doing, calls, output>>

SetFlag(t) ==
  /\ Step(t, "note", CallPlace(t))
  /\ lockedBeforeDisable' = TRUE
  /\ UNCHANGED <<locked, lockEnabled, lockedBeforeEnable, disturbed, lineBuf, logLen, tagVars,
                 doing, calls, output>>

\* elog_output_unlock gives the lock back first, and clears the flag then.
OutputUnlock(t) ==
  /\ Step(t, "unlock", CASE lockEnabled -> "flag"
                         [] ~lockEnabled /\ doing[t][1] = "pass" -> "lock"
                         [] ~lockEnabled /\ doing[t][1] # "pass" ->
                              IF t = Handler THEN "enable" ELSE "idle")
  /\ IF lockEnabled THEN locked' = FALSE /\ UNCHANGED lockedBeforeEnable
                    ELSE lockedBeforeEnable' = FALSE /\ UNCHANGED locked
  /\ output' = NoLine
  /\ logLen' = [logLen EXCEPT ![t] = 0] /\ slot' = [slot EXCEPT ![t] = 0]
  /\ doing' = [doing EXCEPT ![t] = <<IF @[1] = "pass" THEN "line" ELSE "none">>]
  /\ lineBuf' = [i \in 1 .. LineSize |-> IF lineBuf[i] = t THEN Old ELSE lineBuf[i]]
  /\ UNCHANGED <<lockEnabled, lockedBeforeDisable, disturbed, tagLvl, wanted, calls>>

ClearFlag(t) ==
  /\ Step(t, "flag", IF doing[t][1] = "line" THEN "lock" ELSE "idle")
  /\ lockedBeforeDisable' = FALSE
  /\ disturbed' = (disturbed \/ \E u \in Inside : elogAt[u] # "note")
  /\ UNCHANGED <<locked, lockEnabled, lockedBeforeEnable, lineBuf, logLen, tagVars,
                 doing, calls, output>>

-----------------------------------------------------------------------------
Written(from, to, v) == [i \in 1 .. LineSize |-> IF from < i /\ i <= to THEN v ELSE lineBuf[i]]

MinOf(i, j) == IF i < j THEN i ELSE j

\* The parts before the message, each cut by elog_strcpy at the end of the buffer.
PackHead(t) ==
  \E n \in HeadLens :
    /\ Step(t, "head", "body")
    /\ lineBuf' = Written(0, MinOf(n, LineSize), t)
    /\ logLen' = [logLen EXCEPT ![t] = MinOf(n, LineSize)]
    /\ UNCHANGED <<lockVars, tagVars, doing, calls, output>>

\* vsnprintf writes as much of n cells as fits, and the end sign; of a raw line
\* everything it says it wrote is output.
PackBody(t) ==
  \E n \in BodyLens :
    LET room == LineSize - logLen[t]
        last == logLen[t] + MinOf(n, room - 1)
    IN
    /\ Step(t, "body", IF doing[t][1] = "raw" THEN "unlock" ELSE "end")
    /\ lineBuf' = IF room = 0 THEN lineBuf
                  ELSE [Written(logLen[t], last, t) EXCEPT ![last + 1] = Eos]
    /\ logLen' = [logLen EXCEPT ![t] = MinOf(@ + n, LineSize)]
    /\ output' = IF doing[t][1] # "raw" THEN output
                 ELSE [by |-> t, raw |-> TRUE, cells |-> SubSeq(lineBuf', 1, logLen'[t])]
    /\ UNCHANGED <<lockVars, tagVars, doing, calls>>

\* Mutant: no room is kept for the newline.
CutForgetsNewline(n) == IF n + ColorEnd > LineSize THEN LineSize - ColorEnd ELSE n

\* Room for the end of the color and the newline.
Cut(n) == IF n + ColorEnd + 1 > LineSize THEN LineSize - ColorEnd - 1 ELSE n

\* The keyword filter drops the line, or the end of the color and the newline
\* are added as far as they fit, and the line is output.
PackEnd(t) ==
  LET n == Cut(logLen[t])
      colored == MinOf(n + ColorEnd, LineSize)
      ended == MinOf(colored + 1, LineSize)
      line == [i \in 1 .. LineSize |-> IF i = ended /\ colored < ended THEN Newline
                                       ELSE IF n < i /\ i <= colored THEN t
                                       ELSE lineBuf[i]]
  IN
  /\ Step(t, "end", "unlock")
  /\ \/ UNCHANGED <<lineBuf, output>>
     \/ /\ lineBuf' = line
        /\ output' = [by |-> t, raw |-> FALSE, cells |-> SubSeq(line, 1, ended)]
  /\ UNCHANGED <<lockVars, logLen, tagVars, doing, calls>>

\* Mutant: the rows overlap.
NextRowOverlaps(i, width) == (i + width - 1) % DumpWord

NextRow(i, width) == (i + width) % DumpWord

\* One row of a hex dump, or the end of it.  The count of the rows is stopped
\* at DumpWord, where a dump that goes on has gone wrong.
DumpRow(t) ==
  LET d == doing[t]
      row == [i \in 1 .. LineSize |-> IF i = LineSize THEN Newline ELSE t]
  IN
  \/ /\ Step(t, "row", "row") /\ d[4] < d[2] /\ d[5] < DumpWord
     /\ lineBuf' = row
     /\ output' = [by |-> t, raw |-> FALSE, cells |-> row]
     /\ doing' = [doing EXCEPT ![t] = <<"hex", d[2], d[3], NextRow(d[4], d[3]), d[5] + 1>>]
     /\ UNCHANGED <<lockVars, logLen, tagVars, calls>>
  \/ /\ Step(t, "row", "unlock") /\ d[4] >= d[2]
     /\ UNCHANGED <<lockVars, lineBuf, logLen, tagVars, doing, calls, output>>

-----------------------------------------------------------------------------
\* elog_set_filter_tag_lvl: the slot of the tag, else a free one, else none.
FindTag(t) ==
  LET g == doing[t][2]
      free == {i \in 1 .. Slots : ~tagLvl[i].used}
      found == IF SlotOf(g) # {} THEN Min(SlotOf(g))
               ELSE IF doing[t][3] # All /\ free # {} THEN Min(free) ELSE 0
  IN
  /\ Step(t, "find", "store")
  /\ slot' = [slot EXCEPT ![t] = found]
  /\ wanted' = IF wanted[g] = All /\ Cardinality({h \in Tags : wanted[h] # All}) = Slots
                 THEN wanted ELSE [wanted EXCEPT ![g] = doing[t][3]]
  /\ UNCHANGED <<lockVars, lineBuf, logLen, tagLvl, doing, calls, output>>

\* Mutant: a filter that is lifted keeps its slot.
SlotKept(g, level) == [used |-> TRUE, tag |-> g, level |-> level]

SlotFor(g, level) == IF level = All THEN NoTag ELSE [used |-> TRUE, tag |-> g, level |-> level]

StoreTag(t) ==
  /\ Step(t, "store", "unlock")
  /\ tagLvl' = [i \in 1 .. Slots |-> IF i = slot[t] THEN SlotFor(doing[t][2], doing[t][3])
                                     ELSE tagLvl[i]]
  /\ UNCHANGED <<lockVars, lineBuf, logLen, slot, wanted, doing, calls, output>>

-----------------------------------------------------------------------------
Fault(t) ==
  /\ dead = Nobody /\ dead' = t
  /\ elogAt' = [elogAt EXCEPT ![Handler] = "disable"]
  /\ disturbed' = (disturbed \/ Inside \ {t} # {})
  /\ UNCHANGED <<locked, lockEnabled, lockedBeforeEnable, lockedBeforeDisable,
                 lineBuf, logLen, tagVars, doing, calls, output>>

\* elog_output_lock_enabled(false) and, after the log, (true).
DisableLock ==
  /\ Step(Handler, "disable", "log") /\ lockEnabled' = FALSE
  /\ UNCHANGED <<locked, lockedBeforeEnable, lockedBeforeDisable, disturbed,
                 lineBuf, logLen, tagVars, doing, calls, output>>

\* Mutant: what the dead thread had locked is not unlocked.
EnableLockOnly ==
  /\ Step(Handler, "enable", "done") /\ lockEnabled' = TRUE
  /\ UNCHANGED <<locked, lockedBeforeEnable, lockedBeforeDisable, disturbed,
                 lineBuf, logLen, tagVars, doing, calls, output>>

EnableLock ==
  /\ Step(Handler, "enable", "done") /\ lockEnabled' = TRUE
  /\ locked' = CASE ~lockedBeforeDisable /\ lockedBeforeEnable -> TRUE
                 [] lockedBeforeDisable /\ ~lockedBeforeEnable -> FALSE
                 [] OTHER -> locked
  /\ UNCHANGED <<lockedBeforeEnable, lockedBeforeDisable, disturbed,
                 lineBuf, logLen, tagVars, doing, calls, output>>

CoreNext ==
  \/ \E t \in Loggers : ElogRaw(t) \/ ElogSetTagLvl(t) \/ Fault(t)
                        \/ SetFlag(t) \/ ClearFlag(t)
                        \/ FindTag(t) \/ StoreTag(t)
                        \/ ElogHexdump(t) \/ DumpRow(t)
  \/ \E t \in ElogThreads : \/ ElogOutput(t) \/ OutputLock(t) \/ OutputUnlock(t)
                            \/ AskLevel(t) \/ PackHead(t) \/ PackBody(t) \/ PackEnd(t)
  \/ DisableLock \/ EnableLock

CoreSpec == CoreInit /\ [][CoreNext]_coreVars

-----------------------------------------------------------------------------
\* A line that is output was written by one thread, whatever the lengths of its
\* parts, and nothing in it is left from another line; unless raw, it ends with
\* its newline.  A fault does not change this if it hit the thread that was
\* inside, or any while nobody was.
LineIsWhole ==
  ~disturbed => /\ ToSet(output.cells) \subseteq {output.by, Eos, Newline}
                /\ output.raw \/ (output.cells # <<>> /\ Last(output.cells) = Newline)

\* Once the handler is through, the lock that the dead thread held is free: the
\* others are not kept out for ever (elog.c:744-765).  It takes that the flag was
\* right: a thread clears it after it gave the lock back, and may hit the flag of
\* the next one inside; and one that dies between taking the lock and setting the
\* flag (elog.c:372-373) leaves the lock locked for good.
LockFreedAfterFault ==
  Handled /\ ~disturbed /\ elogAt[dead] # "note" /\ locked => Inside \ {dead, Handler} # {}

\* Under the lock, the filter of a tag is the level that was last asked for,
\* however the slots are given out and taken back; a request is lost only while
\* as many other tags are filtered as there are slots.
TagLevelHolds ==
  dead = Nobody /\ Inside = {} => \A g \in Tags : LevelOf(g) = wanted[g]

\* A hex dump shows each row once and ends, up to the sizes at which its 16-bit
\* index passes the end and starts again, inside the lock (elog.c:861).
DumpEnds ==
  \A t \in Loggers : doing[t][1] = "hex" /\ doing[t][2] + doing[t][3] <= DumpWord =>
    doing[t][4] = doing[t][5] * doing[t][3] /\ doing[t][4] < doing[t][2] + doing[t][3]

\* What is shown is whole: lines that end where they should, dumps that end.
OutputIsWhole == LineIsWhole /\ DumpEnds
=============================================================================
