---------------------------- MODULE LoggersProofs ----------------------------
(***************************************************************************)
(* EasyLogger's synchronous parts, for any number of threads, tags and     *)
(* slots and any lengths: the lines and the filters of elog.c under its    *)
(* lock, through a fault and the handler that logs without it, and the     *)
(* buffered output of elog_buf.c.  Then the log file of utils/log.c, for   *)
(* any number of printers and lines.                                       *)
(***************************************************************************)
EXTENDS ElogCore, ElogBuf, Log, SelectionLemmas, SequenceTheorems, FiniteSetTheorems,
        NaturalsInduction, WellFoundedInduction, TLAPS

-----------------------------------------------------------------------------
(* Where the threads are, and what they are doing there. *)

Places == {"idle", "waits", "disable", "log", "lock", "note", "ask", "head", "body", "end", "row",
           "find", "store", "unlock", "flag", "enable", "done"}

Calls == {<<k>> : k \in {"none", "raw", "line", "pass", "drop"}}
           \cup {<<k, g, l>> : k \in {"ask", "tag"}, g \in Tags, l \in Levels}
           \cup {<<"hex", s, w, i, c>> : s \in Nat, w \in Nat \ {0}, i \in Nat, c \in Nat}

\* What a thread may be doing at a place.
DoneAt(p) == CASE p \in {"lock", "note"} -> {"line", "raw", "hex", "tag", "ask"}
               [] p = "ask"    -> {"ask"}
               [] p = "head"   -> {"line"}
               [] p = "body"   -> {"line", "raw"}
               [] p = "end"    -> {"line"}
               [] p = "row"    -> {"hex"}
               [] p \in {"find", "store"} -> {"tag"}
               [] p = "flag"   -> {"line", "none"}
               [] p = "unlock" -> {"line", "raw", "hex", "tag", "pass", "drop"}
               [] OTHER        -> {"none"}

Cells == ElogThreads \cup {Eos, Newline, Old}

CoreTypeOK ==
  /\ locked \in BOOLEAN /\ lockEnabled \in BOOLEAN
  /\ lockedBeforeEnable \in BOOLEAN /\ lockedBeforeDisable \in BOOLEAN /\ disturbed \in BOOLEAN
  /\ lineBuf \in [1 .. LineSize -> Cells]
  /\ logLen \in [ElogThreads -> 0 .. LineSize]
  /\ slot \in [ElogThreads -> 0 .. Slots]
  /\ elogAt \in [ElogThreads -> Places]
  /\ doing \in [ElogThreads -> Calls]
  /\ dead \in Loggers \cup {Nobody}

Placed == /\ \A t \in ElogThreads : doing[t][1] \in DoneAt(elogAt[t])
          /\ \A t \in Loggers : elogAt[t] \notin {"waits", "disable", "log", "enable", "done"}
          /\ elogAt[Handler] \notin {"idle", "row", "find", "store", "flag"}
          /\ elogAt[Handler] = "waits" <=> dead = Nobody
          /\ doing[Handler][1] \notin {"raw", "hex", "tag"}

LEMMA CallParts ==
  ASSUME NEW d \in Calls
  PROVE  /\ d[1] \in {"none", "raw", "line", "pass", "drop", "ask", "tag", "hex"}
         /\ d[1] \in {"ask", "tag"} => d[2] \in Tags /\ d[3] \in Levels
         /\ d[1] = "hex" => /\ d[2] \in Nat /\ d[3] \in Nat \ {0} /\ d[4] \in Nat /\ d[5] \in Nat
                            /\ d = <<"hex", d[2], d[3], d[4], d[5]>>
BY DEF Calls

InPlaces == {"note", "ask", "head", "body", "end", "row", "find", "store", "unlock"}

LEMMA InsideIs == Inside = {t \in ElogThreads : elogAt[t] \in InPlaces}
BY DEF Inside, InPlaces

\* Whoever the lock is locked for: not the handler, and the dead only until the
\* handler is through.
Holders == (IF Handled THEN Inside \ {dead} ELSE Inside) \ {Handler}

\* A thread died between taking the lock and setting the flag.
LeftLocked == Handled /\ elogAt[dead] = "note"

\* Where the handler is says how the lock is; a fault that disturbs nobody
\* leaves at most the dead inside.
LockInv ==
  /\ lockEnabled <=> elogAt[Handler] \in {"waits", "disable", "done"}
  /\ lockedBeforeEnable <=> Handler \in Inside
  /\ dead = Nobody \/ ~disturbed =>
        /\ \A t, u \in Holders : t = u
        /\ Holders # {} => locked
        /\ locked => Holders # {} \/ LeftLocked
        /\ dead # Nobody /\ ~Handled => Holders \subseteq {dead}
  /\ ~disturbed /\ ~Handled => \A t \in Holders : elogAt[t] # "note" => lockedBeforeDisable

\* A thread goes from a place to another; what it does is by then another thing.
Goes(t, from, to) ==
  /\ Step(t, from, to) /\ t \in ElogThreads
  /\ doing' \in [ElogThreads -> Calls]
  /\ \A u \in ElogThreads \ {t} : doing'[u] = doing[u]
  /\ doing'[t][1] \in DoneAt(to)
  /\ to \in Places
  /\ IF t = Handler THEN /\ to \notin {"idle", "row", "find", "store", "flag", "waits"}
                         /\ doing'[t][1] \notin {"raw", "hex", "tag"}
     ELSE to \notin {"waits", "disable", "log", "enable", "done"}

LEMMA GoesPlaced ==
  ASSUME CoreTypeOK, Placed, NEW t, NEW from, NEW to, Goes(t, from, to)
  PROVE  Placed' /\ elogAt' \in [ElogThreads -> Places]
<1>1. /\ elogAt' = [elogAt EXCEPT ![t] = to] /\ elogAt[t] = from /\ t \in ElogThreads /\ dead' = dead
      /\ Runs(t)
  BY DEF Goes, Step
<1>2. elogAt' \in [ElogThreads -> Places]
  BY <1>1 DEF CoreTypeOK, Goes
<1>3. \A u \in ElogThreads : doing'[u][1] \in DoneAt(elogAt'[u])
  <2> SUFFICES ASSUME NEW u \in ElogThreads PROVE doing'[u][1] \in DoneAt(elogAt'[u])
    OBVIOUS
  <2>1. CASE u = t
    <3>1. elogAt'[u] = to
      BY <1>1, <2>1 DEF CoreTypeOK
    <3> QED BY <2>1, <3>1 DEF Goes
  <2>2. CASE u # t
    <3>1. elogAt'[u] = elogAt[u] /\ doing'[u] = doing[u]
      BY <1>1, <2>2 DEF CoreTypeOK, Goes
    <3> QED BY <3>1 DEF Placed
  <2> QED BY <2>1, <2>2
<1>4. \A u \in Loggers : elogAt'[u] \notin {"waits", "disable", "log", "enable", "done"}
  BY <1>1, CoreAssumption DEF CoreAssumption, CoreTypeOK, Placed, Goes, ElogThreads
<1>5. /\ elogAt'[Handler] \notin {"idle", "row", "find", "store", "flag"}
      /\ elogAt'[Handler] = "waits" <=> dead' = Nobody
      /\ doing'[Handler][1] \notin {"raw", "hex", "tag"}
  <2>1. CASE t = Handler
    <3>1. dead # Nobody
      BY <1>1, <2>1, CoreAssumption DEF CoreAssumption, Runs, Handled
    <3> QED BY <1>1, <2>1, <3>1 DEF CoreTypeOK, Goes
  <2>2. CASE t # Handler
    <3>1. elogAt'[Handler] = elogAt[Handler] /\ doing'[Handler] = doing[Handler]
      BY <1>1, <2>2 DEF CoreTypeOK, ElogThreads, Goes
    <3> QED BY <1>1, <3>1 DEF Placed
  <2> QED BY <2>1, <2>2
<1> QED BY <1>2, <1>3, <1>4, <1>5 DEF Placed

\* Who runs: everybody that is left, or the handler alone.
LEMMA RunsWho ==
  ASSUME CoreTypeOK, Placed, NEW t, Runs(t)
  PROVE  \/ /\ t \in Loggers /\ t # dead /\ t # Handler /\ (dead = Nobody \/ Handled)
            /\ elogAt[Handler] \in {"waits", "done"}
         \/ /\ t = Handler /\ dead # Nobody /\ ~Handled /\ dead \in Loggers /\ dead # Handler
            /\ elogAt[Handler] \notin {"waits", "done"}
BY CoreAssumption DEF CoreAssumption, CoreTypeOK, Placed, Runs, Handled

\* Whoever is dead stays where it was.
LEMMA DeadStays ==
  ASSUME CoreTypeOK, Placed, NEW t, NEW from, NEW to, Goes(t, from, to)
  PROVE  elogAt'[dead'] = elogAt[dead] /\ dead' = dead
<1>1. /\ elogAt' = [elogAt EXCEPT ![t] = to] /\ t \in ElogThreads /\ dead' = dead /\ Runs(t)
  BY DEF Goes, Step
<1>2. t # dead
  BY <1>1, RunsWho, CoreAssumption DEF CoreAssumption
<1> QED BY <1>1, <1>2 DEF CoreTypeOK

\* Steps that neither enter nor leave keep the lock as it was.
LEMMA GoesLock ==
  ASSUME CoreTypeOK, Placed, LockInv, NEW t, NEW from, NEW to, Goes(t, from, to),
         from \in InPlaces <=> to \in InPlaces,
         UNCHANGED <<locked, lockEnabled, lockedBeforeEnable, disturbed>>,
         lockedBeforeDisable' = TRUE \/ (UNCHANGED lockedBeforeDisable /\ from # "note"),
         t = Handler => from \notin {"waits", "disable", "enable"} /\ to \notin {"waits", "disable", "done"}
  PROVE  LockInv'
<1>1. /\ elogAt' = [elogAt EXCEPT ![t] = to] /\ elogAt[t] = from /\ t \in ElogThreads /\ dead' = dead
      /\ Runs(t)
  BY DEF Goes, Step
<1>2. Handler \in ElogThreads
  BY DEF ElogThreads
<1>3. Inside' = Inside
  BY <1>1, InsideIs DEF Inside, InPlaces, CoreTypeOK
<1>4. t = Handler => elogAt[Handler] # "done"
  BY <1>1, CoreAssumption DEF CoreAssumption, Runs, Handled
<1>5. /\ elogAt'[Handler] \in {"waits", "disable", "done"} <=> elogAt[Handler] \in {"waits", "disable", "done"}
      /\ elogAt'[Handler] = "done" <=> elogAt[Handler] = "done"
  <2>1. CASE t = Handler
    BY <1>1, <1>2, <1>4, <2>1 DEF CoreTypeOK
  <2>2. CASE t # Handler
    BY <1>1, <1>2, <2>2 DEF CoreTypeOK
  <2> QED BY <2>1, <2>2
<1>6. (Handled' <=> Handled) /\ Holders' = Holders
  BY <1>1, <1>3, <1>5 DEF Handled, Holders
<1>7. LeftLocked' <=> LeftLocked
  BY <1>6, DeadStays DEF LeftLocked
<1>8. ~disturbed' /\ ~Handled' => \A u \in Holders' : elogAt'[u] # "note" => lockedBeforeDisable'
  <2> SUFFICES ASSUME ~disturbed, ~Handled, NEW u \in Holders, elogAt'[u] # "note", lockedBeforeDisable' # TRUE
               PROVE  lockedBeforeDisable'
    BY <1>6
  <2>1. UNCHANGED lockedBeforeDisable /\ from # "note"
    OBVIOUS
  <2>2. elogAt[u] # "note"
    BY <1>1, <2>1 DEF CoreTypeOK
  <2> QED BY <2>1, <2>2 DEF LockInv
<1> QED BY <1>1, <1>3, <1>5, <1>6, <1>7, <1>8 DEF LockInv

\* Who is inside after a step of t.
LEMMA InsideAfter ==
  ASSUME CoreTypeOK, NEW t \in ElogThreads, NEW to, elogAt' = [elogAt EXCEPT ![t] = to]
  PROVE  Inside' = (Inside \ {t}) \cup IF to \in InPlaces THEN {t} ELSE {}
BY InsideIs DEF CoreTypeOK, Inside, InPlaces

\* A step of the handler that leaves the lock and its flag alone.
LEMMA SameHolders ==
  ASSUME CoreTypeOK, LockInv, ~Handled, ~Handled', Holders' = Holders, Handler \in ElogThreads,
         UNCHANGED <<locked, lockedBeforeDisable, disturbed, dead>>,
         NEW to, elogAt' = [elogAt EXCEPT ![Handler] = to]
  PROVE  /\ dead' = Nobody \/ ~disturbed' =>
              /\ \A t, u \in Holders' : t = u
              /\ Holders' # {} => locked'
              /\ locked' => Holders' # {} \/ LeftLocked'
              /\ dead' # Nobody /\ ~Handled' => Holders' \subseteq {dead'}
         /\ ~disturbed' /\ ~Handled' => \A t \in Holders' : elogAt'[t] # "note" => lockedBeforeDisable'
<1>1. \A t \in Holders : t \in ElogThreads \ {Handler}
  BY DEF Holders, Inside
<1>2. \A t \in Holders : elogAt'[t] = elogAt[t]
  BY <1>1 DEF CoreTypeOK
<1> QED BY <1>2 DEF LockInv, LeftLocked

LEMMA EntersLock ==
  ASSUME CoreTypeOK, Placed, LockInv, NEW t, NEW to, Goes(t, "lock", to), to \in InPlaces,
         lockEnabled => to = "note",
         IF lockEnabled THEN ~locked /\ locked' = TRUE /\ UNCHANGED lockedBeforeEnable
                        ELSE lockedBeforeEnable' = TRUE /\ UNCHANGED locked,
         UNCHANGED <<lockEnabled, lockedBeforeDisable, disturbed>>
  PROVE  LockInv'
<1>1. /\ elogAt' = [elogAt EXCEPT ![t] = to] /\ elogAt[t] = "lock" /\ t \in ElogThreads /\ dead' = dead
      /\ Runs(t)
  BY DEF Goes, Step
<1>2. Handler \in ElogThreads
  BY DEF ElogThreads
<1>3. Inside' = Inside \cup {t} /\ t \notin Inside
  BY <1>1, InsideAfter, InsideIs DEF InPlaces
<1>4. CASE t \in Loggers /\ t # dead /\ t # Handler /\ (dead = Nobody \/ Handled)
           /\ elogAt[Handler] \in {"waits", "done"}
  <2>1. elogAt'[Handler] = elogAt[Handler] /\ (Handled' <=> Handled)
    BY <1>1, <1>2, <1>4 DEF CoreTypeOK, Handled
  <2>2. lockEnabled /\ ~lockedBeforeEnable /\ Handler \notin Inside
    BY <1>2, <1>4, InsideIs DEF LockInv, InPlaces
  <2>3. ~locked /\ locked' = TRUE /\ ~lockedBeforeEnable' /\ elogAt'[t] = "note"
    BY <1>1, <2>2 DEF LockInv, CoreTypeOK
  <2>4. Holders' = Holders \cup {t}
    BY <1>1, <1>3, <1>4, <2>1 DEF Holders
  <2>5. dead = Nobody \/ ~disturbed => Holders = {}
    BY <2>3 DEF LockInv
  <2>6. dead' # Nobody => Handled'
    BY <1>1, <1>4, <2>1
  <2>7. lockEnabled' <=> elogAt'[Handler] \in {"waits", "disable", "done"}
    BY <1>4, <2>1, <2>2
  <2>8. lockedBeforeEnable' <=> Handler \in Inside'
    BY <1>3, <1>4, <2>2, <2>3
  <2>9. ~disturbed' /\ ~Handled' => \A u \in Holders' : elogAt'[u] # "note" => lockedBeforeDisable'
    BY <1>1, <2>3, <2>4, <2>5
  <2>10. dead' = Nobody \/ ~disturbed' => /\ Holders' = {t} /\ locked'
                                          /\ dead' # Nobody /\ ~Handled' => Holders' \subseteq {dead'}
    BY <1>1, <2>3, <2>4, <2>5, <2>6
  <2> QED BY <2>7, <2>8, <2>9, <2>10 DEF LockInv
<1>5. CASE t = Handler /\ dead # Nobody /\ ~Handled /\ elogAt[Handler] \notin {"waits", "done"}
  <2>1. elogAt'[Handler] = to /\ ~Handled'
    BY <1>1, <1>2, <1>5 DEF CoreTypeOK, Handled, InPlaces
  <2>2. ~lockEnabled /\ lockedBeforeEnable' = TRUE /\ UNCHANGED <<locked, lockedBeforeDisable>>
    BY <1>1, <1>5 DEF LockInv
  <2>3. Holders' = Holders
    BY <1>1, <1>3, <1>5, <2>1 DEF Holders
  <2>4. ~lockEnabled' /\ elogAt'[Handler] \notin {"waits", "disable", "done"} /\ Handler \in Inside'
    BY <1>3, <1>5, <2>1, <2>2 DEF InPlaces
  <2> QED BY <1>1, <1>5, <2>1, <2>2, <2>3, <2>4, SameHolders DEF LockInv
<1> QED BY <1>1, <1>4, <1>5, RunsWho

LEMMA LeavesLock ==
  ASSUME CoreTypeOK, Placed, LockInv, NEW t, NEW to, Goes(t, "unlock", to), to \notin InPlaces,
         to \in {"flag", "lock", "enable", "idle"},
         IF lockEnabled THEN locked' = FALSE /\ UNCHANGED lockedBeforeEnable
                        ELSE lockedBeforeEnable' = FALSE /\ UNCHANGED locked,
         UNCHANGED <<lockEnabled, lockedBeforeDisable, disturbed>>
  PROVE  LockInv'
<1>1. /\ elogAt' = [elogAt EXCEPT ![t] = to] /\ elogAt[t] = "unlock" /\ t \in ElogThreads /\ dead' = dead
      /\ Runs(t)
  BY DEF Goes, Step
<1>2. Handler \in ElogThreads
  BY DEF ElogThreads
<1>3. Inside' = Inside \ {t} /\ t \in Inside
  BY <1>1, InsideAfter, InsideIs DEF InPlaces
<1>4. CASE t \in Loggers /\ t # dead /\ t # Handler /\ (dead = Nobody \/ Handled)
           /\ elogAt[Handler] \in {"waits", "done"}
  <2>1. elogAt'[Handler] = elogAt[Handler] /\ (Handled' <=> Handled)
    BY <1>1, <1>2, <1>4 DEF CoreTypeOK, Handled
  <2>2. lockEnabled /\ ~lockedBeforeEnable /\ Handler \notin Inside
    BY <1>2, <1>4, InsideIs DEF LockInv, InPlaces
  <2>3. locked' = FALSE /\ ~lockedBeforeEnable'
    BY <2>2 DEF LockInv
  <2>4. Holders' = Holders \ {t} /\ t \in Holders
    BY <1>1, <1>3, <1>4, <2>1 DEF Holders
  <2>5. dead = Nobody \/ ~disturbed => Holders' = {}
    BY <2>4 DEF LockInv
  <2>6. dead' # Nobody => Handled'
    BY <1>1, <1>4, <2>1
  <2>7. lockEnabled' <=> elogAt'[Handler] \in {"waits", "disable", "done"}
    BY <1>4, <2>1, <2>2
  <2>8. lockedBeforeEnable' <=> Handler \in Inside'
    BY <1>3, <2>2, <2>3
  <2>9. ~disturbed' => Holders' = {}
    BY <2>5
  <2>10. dead' = Nobody \/ ~disturbed' => Holders' = {} /\ ~locked'
    BY <1>1, <2>3, <2>5
  <2> QED BY <1>1, <2>7, <2>8, <2>9, <2>10 DEF LockInv
<1>5. CASE t = Handler /\ dead # Nobody /\ ~Handled /\ elogAt[Handler] \notin {"waits", "done"}
  <2>1. elogAt'[Handler] = to /\ ~Handled'
    BY <1>1, <1>2, <1>5 DEF CoreTypeOK, Handled
  <2>2. ~lockEnabled /\ lockedBeforeEnable' = FALSE /\ UNCHANGED <<locked, lockedBeforeDisable>>
    BY <1>1, <1>5 DEF LockInv
  <2>3. Holders' = Holders
    BY <1>1, <1>3, <1>5, <2>1 DEF Holders
  <2>4. ~lockEnabled' /\ elogAt'[Handler] \notin {"waits", "disable", "done"} /\ Handler \notin Inside'
    BY <1>3, <1>5, <2>1, <2>2
  <2> QED BY <1>1, <1>5, <2>1, <2>2, <2>3, <2>4, SameHolders DEF LockInv
<1> QED BY <1>1, <1>4, <1>5, RunsWho

LEMMA ClearsFlag ==
  ASSUME CoreTypeOK, Placed, LockInv, NEW t, NEW to, Goes(t, "flag", to), to \in {"lock", "idle"},
         lockedBeforeDisable' = FALSE,
         disturbed' = (disturbed \/ \E u \in Inside : elogAt[u] # "note"),
         UNCHANGED <<locked, lockEnabled, lockedBeforeEnable>>
  PROVE  LockInv'
<1>1. /\ elogAt' = [elogAt EXCEPT ![t] = to] /\ elogAt[t] = "flag" /\ t \in ElogThreads /\ dead' = dead
      /\ t # Handler
  BY DEF Goes, Step, Placed
<1>2. Inside' = Inside
  BY <1>1, InsideAfter, InsideIs DEF InPlaces
<1>3. elogAt'[Handler] = elogAt[Handler] /\ (Handled' <=> Handled)
  BY <1>1 DEF CoreTypeOK, Handled, ElogThreads
<1>4. Holders' = Holders /\ Holders \subseteq Inside
  BY <1>1, <1>2, <1>3 DEF Holders
<1>5. ~disturbed' => ~disturbed /\ \A u \in Holders : elogAt[u] = "note"
  BY <1>4
<1>6. ~disturbed' => \A u \in Holders' : elogAt'[u] = "note"
  <2> SUFFICES ASSUME ~disturbed', NEW u \in Holders PROVE elogAt'[u] = "note"
    BY <1>4
  <2>1. u # t /\ elogAt[u] = "note"
    BY <1>1, <1>5
  <2> QED BY <1>1, <2>1 DEF CoreTypeOK
<1>7. LeftLocked' <=> LeftLocked
  BY <1>3, DeadStays DEF LeftLocked
<1> QED BY <1>1, <1>2, <1>3, <1>4, <1>5, <1>6, <1>7 DEF LockInv

\* The fault: whoever else is inside, the flag disturbed says so.
LEMMA FaultLock ==
  ASSUME CoreTypeOK, Placed, LockInv, NEW t \in Loggers, Fault(t)
  PROVE  LockInv' /\ Placed' /\ elogAt' \in [ElogThreads -> Places]
<1>1. /\ dead = Nobody /\ dead' = t /\ elogAt' = [elogAt EXCEPT ![Handler] = "disable"]
      /\ disturbed' = (disturbed \/ Inside \ {t} # {})
      /\ UNCHANGED <<locked, lockEnabled, lockedBeforeEnable, lockedBeforeDisable, doing>>
  BY DEF Fault
<1>2. t # Nobody /\ t # Handler /\ Handler \in ElogThreads
  BY CoreAssumption DEF CoreAssumption, ElogThreads
<1>3. elogAt[Handler] = "waits" /\ elogAt'[Handler] = "disable"
  BY <1>1, <1>2 DEF Placed, CoreTypeOK
<1>4. Inside' = Inside /\ Handler \notin Inside
  <2>1. Handler \notin Inside
    BY <1>3, InsideIs DEF InPlaces
  <2>2. Inside' = (Inside \ {Handler}) \cup IF "disable" \in InPlaces THEN {Handler} ELSE {}
    BY <1>1, <1>2, InsideAfter
  <2> QED BY <2>1, <2>2 DEF InPlaces
<1>5. ~Handled /\ ~Handled'
  BY <1>1, <1>3 DEF Handled
<1>6. Holders = Inside /\ Holders' = Inside
  BY <1>4, <1>5 DEF Holders
<1>7. /\ \A u, v \in Inside : u = v
      /\ locked <=> Inside # {}
      /\ ~disturbed => \A u \in Inside : elogAt[u] # "note" => lockedBeforeDisable
      /\ lockEnabled /\ ~lockedBeforeEnable
  BY <1>1, <1>3, <1>4, <1>5, <1>6 DEF LockInv, LeftLocked
<1>8. ~disturbed' => Inside \subseteq {t}
  BY <1>1
<1>9. LockInv'
  <2>1. lockEnabled' /\ elogAt'[Handler] \in {"waits", "disable", "done"}
    BY <1>1, <1>3, <1>7
  <2>2. ~lockedBeforeEnable' /\ Handler \notin Inside'
    BY <1>1, <1>4, <1>7
  <2>3. ~disturbed' => ~disturbed
    BY <1>1
  <2>4. \A u \in Inside : elogAt'[u] = elogAt[u]
    BY <1>1, <1>4 DEF CoreTypeOK, Inside
  <2> QED BY <1>1, <1>5, <1>6, <1>7, <1>8, <2>1, <2>2, <2>3, <2>4 DEF LockInv
<1>10. elogAt' \in [ElogThreads -> Places]
  BY <1>1 DEF CoreTypeOK, Places
<1>11. Placed'
  <2>1. \A u \in ElogThreads \ {Handler} : elogAt'[u] = elogAt[u]
    BY <1>1 DEF CoreTypeOK
  <2>2. doing'[Handler][1] \in DoneAt(elogAt'[Handler])
    <3>1. doing[Handler][1] \in DoneAt("waits")
      BY <1>2, <1>3 DEF Placed
    <3> QED BY <1>1, <1>3, <3>1 DEF DoneAt
  <2>3. \A u \in ElogThreads : doing'[u][1] \in DoneAt(elogAt'[u])
    BY <1>1, <2>1, <2>2 DEF Placed
  <2>4. \A u \in Loggers : elogAt'[u] \notin {"waits", "disable", "log", "enable", "done"}
    BY <2>1, CoreAssumption DEF CoreAssumption, ElogThreads, Placed
  <2> QED BY <1>1, <1>2, <1>3, <2>3, <2>4 DEF Placed
<1> QED BY <1>9, <1>10, <1>11

LEMMA DisableLockLock ==
  ASSUME CoreTypeOK, Placed, LockInv, Goes(Handler, "disable", "log"), lockEnabled' = FALSE,
         UNCHANGED <<locked, lockedBeforeEnable, lockedBeforeDisable, disturbed>>
  PROVE  LockInv'
<1>1. /\ elogAt' = [elogAt EXCEPT ![Handler] = "log"] /\ elogAt[Handler] = "disable"
      /\ Handler \in ElogThreads /\ dead' = dead
  BY DEF Goes, Step
<1>2. Inside' = Inside
  <2>1. Handler \notin Inside
    BY <1>1, InsideIs DEF InPlaces
  <2>2. Inside' = (Inside \ {Handler}) \cup IF "log" \in InPlaces THEN {Handler} ELSE {}
    BY <1>1, InsideAfter
  <2> QED BY <2>1, <2>2 DEF InPlaces
<1>3. elogAt'[Handler] = "log" /\ ~Handled /\ ~Handled'
  BY <1>1 DEF CoreTypeOK, Handled
<1>4. Holders' = Holders
  BY <1>1, <1>2, <1>3 DEF Holders
<1> QED BY <1>1, <1>2, <1>3, <1>4, SameHolders DEF LockInv

\* The handler unlocks what the dead had locked, and nothing else.
LEMMA EnableLockLock ==
  ASSUME CoreTypeOK, Placed, LockInv, Goes(Handler, "enable", "done"), lockEnabled' = TRUE,
         locked' = (CASE ~lockedBeforeDisable /\ lockedBeforeEnable -> TRUE
                      [] lockedBeforeDisable /\ ~lockedBeforeEnable -> FALSE
                      [] OTHER -> locked),
         UNCHANGED <<lockedBeforeEnable, lockedBeforeDisable, disturbed>>
  PROVE  LockInv'
<1>1. /\ elogAt' = [elogAt EXCEPT ![Handler] = "done"] /\ elogAt[Handler] = "enable"
      /\ Handler \in ElogThreads /\ dead' = dead /\ dead # Nobody
  BY DEF Goes, Step, Placed
<1>2. Inside' = Inside /\ Handler \notin Inside
  <2>1. Handler \notin Inside
    BY <1>1, InsideIs DEF InPlaces
  <2>2. Inside' = (Inside \ {Handler}) \cup IF "done" \in InPlaces THEN {Handler} ELSE {}
    BY <1>1, InsideAfter
  <2> QED BY <2>1, <2>2 DEF InPlaces
<1>3. elogAt'[Handler] = "done" /\ ~Handled /\ Handled'
  BY <1>1 DEF CoreTypeOK, Handled
<1>4. ~lockedBeforeEnable
  BY <1>2 DEF LockInv
<1>5. locked' = IF lockedBeforeDisable THEN FALSE ELSE locked
  BY <1>4 DEF CoreTypeOK
<1>6. ASSUME ~disturbed PROVE Holders' = {} /\ (locked' => LeftLocked')
  <2>1. Holders = Inside /\ Holders' = Inside \ {dead}
    BY <1>1, <1>2, <1>3 DEF Holders
  <2>2. /\ Holders \subseteq {dead} /\ (locked => Holders # {})
        /\ \A u \in Holders : elogAt[u] # "note" => lockedBeforeDisable
    BY <1>1, <1>3, <1>6 DEF LockInv, LeftLocked
  <2>3. elogAt'[dead'] = elogAt[dead]
    BY DeadStays
  <2>4. ~lockedBeforeDisable /\ locked => elogAt[dead] = "note"
    BY <2>2
  <2> QED BY <1>3, <1>5, <2>1, <2>2, <2>3, <2>4 DEF LeftLocked
<1> QED BY <1>1, <1>2, <1>3, <1>4, <1>6 DEF LockInv

-----------------------------------------------------------------------------
(* Every action of elog.c is a step of one thread from a place to another. *)

Kept == CoreTypeOK /\ Placed /\ LockInv

LEMMA OutputGoes ==
  ASSUME Kept, NEW t \in ElogThreads, ElogOutput(t)
  PROVE  Goes(t, IF t = Handler THEN "log" ELSE "idle", "lock")
<1>1. PICK g \in Tags, level \in Levels :
        /\ Step(t, IF t = Handler THEN "log" ELSE "idle", "lock")
        /\ doing' = [doing EXCEPT ![t] = <<"ask", g, level>>]
  BY DEF ElogOutput
<1>2. <<"ask", g, level>> \in Calls
  BY DEF Calls
<1> QED BY <1>1, <1>2 DEF Goes, Kept, CoreTypeOK, DoneAt, Places

LEMMA RawGoes ==
  ASSUME Kept, NEW t \in Loggers, ElogRaw(t)
  PROVE  Goes(t, "idle", "lock")
<1>1. <<"raw">> \in Calls /\ t \in ElogThreads /\ t # Handler
  BY CoreAssumption DEF CoreAssumption, Calls, ElogThreads
<1> QED BY <1>1 DEF ElogRaw, Goes, Kept, CoreTypeOK, DoneAt, Places

LEMMA SetTagLvlGoes ==
  ASSUME Kept, NEW t \in Loggers, ElogSetTagLvl(t)
  PROVE  Goes(t, "idle", "lock")
<1>1. PICK g \in Tags, level \in Levels :
        /\ Step(t, "idle", "lock")
        /\ doing' = [doing EXCEPT ![t] = <<"tag", g, level>>]
  BY DEF ElogSetTagLvl
<1>2. <<"tag", g, level>> \in Calls /\ t \in ElogThreads /\ t # Handler
  BY CoreAssumption DEF CoreAssumption, Calls, ElogThreads
<1> QED BY <1>1, <1>2 DEF Goes, Kept, CoreTypeOK, DoneAt, Places

LEMMA HexCall ==
  ASSUME NEW s \in Nat, NEW w \in Nat \ {0}, NEW i \in Nat, NEW c \in Nat
  PROVE  <<"hex", s, w, i, c>> \in Calls
BY DEF Calls

LEMMA HexdumpGoes ==
  ASSUME Kept, NEW t \in Loggers, ElogHexdump(t)
  PROVE  Goes(t, "idle", "lock")
<1>1. PICK d \in Dumps :
        /\ Step(t, "idle", "lock")
        /\ doing' = [doing EXCEPT ![t] = <<"hex", d[1], d[2], 0, 0>>]
  BY DEF ElogHexdump
<1>2. d[1] \in Nat /\ d[2] \in Nat \ {0} /\ t \in ElogThreads /\ t # Handler
  BY CoreAssumption DEF CoreAssumption, ElogThreads
<1>3. <<"hex", d[1], d[2], 0, 0>> \in Calls
  BY <1>2, HexCall
<1> QED BY <1>1, <1>2, <1>3 DEF Goes, Kept, CoreTypeOK, DoneAt, Places

LEMMA AskGoes ==
  ASSUME Kept, NEW t \in ElogThreads, AskLevel(t)
  PROVE  Goes(t, "ask", "unlock")
<1>1. <<"pass">> \in Calls /\ <<"drop">> \in Calls
  BY DEF Calls
<1>2. PICK d \in {<<"pass">>, <<"drop">>} : doing' = [doing EXCEPT ![t] = d]
  BY DEF AskLevel
<1>3. d \in Calls /\ d[1] \in {"pass", "drop"}
  BY <1>1
<1>4. Step(t, "ask", "unlock") /\ doing \in [ElogThreads -> Calls]
  BY DEF AskLevel, Kept, CoreTypeOK
<1>5. /\ doing' \in [ElogThreads -> Calls] /\ doing'[t] = d
      /\ \A u \in ElogThreads \ {t} : doing'[u] = doing[u]
  BY <1>2, <1>3, <1>4
<1>6. {"pass", "drop"} \subseteq DoneAt("unlock") /\ "unlock" \in Places
  BY DEF DoneAt, Places
<1> QED BY <1>3, <1>4, <1>5, <1>6 DEF Goes

LEMMA CallPlaces ==
  ASSUME Kept, NEW t \in ElogThreads, elogAt[t] \in {"lock", "note"}
  PROVE  /\ CallPlace(t) \in {"head", "body", "row", "find", "ask"}
         /\ CallPlace(t) = "body" => doing[t][1] = "raw"
         /\ doing[t][1] \in DoneAt(CallPlace(t))
         /\ t = Handler => CallPlace(t) \in {"head", "ask"}
<1>1. /\ doing[t][1] \in {"line", "raw", "hex", "tag", "ask"}
      /\ t = Handler => doing[t][1] \in {"line", "ask"}
  BY DEF Kept, Placed, DoneAt
<1>2. PICK p : p = CallPlace(t)
  OBVIOUS
<1>3. \/ doing[t][1] = "line" /\ p = "head"
      \/ doing[t][1] = "raw" /\ p = "body"
      \/ doing[t][1] = "hex" /\ p = "row"
      \/ doing[t][1] = "tag" /\ p = "find"
      \/ doing[t][1] = "ask" /\ p = "ask"
  BY <1>1, <1>2 DEF CallPlace
<1>4. doing[t][1] \in DoneAt(p)
  BY <1>3 DEF DoneAt
<1> QED BY <1>1, <1>2, <1>3, <1>4

LEMMA LockGoes ==
  ASSUME Kept, NEW t \in ElogThreads, OutputLock(t)
  PROVE  \E to \in {"note", "head", "body", "row", "find", "ask"} :
           /\ Goes(t, "lock", to) /\ (to = "body" => doing[t][1] = "raw")
           /\ lockEnabled => to = "note"
<1>1. elogAt[t] = "lock" /\ UNCHANGED doing
  BY DEF OutputLock, Step
<1>2. PICK p : p = CallPlace(t)
  OBVIOUS
<1>3. /\ p \in {"head", "body", "row", "find", "ask"} /\ (p = "body" => doing[t][1] = "raw")
      /\ doing[t][1] \in DoneAt(p) /\ (t = Handler => p \in {"head", "ask"})
  BY <1>1, <1>2, CallPlaces
<1>4. doing[t][1] \in DoneAt("note")
  BY <1>1 DEF Kept, Placed, DoneAt
<1>5. PICK to : Step(t, "lock", to) /\ to = IF lockEnabled THEN "note" ELSE p
  BY <1>2 DEF OutputLock
<1>6. doing[t][1] \in DoneAt(to)
  BY <1>3, <1>4, <1>5
<1>7. Goes(t, "lock", to)
  BY <1>1, <1>3, <1>5, <1>6 DEF Goes, Kept, CoreTypeOK, Places, Placed
<1> QED BY <1>3, <1>5, <1>7

LEMMA SetFlagGoes ==
  ASSUME Kept, NEW t \in Loggers, SetFlag(t)
  PROVE  \E to \in {"head", "body", "row", "find", "ask"} :
           Goes(t, "note", to) /\ (to = "body" => doing[t][1] = "raw")
<1>1. elogAt[t] = "note" /\ UNCHANGED doing /\ t \in ElogThreads /\ t # Handler
  BY CoreAssumption DEF CoreAssumption, ElogThreads, SetFlag, Step
<1>2. PICK to : Step(t, "note", to) /\ to = CallPlace(t)
  BY DEF SetFlag
<1>3. /\ to \in {"head", "body", "row", "find", "ask"} /\ (to = "body" => doing[t][1] = "raw")
      /\ doing[t][1] \in DoneAt(to)
  BY <1>1, <1>2, CallPlaces
<1>4. Goes(t, "note", to)
  BY <1>1, <1>2, <1>3 DEF Goes, Kept, CoreTypeOK, Places
<1> QED BY <1>3, <1>4

LEMMA UnlockGoes ==
  ASSUME Kept, NEW t \in ElogThreads, OutputUnlock(t)
  PROVE  \E to \in {"flag", "lock", "enable", "idle"} : Goes(t, "unlock", to)
<1>1. /\ elogAt[t] = "unlock" /\ doing[t] \in Calls
      /\ doing[t][1] \in {"line", "raw", "hex", "tag", "pass", "drop"}
      /\ t = Handler => ~lockEnabled
  BY DEF OutputUnlock, Step, Kept, Placed, LockInv, CoreTypeOK, DoneAt
<1> DEFINE To == CASE lockEnabled -> "flag"
                   [] ~lockEnabled /\ doing[t][1] = "pass" -> "lock"
                   [] ~lockEnabled /\ doing[t][1] # "pass" ->
                        IF t = Handler THEN "enable" ELSE "idle"
           D == <<IF doing[t][1] = "pass" THEN "line" ELSE "none">>
<1>2. Step(t, "unlock", To) /\ doing' = [doing EXCEPT ![t] = D]
  BY <1>1 DEF OutputUnlock
<1>3. D \in Calls /\ D[1] = IF doing[t][1] = "pass" THEN "line" ELSE "none"
  BY DEF Calls
<1>4. To \in {"flag", "lock", "enable", "idle"}
  BY <1>1
<1>5. D[1] \in DoneAt(To)
  BY <1>1, <1>3 DEF DoneAt
<1>6. IF t = Handler THEN To \in {"lock", "enable"} ELSE To # "enable"
  BY <1>1, <1>4
<1>7. D[1] \notin {"raw", "hex", "tag"}
  BY <1>3
<1> HIDE DEF To, D
<1>8. doing' \in [ElogThreads -> Calls] /\ doing'[t] = D
  BY <1>2, <1>3 DEF Kept, CoreTypeOK
<1>9. \A u \in ElogThreads \ {t} : doing'[u] = doing[u]
  BY <1>2 DEF Kept, CoreTypeOK
<1>10. To \in Places
  BY <1>4 DEF Places
<1>11. Goes(t, "unlock", To)
  BY <1>2, <1>4, <1>5, <1>6, <1>7, <1>8, <1>9, <1>10 DEF Goes
<1> QED BY <1>4, <1>11

LEMMA ClearFlagGoes ==
  ASSUME Kept, NEW t \in Loggers, ClearFlag(t)
  PROVE  \E to \in {"lock", "idle"} : Goes(t, "flag", to)
<1>1. /\ elogAt[t] = "flag" /\ UNCHANGED doing /\ t \in ElogThreads /\ t # Handler
      /\ doing[t][1] \in {"line", "none"}
  BY CoreAssumption
  DEF CoreAssumption, ElogThreads, ClearFlag, Step, Kept, Placed, CoreTypeOK, DoneAt
<1>2. PICK to : Step(t, "flag", to) /\ to = IF doing[t][1] = "line" THEN "lock" ELSE "idle"
  BY DEF ClearFlag
<1>3. Goes(t, "flag", to) /\ to \in {"lock", "idle"}
  BY <1>1, <1>2 DEF Goes, Kept, CoreTypeOK, Places, DoneAt
<1> QED BY <1>3

LEMMA PackGoes ==
  ASSUME Kept, NEW t \in ElogThreads
  PROVE  /\ PackHead(t) => Goes(t, "head", "body")
         /\ PackBody(t) => Goes(t, "body", IF doing[t][1] = "raw" THEN "unlock" ELSE "end")
         /\ PackEnd(t) => Goes(t, "end", "unlock")
<1>1. elogAt[t] = "head" => doing[t][1] = "line"
  BY DEF Kept, Placed, DoneAt
<1>2. elogAt[t] = "body" => doing[t][1] \in {"line", "raw"}
  BY DEF Kept, Placed, DoneAt
<1>3. elogAt[t] = "end" => doing[t][1] = "line"
  BY DEF Kept, Placed, DoneAt
<1>4. t = Handler => doing[t][1] \notin {"raw", "hex", "tag"}
  BY DEF Kept, Placed
<1>5. PackHead(t) => Goes(t, "head", "body")
  BY <1>1, <1>4 DEF PackHead, Step, Goes, Kept, CoreTypeOK, DoneAt, Places
<1>6. PackBody(t) => Goes(t, "body", IF doing[t][1] = "raw" THEN "unlock" ELSE "end")
  BY <1>2, <1>4 DEF PackBody, Step, Goes, Kept, CoreTypeOK, DoneAt, Places
<1>7. PackEnd(t) => Goes(t, "end", "unlock")
  BY <1>3, <1>4 DEF PackEnd, Step, Goes, Kept, CoreTypeOK, DoneAt, Places
<1> QED BY <1>5, <1>6, <1>7

LEMMA NextRowIsNat ==
  ASSUME NEW i \in Nat, NEW w \in Nat
  PROVE  NextRow(i, w) \in Nat
BY CoreAssumption DEF CoreAssumption, NextRow

LEMMA DumpGoes ==
  ASSUME Kept, NEW t \in Loggers, DumpRow(t)
  PROVE  \E to \in {"row", "unlock"} : Goes(t, "row", to)
<1>1. t \in ElogThreads /\ t # Handler
  BY CoreAssumption DEF CoreAssumption, ElogThreads
<1>2. elogAt[t] = "row" /\ doing[t] \in Calls /\ doing[t][1] = "hex"
  BY <1>1 DEF DumpRow, Step, Kept, Placed, CoreTypeOK, DoneAt
<1>3. /\ doing[t][2] \in Nat /\ doing[t][3] \in Nat \ {0}
      /\ doing[t][4] \in Nat /\ doing[t][5] \in Nat
  BY <1>2, CallParts
<1>4. PICK d \in Calls : d = <<"hex", doing[t][2], doing[t][3],
                              NextRow(doing[t][4], doing[t][3]), doing[t][5] + 1>>
  <2>1. NextRow(doing[t][4], doing[t][3]) \in Nat
    BY <1>3, NextRowIsNat
  <2>2. doing[t][5] + 1 \in Nat
    BY <1>3
  <2> QED BY <1>3, <2>1, <2>2, HexCall
<1>5. d[1] = "hex"
  BY <1>4
<1>6. CASE Step(t, "row", "row") /\ doing' = [doing EXCEPT ![t] = d]
  BY <1>1, <1>2, <1>5, <1>6 DEF Goes, Kept, CoreTypeOK, DoneAt, Places
<1>7. CASE Step(t, "row", "unlock") /\ UNCHANGED doing
  BY <1>1, <1>2, <1>7 DEF Goes, Kept, CoreTypeOK, DoneAt, Places
<1> QED BY <1>4, <1>6, <1>7 DEF DumpRow

LEMMA TagGoes ==
  ASSUME Kept, NEW t \in Loggers
  PROVE  /\ FindTag(t) => Goes(t, "find", "store")
         /\ StoreTag(t) => Goes(t, "store", "unlock")
<1>1. t \in ElogThreads /\ t # Handler
  BY CoreAssumption DEF CoreAssumption, ElogThreads
<1>2. elogAt[t] \in {"find", "store"} => doing[t][1] = "tag"
  BY <1>1 DEF Kept, Placed, DoneAt
<1>3. FindTag(t) => Goes(t, "find", "store")
  BY <1>1, <1>2 DEF FindTag, Step, Goes, Kept, CoreTypeOK, DoneAt, Places
<1>4. StoreTag(t) => Goes(t, "store", "unlock")
  BY <1>1, <1>2 DEF StoreTag, Step, Goes, Kept, CoreTypeOK, DoneAt, Places
<1> QED BY <1>3, <1>4

LEMMA HandlerGoes ==
  ASSUME Kept
  PROVE  /\ DisableLock => Goes(Handler, "disable", "log")
         /\ EnableLock => Goes(Handler, "enable", "done")
<1>1. Handler \in ElogThreads
  BY DEF ElogThreads
<1>2. elogAt[Handler] \in {"disable", "enable"} => doing[Handler][1] = "none"
  BY <1>1 DEF Kept, Placed, DoneAt
<1>3. DisableLock => Goes(Handler, "disable", "log")
  BY <1>1, <1>2 DEF DisableLock, Step, Goes, Kept, CoreTypeOK, DoneAt, Places
<1>4. EnableLock => Goes(Handler, "enable", "done")
  BY <1>1, <1>2 DEF EnableLock, Step, Goes, Kept, CoreTypeOK, DoneAt, Places
<1> QED BY <1>3, <1>4

-----------------------------------------------------------------------------
(* The types, the places and the lock are kept. *)

LEMMA KeptByGoing ==
  ASSUME Kept, NEW t, NEW from, NEW to, Goes(t, from, to), LockInv',
         locked' \in BOOLEAN, lockEnabled' \in BOOLEAN, lockedBeforeEnable' \in BOOLEAN,
         lockedBeforeDisable' \in BOOLEAN, disturbed' \in BOOLEAN,
         lineBuf' \in [1 .. LineSize -> Cells], logLen' \in [ElogThreads -> 0 .. LineSize],
         slot' \in [ElogThreads -> 0 .. Slots]
  PROVE  Kept'
<1>1. Placed' /\ elogAt' \in [ElogThreads -> Places]
  BY GoesPlaced DEF Kept
<1> QED BY <1>1 DEF Kept, CoreTypeOK, Goes, Step

\* The steps that leave the lock alone.
LEMMA KeptByQuiet ==
  ASSUME Kept, NEW t, NEW from, NEW to, Goes(t, from, to), UNCHANGED lockVars,
         from \in InPlaces <=> to \in InPlaces, from # "note",
         t = Handler => from \notin {"waits", "disable", "enable"} /\ to \notin {"waits", "disable", "done"},
         lineBuf' \in [1 .. LineSize -> Cells], logLen' \in [ElogThreads -> 0 .. LineSize],
         slot' \in [ElogThreads -> 0 .. Slots]
  PROVE  Kept'
<1>1. LockInv'
  BY GoesLock DEF Kept, lockVars
<1> QED BY <1>1, KeptByGoing DEF Kept, CoreTypeOK, lockVars

LEMMA CallsKeep ==
  ASSUME Kept
  PROVE  /\ \A t \in ElogThreads : ElogOutput(t) \/ AskLevel(t) => Kept'
         /\ \A t \in Loggers : ElogRaw(t) \/ ElogSetTagLvl(t) \/ ElogHexdump(t) => Kept'
<1>1. ASSUME NEW t \in ElogThreads, ElogOutput(t) PROVE Kept'
  <2>1. Goes(t, IF t = Handler THEN "log" ELSE "idle", "lock")
    BY <1>1, OutputGoes
  <2>2. UNCHANGED <<lockVars, lineBuf, logLen, slot>>
    BY <1>1 DEF ElogOutput, tagVars
  <2> QED BY <2>1, <2>2, KeptByQuiet DEF Kept, CoreTypeOK, InPlaces
<1>2. ASSUME NEW t \in ElogThreads, AskLevel(t) PROVE Kept'
  <2>1. UNCHANGED <<lockVars, lineBuf, logLen, slot>>
    BY <1>2 DEF AskLevel, tagVars
  <2> QED BY <1>2, <2>1, AskGoes, KeptByQuiet DEF Kept, CoreTypeOK, InPlaces
<1>3. ASSUME NEW t \in Loggers, ElogRaw(t) \/ ElogSetTagLvl(t) \/ ElogHexdump(t) PROVE Kept'
  <2>1. UNCHANGED <<lockVars, lineBuf, logLen, slot>>
    BY <1>3 DEF ElogRaw, ElogSetTagLvl, ElogHexdump, tagVars
  <2>2. Goes(t, "idle", "lock")
    BY <1>3, RawGoes, SetTagLvlGoes, HexdumpGoes
  <2> QED BY <2>1, <2>2, KeptByQuiet DEF Kept, CoreTypeOK, InPlaces
<1> QED BY <1>1, <1>2, <1>3

LEMMA LocksKeep ==
  ASSUME Kept
  PROVE  /\ \A t \in ElogThreads : OutputLock(t) \/ OutputUnlock(t) => Kept'
         /\ \A t \in Loggers : SetFlag(t) \/ ClearFlag(t) \/ Fault(t) => Kept'
         /\ DisableLock \/ EnableLock => Kept'
<1>1. ASSUME NEW t \in ElogThreads, OutputLock(t) PROVE Kept'
  <2>1. PICK to \in InPlaces : Goes(t, "lock", to) /\ (lockEnabled => to = "note")
    BY <1>1, LockGoes DEF InPlaces
  <2>2. /\ IF lockEnabled THEN ~locked /\ locked' = TRUE /\ UNCHANGED lockedBeforeEnable
                          ELSE lockedBeforeEnable' = TRUE /\ UNCHANGED locked
        /\ UNCHANGED <<lockEnabled, lockedBeforeDisable, disturbed, lineBuf, logLen, slot>>
    BY <1>1 DEF OutputLock, tagVars
  <2>3. LockInv'
    BY <2>1, <2>2, EntersLock DEF Kept
  <2>4. locked' \in BOOLEAN /\ lockedBeforeEnable' \in BOOLEAN
    BY <2>2 DEF Kept, CoreTypeOK
  <2> QED BY <2>1, <2>2, <2>3, <2>4, KeptByGoing DEF Kept, CoreTypeOK
<1>2. ASSUME NEW t \in ElogThreads, OutputUnlock(t) PROVE Kept'
  <2>1. PICK to \in {"flag", "lock", "enable", "idle"} : Goes(t, "unlock", to)
    BY <1>2, UnlockGoes
  <2>2. /\ IF lockEnabled THEN locked' = FALSE /\ UNCHANGED lockedBeforeEnable
                          ELSE lockedBeforeEnable' = FALSE /\ UNCHANGED locked
        /\ UNCHANGED <<lockEnabled, lockedBeforeDisable, disturbed>>
        /\ logLen' = [logLen EXCEPT ![t] = 0] /\ slot' = [slot EXCEPT ![t] = 0]
        /\ lineBuf' = [i \in 1 .. LineSize |-> IF lineBuf[i] = t THEN Old ELSE lineBuf[i]]
    BY <1>2 DEF OutputUnlock
  <2>3. LockInv'
    BY <2>1, <2>2, LeavesLock DEF Kept, InPlaces
  <2>4. locked' \in BOOLEAN /\ lockedBeforeEnable' \in BOOLEAN
    BY <2>2 DEF Kept, CoreTypeOK
  <2>5. lineBuf' \in [1 .. LineSize -> Cells]
    BY <2>2 DEF Kept, CoreTypeOK, Cells
  <2>6. logLen' \in [ElogThreads -> 0 .. LineSize] /\ slot' \in [ElogThreads -> 0 .. Slots]
    BY <2>2, CoreAssumption DEF CoreAssumption, Kept, CoreTypeOK
  <2> QED BY <2>1, <2>2, <2>3, <2>4, <2>5, <2>6, KeptByGoing DEF Kept, CoreTypeOK
<1>3. ASSUME NEW t \in Loggers, ClearFlag(t) PROVE Kept'
  <2>1. PICK to \in {"lock", "idle"} : Goes(t, "flag", to)
    BY <1>3, ClearFlagGoes
  <2>2. /\ lockedBeforeDisable' = FALSE
        /\ disturbed' = (disturbed \/ \E u \in Inside : elogAt[u] # "note")
        /\ UNCHANGED <<locked, lockEnabled, lockedBeforeEnable, lineBuf, logLen, slot>>
    BY <1>3 DEF ClearFlag, tagVars
  <2>3. LockInv'
    BY <2>1, <2>2, ClearsFlag DEF Kept
  <2>4. disturbed' \in BOOLEAN /\ lockedBeforeDisable' \in BOOLEAN
    BY <2>2 DEF Kept, CoreTypeOK
  <2> QED BY <2>1, <2>2, <2>3, <2>4, KeptByGoing DEF Kept, CoreTypeOK
<1>4. ASSUME NEW t \in Loggers, Fault(t) PROVE Kept'
  <2>1. LockInv' /\ Placed' /\ elogAt' \in [ElogThreads -> Places]
    BY <1>4, FaultLock DEF Kept
  <2>2. /\ dead' = t /\ disturbed' = (disturbed \/ Inside \ {t} # {})
        /\ UNCHANGED <<locked, lockEnabled, lockedBeforeEnable, lockedBeforeDisable,
                       lineBuf, logLen, slot, doing>>
    BY <1>4 DEF Fault, tagVars
  <2> QED BY <2>1, <2>2 DEF Kept, CoreTypeOK
<1>5. ASSUME DisableLock PROVE Kept'
  <2>1. /\ lockEnabled' = FALSE
        /\ UNCHANGED <<locked, lockedBeforeEnable, lockedBeforeDisable, disturbed,
                       lineBuf, logLen, slot>>
    BY <1>5 DEF DisableLock, tagVars
  <2>2. Goes(Handler, "disable", "log") /\ LockInv'
    BY <1>5, <2>1, HandlerGoes, DisableLockLock DEF Kept
  <2> QED BY <2>1, <2>2, KeptByGoing DEF Kept, CoreTypeOK
<1>6. ASSUME EnableLock PROVE Kept'
  <2>1. /\ lockEnabled' = TRUE
        /\ locked' = CASE ~lockedBeforeDisable /\ lockedBeforeEnable -> TRUE
                       [] lockedBeforeDisable /\ ~lockedBeforeEnable -> FALSE
                       [] OTHER -> locked
        /\ UNCHANGED <<lockedBeforeEnable, lockedBeforeDisable, disturbed, lineBuf, logLen, slot>>
    BY <1>6 DEF EnableLock, tagVars
  <2>2. Goes(Handler, "enable", "done") /\ LockInv'
    BY <1>6, <2>1, HandlerGoes, EnableLockLock DEF Kept
  <2>3. locked' \in BOOLEAN
    BY <2>1 DEF Kept, CoreTypeOK
  <2> QED BY <2>1, <2>2, <2>3, KeptByGoing DEF Kept, CoreTypeOK
<1>7. ASSUME NEW t \in Loggers, SetFlag(t) PROVE Kept'
  <2>1. PICK to \in InPlaces : Goes(t, "note", to)
    BY <1>7, SetFlagGoes DEF InPlaces
  <2>2. /\ lockedBeforeDisable' = TRUE
        /\ UNCHANGED <<locked, lockEnabled, lockedBeforeEnable, disturbed, lineBuf, logLen, slot>>
    BY <1>7 DEF SetFlag, tagVars
  <2>3. t # Handler /\ "note" \in InPlaces
    BY CoreAssumption DEF CoreAssumption, InPlaces
  <2>4. LockInv'
    BY <2>1, <2>2, <2>3, GoesLock DEF Kept
  <2> QED BY <2>1, <2>2, <2>4, KeptByGoing DEF Kept, CoreTypeOK
<1> QED BY <1>1, <1>2, <1>3, <1>4, <1>5, <1>6, <1>7

LEMMA WrittenIs ==
  ASSUME CoreTypeOK, NEW from \in Int, NEW to \in Int, NEW v \in Cells
  PROVE  /\ Written(from, to, v) \in [1 .. LineSize -> Cells]
         /\ \A i \in 1 .. LineSize :
              Written(from, to, v)[i] = IF from < i /\ i <= to THEN v ELSE lineBuf[i]
BY DEF CoreTypeOK, Written

LEMMA PacksKeep ==
  ASSUME Kept
  PROVE  /\ \A t \in ElogThreads : PackHead(t) \/ PackBody(t) \/ PackEnd(t) => Kept'
         /\ \A t \in Loggers : DumpRow(t) => Kept'
<1>0. LineSize \in Nat /\ ColorEnd \in Nat /\ ColorEnd < LineSize
  BY CoreAssumption DEF CoreAssumption
<1>1. ASSUME NEW t \in ElogThreads, PackHead(t) PROVE Kept'
  <2>1. PICK n \in HeadLens : /\ lineBuf' = Written(0, MinOf(n, LineSize), t)
                              /\ logLen' = [logLen EXCEPT ![t] = MinOf(n, LineSize)]
    BY <1>1 DEF PackHead
  <2>0. n \in Nat
    BY CoreAssumption DEF CoreAssumption
  <2>2. MinOf(n, LineSize) \in 0 .. LineSize
    BY <1>0, <2>0 DEF MinOf
  <2>3. lineBuf' \in [1 .. LineSize -> Cells]
    <3>1. PICK last : last = MinOf(n, LineSize)
      OBVIOUS
    <3>2. last \in Int /\ t \in Cells
      BY <1>0, <2>2, <3>1 DEF Cells
    <3>3. Written(0, last, t) \in [1 .. LineSize -> Cells]
      BY <3>2, WrittenIs DEF Kept
    <3> QED BY <2>1, <3>1, <3>3
  <2>4. logLen' \in [ElogThreads -> 0 .. LineSize]
    BY <2>1, <2>2 DEF Kept, CoreTypeOK
  <2>5. UNCHANGED <<lockVars, slot>>
    BY <1>1 DEF PackHead, tagVars
  <2> QED BY <1>1, <2>3, <2>4, <2>5, PackGoes, KeptByQuiet DEF Kept, CoreTypeOK, InPlaces
<1>2. ASSUME NEW t \in ElogThreads, PackBody(t) PROVE Kept'
  <2>1. PICK n, last :
             /\ n \in BodyLens
             /\ last = logLen[t] + MinOf(n, LineSize - logLen[t] - 1)
             /\ lineBuf' = IF LineSize - logLen[t] = 0 THEN lineBuf
                           ELSE [Written(logLen[t], last, t) EXCEPT ![last + 1] = Eos]
             /\ logLen' = [logLen EXCEPT ![t] = MinOf(@ + n, LineSize)]
    BY <1>2 DEF PackBody
  <2>2. n \in Nat /\ logLen[t] \in 0 .. LineSize
    BY <2>1, CoreAssumption DEF CoreAssumption, Kept, CoreTypeOK
  <2>3. MinOf(logLen[t] + n, LineSize) \in 0 .. LineSize
    BY <1>0, <2>2 DEF MinOf
  <2>4. last \in Int
    BY <1>0, <2>1, <2>2 DEF MinOf
  <2>5. lineBuf' \in [1 .. LineSize -> Cells]
    <3>1. Written(logLen[t], last, t) \in [1 .. LineSize -> Cells]
      BY <2>2, <2>4, WrittenIs DEF Kept, Cells
    <3> HIDE DEF Kept
    <3>2. lineBuf \in [1 .. LineSize -> Cells] /\ Eos \in Cells
      BY DEF Kept, CoreTypeOK, Cells
    <3> QED BY <2>1, <3>1, <3>2
  <2>6. logLen' \in [ElogThreads -> 0 .. LineSize]
    BY <2>1, <2>3 DEF Kept, CoreTypeOK
  <2>7. UNCHANGED <<lockVars, slot>>
    BY <1>2 DEF PackBody, tagVars
  <2>8. Goes(t, "body", IF doing[t][1] = "raw" THEN "unlock" ELSE "end")
    BY <1>2, PackGoes
  <2> QED BY <2>5, <2>6, <2>7, <2>8, KeptByQuiet DEF Kept, CoreTypeOK, InPlaces
<1>3. ASSUME NEW t \in ElogThreads, PackEnd(t) PROVE Kept'
  <2> DEFINE n == Cut(logLen[t])
             colored == MinOf(n + ColorEnd, LineSize)
             ended == MinOf(colored + 1, LineSize)
  <2>1. \/ UNCHANGED lineBuf
        \/ lineBuf' = [i \in 1 .. LineSize |-> IF i = ended /\ colored < ended THEN Newline
                                               ELSE IF n < i /\ i <= colored THEN t
                                               ELSE lineBuf[i]]
    BY <1>3 DEF PackEnd
  <2> HIDE DEF n, colored, ended
  <2>2. lineBuf' \in [1 .. LineSize -> Cells]
    BY <2>1 DEF Kept, CoreTypeOK, Cells
  <2>3. UNCHANGED <<lockVars, slot, logLen>>
    BY <1>3 DEF PackEnd, tagVars
  <2> QED BY <1>3, <2>2, <2>3, PackGoes, KeptByQuiet DEF Kept, CoreTypeOK, InPlaces
<1>4. ASSUME NEW t \in Loggers, DumpRow(t) PROVE Kept'
  <2>1. \/ UNCHANGED lineBuf
        \/ lineBuf' = [i \in 1 .. LineSize |-> IF i = LineSize THEN Newline ELSE t]
    BY <1>4 DEF DumpRow
  <2>2. lineBuf' \in [1 .. LineSize -> Cells]
    BY <2>1 DEF Kept, CoreTypeOK, Cells, ElogThreads
  <2>3. UNCHANGED <<lockVars, slot, logLen>>
    BY <1>4 DEF DumpRow, tagVars
  <2>4. PICK to \in {"row", "unlock"} : Goes(t, "row", to)
    BY <1>4, DumpGoes
  <2> QED BY <2>2, <2>3, <2>4, KeptByQuiet DEF Kept, CoreTypeOK, InPlaces
<1> QED BY <1>1, <1>2, <1>3, <1>4

LEMMA MinIsIn ==
  ASSUME NEW S, S \subseteq Nat, S # {}
  PROVE  Min(S) \in S /\ \A y \in S : Min(S) <= y
<1> DEFINE R == {ss \in Nat \X Nat : ss[1] < ss[2]}
<1>1. IsWellFoundedOn(R, Nat)
  BY NatLessThanWellFounded DEF OpToRel
<1>2. PICK x \in S : \A y \in S : <<y, x>> \notin R
  BY <1>1, WFMin
<1>3. \A y \in S : ~ (y < x)
  <2> SUFFICES ASSUME NEW y \in S, y < x PROVE <<y, x>> \in R
    BY <1>2
  <2>1. <<y, x>>[1] = y /\ <<y, x>>[2] = x
    OBVIOUS
  <2> QED BY <2>1
<1>4. \A y \in S : x <= y
  BY <1>3
<1>5. \E m \in S : \A y \in S : m <= y
  BY <1>4
<1> HIDE DEF R
<1>6. Min(S) = CHOOSE m \in S : \A y \in S : m <= y
  BY Zenon DEF Min
<1> QED BY <1>5, <1>6

LEMMA TagsKeep ==
  ASSUME Kept, NEW t \in Loggers, FindTag(t) \/ StoreTag(t)
  PROVE  Kept'
<1>1. CASE FindTag(t)
  <2>1. slot' \in [ElogThreads -> 0 .. Slots]
    <3> DEFINE free == {i \in 1 .. Slots : ~tagLvl[i].used}
               found == IF SlotOf(doing[t][2]) # {} THEN Min(SlotOf(doing[t][2]))
                        ELSE IF doing[t][3] # All /\ free # {} THEN Min(free) ELSE 0
    <3>1. slot' = [slot EXCEPT ![t] = found]
      BY <1>1 DEF FindTag
    <3>2. Slots \in Nat /\ free \subseteq 1 .. Slots /\ SlotOf(doing[t][2]) \subseteq 1 .. Slots
      BY CoreAssumption DEF CoreAssumption, SlotOf
    <3> HIDE DEF free
    <3>3. free # {} => Min(free) \in free
      <4>1. free \subseteq Nat
        BY <3>2
      <4> QED BY <4>1, MinIsIn
    <3>4. SlotOf(doing[t][2]) # {} => Min(SlotOf(doing[t][2])) \in SlotOf(doing[t][2])
      <4>1. SlotOf(doing[t][2]) \subseteq Nat
        BY <3>2
      <4> QED BY <4>1, MinIsIn
    <3>5. found \in 0 .. Slots
      <4>1. SlotOf(doing[t][2]) # {} => found \in 0 .. Slots
        BY <3>2, <3>4
      <4>2. SlotOf(doing[t][2]) = {} => found \in 0 .. Slots
        <5>1. SlotOf(doing[t][2]) = {} => found = 0 \/ (free # {} /\ found = Min(free))
          OBVIOUS
        <5>2. ASSUME free # {} PROVE Min(free) \in 0 .. Slots
          <6>1. Min(free) \in free
            BY <3>3, <5>2
          <6>2. Min(free) \in 1 .. Slots
            BY <3>2, <6>1, Zenon
          <6> QED BY <3>2, <6>2
        <5> QED BY <3>2, <5>1, <5>2
      <4> QED BY <4>1, <4>2
    <3> HIDE DEF found
    <3> QED BY <3>1, <3>5 DEF Kept, CoreTypeOK
  <2>2. UNCHANGED <<lockVars, lineBuf, logLen>>
    BY <1>1 DEF FindTag
  <2> QED BY <1>1, <2>1, <2>2, TagGoes, KeptByQuiet DEF Kept, CoreTypeOK, InPlaces
<1>2. CASE StoreTag(t)
  <2>1. UNCHANGED <<lockVars, lineBuf, logLen, slot>>
    BY <1>2 DEF StoreTag
  <2> QED BY <1>2, <2>1, TagGoes, KeptByQuiet DEF Kept, CoreTypeOK, InPlaces
<1> QED BY <1>1, <1>2

LEMMA KeptInit == CoreInit => Kept
<1> SUFFICES ASSUME CoreInit PROVE Kept
  OBVIOUS
<1>1. /\ Handler \in ElogThreads /\ Handler \notin Loggers /\ Nobody \notin ElogThreads
      /\ LineSize \in Nat /\ Slots \in Nat
  BY CoreAssumption DEF CoreAssumption, ElogThreads
<1>2. <<"none">> \in Calls
  BY DEF Calls
<1>3. CoreTypeOK
  <2>1. logLen \in [ElogThreads -> 0 .. LineSize] /\ slot \in [ElogThreads -> 0 .. Slots]
    BY <1>1 DEF CoreInit
  <2>2. elogAt \in [ElogThreads -> Places] /\ doing \in [ElogThreads -> Calls]
    BY <1>2 DEF CoreInit, Places
  <2>3. lineBuf \in [1 .. LineSize -> Cells]
    BY DEF CoreInit, Cells
  <2> QED BY <2>1, <2>2, <2>3 DEF CoreTypeOK, CoreInit
<1>4. Placed
  BY <1>1 DEF CoreInit, Placed, DoneAt, ElogThreads
<1>5. Inside = {}
  BY DEF CoreInit, Inside
<1>6. elogAt[Handler] = "waits"
  BY <1>1 DEF CoreInit
<1> QED BY <1>1, <1>3, <1>4, <1>5, <1>6 DEF CoreInit, Kept, LockInv, Holders, Handled

LEMMA KeptNext ==
  ASSUME Kept, [CoreNext]_coreVars
  PROVE  Kept'
<1>1. CASE CoreNext
  BY <1>1, CallsKeep, LocksKeep, PacksKeep, TagsKeep DEF CoreNext
<1>2. CASE UNCHANGED coreVars
  <2>1. UNCHANGED <<locked, lockEnabled, lockedBeforeEnable, lockedBeforeDisable, disturbed,
                    lineBuf, logLen, slot, elogAt, doing, dead>>
    BY <1>2 DEF coreVars, lockVars, tagVars
  <2>2. CoreTypeOK' /\ Placed'
    BY <2>1 DEF Kept, CoreTypeOK, Placed
  <2>3. Inside' = Inside /\ Handled' = Handled
    BY <2>1 DEF Inside, Handled
  <2>4. Holders' = Holders
    BY <2>1, <2>3 DEF Holders
  <2> QED BY <2>1, <2>2, <2>3, <2>4 DEF Kept, LockInv, LeftLocked
<1> QED BY <1>1, <1>2

\* Once the handler is through, the lock that the dead thread held is free,
\* however many threads log and wherever the fault hits, but for the one place
\* between taking the lock and setting its flag.
THEOREM LockIsFreed == CoreSpec => []LockFreedAfterFault
<1>1. Kept => LockFreedAfterFault
  BY DEF Kept, LockInv, LeftLocked, LockFreedAfterFault, Holders
<1>2. CoreSpec => []Kept
  BY KeptInit, KeptNext, PTL DEF CoreSpec
<1> QED BY <1>1, <1>2, PTL

-----------------------------------------------------------------------------
(* The line buffer holds the line of whoever is inside, and what is output  *)
(* of it is whole.                                                          *)

LEMMA OnlyOneWrites ==
  ASSUME Kept, ~disturbed, NEW t \in Inside \ {dead}, NEW u \in Inside \ {dead}
  PROVE  t = u
<1>1. CASE dead = Nobody
  <2>1. Handler \notin Inside /\ ~Handled
    BY <1>1, InsideIs DEF Kept, Placed, InPlaces, Handled
  <2> QED BY <2>1 DEF Kept, LockInv, Holders
<1>2. CASE dead # Nobody /\ ~Handled
  BY <1>2 DEF Kept, LockInv, Holders
<1>3. CASE dead # Nobody /\ Handled
  <2>1. Handler \notin Inside
    BY <1>3, InsideIs DEF InPlaces, Handled
  <2> QED BY <1>3, <2>1 DEF Kept, LockInv, Holders
<1> QED BY <1>1, <1>2, <1>3

\* What the buffer holds of the line of t.
LineOf(t) == /\ elogAt[t] = "body" => \A i \in 1 .. logLen[t] : lineBuf[i] = t
             /\ elogAt[t] = "end"  => \A i \in 1 .. logLen[t] : lineBuf[i] \in {t, Eos}

NoLength == \A t \in ElogThreads :
              /\ elogAt[t] \notin {"body", "end", "unlock"} => logLen[t] = 0
              /\ elogAt[t] = "body" /\ doing[t][1] = "raw" => logLen[t] = 0

LineInv == /\ NoLength
           /\ ~disturbed => \A t \in Inside \ {dead} : LineOf(t)
           /\ LineIsWhole

\* Steps that leave the buffer and the output alone.
LEMMA LineByQuiet ==
  ASSUME Kept, LineInv, NEW t, NEW from, NEW to, Goes(t, from, to),
         UNCHANGED <<lineBuf, logLen, output>>, disturbed => disturbed',
         to = "unlock" \/ from \notin {"body", "end", "unlock"},
         to \notin {"body", "end"} \/ (to = "body" /\ doing'[t][1] = "raw")
  PROVE  LineInv'
<1>1. /\ elogAt' = [elogAt EXCEPT ![t] = to] /\ elogAt[t] = from /\ t \in ElogThreads /\ dead' = dead
      /\ \A u \in ElogThreads \ {t} : doing'[u] = doing[u]
  BY DEF Goes, Step
<1>2. elogAt'[t] = to /\ \A u \in ElogThreads \ {t} : elogAt'[u] = elogAt[u]
  BY <1>1 DEF Kept, CoreTypeOK
<1>3. NoLength'
  BY <1>1, <1>2 DEF LineInv, NoLength
<1>4. ASSUME ~disturbed', NEW u \in Inside' \ {dead'} PROVE LineOf(u)'
  <2>1. CASE u = t
    <3>1. to \notin {"body", "end"} \/ (to = "body" /\ logLen'[t] = 0)
      BY <1>1, <1>2, <1>3 DEF NoLength
    <3> QED BY <1>2, <2>1, <3>1 DEF LineOf
  <2>2. CASE u # t
    <3>1. u \in Inside \ {dead} /\ u \in ElogThreads
      BY <1>1, <1>2, <1>4, <2>2 DEF Inside
    <3>2. LineOf(u)
      BY <1>4, <3>1 DEF LineInv
    <3> QED BY <1>2, <2>2, <3>1, <3>2 DEF LineOf
  <2> QED BY <2>1, <2>2
<1>5. LineIsWhole'
  BY DEF LineInv, LineIsWhole
<1> QED BY <1>3, <1>4, <1>5 DEF LineInv

\* Steps of the thread that is inside, which nobody else is.
LEMMA LineByWriter ==
  ASSUME Kept, LineInv, NEW t, NEW from, NEW to, Goes(t, from, to), from \in InPlaces,
         UNCHANGED disturbed, \A u \in ElogThreads \ {t} : logLen'[u] = logLen[u],
         to \notin {"body", "end", "unlock"} => logLen'[t] = 0,
         to = "body" => doing'[t][1] # "raw",
         ~disturbed => LineOf(t)', ~disturbed => LineIsWhole'
  PROVE  LineInv'
<1>1. /\ elogAt' = [elogAt EXCEPT ![t] = to] /\ elogAt[t] = from /\ t \in ElogThreads /\ dead' = dead
      /\ \A u \in ElogThreads \ {t} : doing'[u] = doing[u]
      /\ Runs(t)
  BY DEF Goes, Step
<1>2. elogAt'[t] = to /\ \A u \in ElogThreads \ {t} : elogAt'[u] = elogAt[u]
  BY <1>1 DEF Kept, CoreTypeOK
<1>3. NoLength'
  BY <1>1, <1>2 DEF LineInv, NoLength
<1>4. t \in Inside \ {dead}
  BY <1>1, RunsWho, InsideIs DEF Kept
<1>5. ASSUME ~disturbed', NEW u \in Inside' \ {dead'} PROVE LineOf(u)'
  <2>1. CASE u = t
    BY <1>5, <2>1
  <2>2. CASE u # t
    <3>1. u \in Inside \ {dead}
      BY <1>1, <1>2, <1>5, <2>2 DEF Inside
    <3> QED BY <1>4, <1>5, <2>2, <3>1, OnlyOneWrites
  <2> QED BY <2>1, <2>2
<1>6. LineIsWhole'
  BY DEF LineIsWhole
<1> QED BY <1>3, <1>5, <1>6 DEF LineInv

LEMMA LineByFault ==
  ASSUME Kept, LineInv, NEW t \in Loggers, Fault(t)
  PROVE  LineInv'
<1>1. /\ dead = Nobody /\ dead' = t /\ elogAt' = [elogAt EXCEPT ![Handler] = "disable"]
      /\ disturbed' = (disturbed \/ Inside \ {t} # {})
      /\ UNCHANGED <<lineBuf, logLen, output, doing>>
  BY DEF Fault
<1>2. /\ elogAt[Handler] = "waits" /\ elogAt'[Handler] = "disable" /\ Handler \in ElogThreads
      /\ \A u \in ElogThreads \ {Handler} : elogAt'[u] = elogAt[u]
  BY <1>1 DEF Kept, CoreTypeOK, Placed, ElogThreads
<1>3. NoLength'
  BY <1>1, <1>2 DEF LineInv, NoLength
<1>4. ASSUME ~disturbed' PROVE Inside' \ {dead'} = {}
  <2>1. Inside' \subseteq Inside
    BY <1>2 DEF Inside
  <2> QED BY <1>1, <1>4, <2>1
<1>5. LineIsWhole'
  BY <1>1 DEF LineInv, LineIsWhole
<1> QED BY <1>3, <1>4, <1>5 DEF LineInv

LEMMA LineByUnlock ==
  ASSUME Kept, LineInv, NEW t \in ElogThreads, OutputUnlock(t)
  PROVE  LineInv'
<1>1. PICK to \in {"flag", "lock", "enable", "idle"} : Goes(t, "unlock", to)
  BY UnlockGoes
<1>2. /\ UNCHANGED disturbed /\ output' = NoLine
      /\ logLen' = [logLen EXCEPT ![t] = 0]
  BY DEF OutputUnlock
<1>3. logLen'[t] = 0 /\ \A u \in ElogThreads \ {t} : logLen'[u] = logLen[u]
  BY <1>2 DEF Kept, CoreTypeOK
<1>4. elogAt'[t] = to
  BY <1>1 DEF Goes, Step, Kept, CoreTypeOK
<1>5. LineOf(t)'
  BY <1>4 DEF LineOf
<1>6. LineIsWhole'
  BY <1>2 DEF LineIsWhole, NoLine, ToSet
<1>7. "unlock" \in InPlaces
  BY DEF InPlaces
<1> QED BY <1>1, <1>2, <1>3, <1>5, <1>6, <1>7, LineByWriter

LEMMA CellsOf ==
  ASSUME NEW buf, NEW k \in Int
  PROVE  /\ DOMAIN SubSeq(buf, 1, k) = 1 .. k
         /\ \A i \in 1 .. k : SubSeq(buf, 1, k)[i] = buf[i]
         /\ ToSet(SubSeq(buf, 1, k)) = {buf[i] : i \in 1 .. k}
         /\ k > 0 => SubSeq(buf, 1, k) # <<>> /\ Last(SubSeq(buf, 1, k)) = buf[k]
<1> DEFINE B == {buf[i] : i \in 1 .. k}
           q == SubSeq(buf, 1, k)
<1>1. /\ q \in Seq(B) /\ Len(q) = (IF 1 <= k THEN k - 1 + 1 ELSE 0)
      /\ \A i \in 1 .. k - 1 + 1 : q[i] = buf[1 + i - 1]
  <2>1. \A i \in 1 .. k : buf[i] \in B
    OBVIOUS
  <2> HIDE DEF B
  <2> QED BY <2>1, SubSeqProperties
<1> HIDE DEF B, q
<1>2. 1 .. (k - 1 + 1) = 1 .. k /\ \A i \in 1 .. k : 1 + i - 1 = i
  OBVIOUS
<1>3. DOMAIN q = 1 .. k /\ \A i \in 1 .. k : q[i] = buf[i]
  <2>1. DOMAIN q = 1 .. Len(q)
    BY <1>1
  <2> QED BY <1>1, <1>2, <2>1
<1>4. ToSet(q) = {buf[i] : i \in 1 .. k}
  BY <1>3 DEF ToSet
<1>5. ASSUME k > 0 PROVE q # <<>> /\ Last(q) = buf[k]
  <2>1. Len(q) = k
    BY <1>1, <1>5
  <2>2. Last(q) = q[k] /\ k \in 1 .. k
    BY <1>5, <2>1 DEF Last
  <2> QED BY <1>3, <1>5, <2>1, <2>2
<1> QED BY <1>3, <1>4, <1>5 DEF q

LEMMA LineByHead ==
  ASSUME Kept, LineInv, NEW t \in ElogThreads, PackHead(t)
  PROVE  LineInv'
<1>1. PICK n \in HeadLens : /\ lineBuf' = Written(0, MinOf(n, LineSize), t)
                            /\ logLen' = [logLen EXCEPT ![t] = MinOf(n, LineSize)]
                            /\ UNCHANGED <<disturbed, output, doing>>
  BY DEF PackHead, lockVars
<1>2. Goes(t, "head", "body") /\ elogAt'[t] = "body"
  BY PackGoes DEF PackHead, Step, Kept, CoreTypeOK
<1>3. n \in Nat /\ LineSize \in Nat
  BY CoreAssumption DEF CoreAssumption
<1>4. MinOf(n, LineSize) \in 0 .. LineSize
  BY <1>3 DEF MinOf
<1>5. logLen'[t] = MinOf(n, LineSize) /\ \A u \in ElogThreads \ {t} : logLen'[u] = logLen[u]
  BY <1>1 DEF Kept, CoreTypeOK
<1>6. t \in Cells
  BY DEF Cells
<1>7. \A i \in 1 .. logLen'[t] : lineBuf'[i] = t
  <2> SUFFICES ASSUME NEW i \in 1 .. MinOf(n, LineSize) PROVE lineBuf'[i] = t
    BY <1>5
  <2>1. i \in 1 .. LineSize /\ 0 < i /\ i <= MinOf(n, LineSize)
    BY <1>3, <1>4
  <2>2. MinOf(n, LineSize) \in Int /\ 0 \in Int
    BY <1>4
  <2> QED BY <1>1, <1>6, <2>1, <2>2, WrittenIs DEF Kept
<1>8. LineOf(t)'
  BY <1>2, <1>7 DEF LineOf
<1>9. LineIsWhole'
  BY <1>1 DEF LineInv, LineIsWhole
<1>10. doing'[t][1] # "raw" /\ "head" \in InPlaces
  BY <1>1 DEF PackHead, Step, Kept, Placed, DoneAt, InPlaces
<1> QED BY <1>1, <1>2, <1>5, <1>8, <1>9, <1>10, LineByWriter

LEMMA LineOfRunner ==
  ASSUME Kept, LineInv, NEW t \in ElogThreads, Runs(t), elogAt[t] \in InPlaces, ~disturbed
  PROVE  LineOf(t)
BY RunsWho, InsideIs DEF LineInv, Kept

LEMMA LineByBody ==
  ASSUME Kept, LineInv, NEW t \in ElogThreads, PackBody(t)
  PROVE  LineInv'
<1> DEFINE k == logLen[t]
<1>1. PICK n, last :
           /\ n \in BodyLens
           /\ last = k + MinOf(n, LineSize - k - 1)
           /\ lineBuf' = IF LineSize - k = 0 THEN lineBuf
                         ELSE [Written(k, last, t) EXCEPT ![last + 1] = Eos]
           /\ logLen' = [logLen EXCEPT ![t] = MinOf(k + n, LineSize)]
           /\ output' = IF doing[t][1] # "raw" THEN output
                        ELSE [by |-> t, raw |-> TRUE, cells |-> SubSeq(lineBuf', 1, logLen'[t])]
           /\ UNCHANGED <<disturbed, doing>>
  BY DEF PackBody, lockVars
<1>2. /\ Goes(t, "body", IF doing[t][1] = "raw" THEN "unlock" ELSE "end")
      /\ elogAt[t] = "body" /\ Runs(t)
      /\ elogAt'[t] = IF doing[t][1] = "raw" THEN "unlock" ELSE "end"
  BY PackGoes DEF PackBody, Step, Kept, CoreTypeOK
<1>3. n \in Nat /\ LineSize \in Nat /\ k \in 0 .. LineSize
  BY <1>1, CoreAssumption DEF CoreAssumption, Kept, CoreTypeOK
<1>4. last \in Int
  BY <1>1, <1>3 DEF MinOf
<1>5. logLen'[t] = MinOf(k + n, LineSize) /\ \A u \in ElogThreads \ {t} : logLen'[u] = logLen[u]
  BY <1>1 DEF Kept, CoreTypeOK
<1>6. ASSUME ~disturbed PROVE \A i \in 1 .. logLen'[t] : lineBuf'[i] \in {t, Eos}
  <2> SUFFICES ASSUME NEW i \in 1 .. MinOf(k + n, LineSize) PROVE lineBuf'[i] \in {t, Eos}
    BY <1>5
  <2>1. i \in 1 .. LineSize
    BY <1>3 DEF MinOf
  <2>2. i <= k => lineBuf[i] = t
    <3>1. LineOf(t)
      BY <1>2, <1>6, LineOfRunner DEF InPlaces
    <3> QED BY <1>2, <1>3, <2>1, <3>1 DEF LineOf
  <2>3. CASE k = LineSize
    BY <1>1, <1>3, <2>1, <2>2, <2>3
  <2>4. CASE k # LineSize
    <3>1. /\ Written(k, last, t) \in [1 .. LineSize -> Cells]
          /\ Written(k, last, t)[i] = IF k < i /\ i <= last THEN t ELSE lineBuf[i]
      <4>1. t \in Cells /\ k \in Int
        BY <1>3 DEF Cells
      <4> HIDE DEF k
      <4> QED BY <1>4, <2>1, <4>1, WrittenIs DEF Kept
    <3>2. lineBuf'[i] = IF i = last + 1 THEN Eos ELSE Written(k, last, t)[i]
      <4>1. LineSize - k # 0
        BY <1>3, <2>4
      <4> HIDE DEF k
      <4> QED BY <1>1, <2>1, <3>1, <4>1
    <3>3. i <= k \/ (k < i /\ i <= last) \/ i = last + 1
      BY <1>1, <1>3, <1>4, <2>1, <2>4 DEF MinOf
    <3> QED BY <2>2, <3>1, <3>2, <3>3
  <2> QED BY <2>3, <2>4
<1>7. ~disturbed => LineOf(t)'
  BY <1>2, <1>6 DEF LineOf
<1>8. ~disturbed => LineIsWhole'
  <2>1. CASE doing[t][1] # "raw"
    BY <1>1, <2>1 DEF LineInv, LineIsWhole
  <2>2. CASE doing[t][1] = "raw"
    <3>1. /\ output' = [by |-> t, raw |-> TRUE, cells |-> SubSeq(lineBuf', 1, logLen'[t])]
          /\ output'.raw /\ output'.by = t /\ output'.cells = SubSeq(lineBuf', 1, logLen'[t])
      BY <1>1, <2>2
    <3>2. logLen'[t] \in Int
      BY <1>3, <1>5 DEF MinOf
    <3>3. ToSet(output'.cells) = {lineBuf'[i] : i \in 1 .. logLen'[t]}
      BY <3>1, <3>2, CellsOf
    <3> QED BY <1>6, <3>1, <3>3 DEF LineIsWhole
  <2> QED BY <2>1, <2>2
<1>9. "body" \in InPlaces /\ UNCHANGED disturbed
  BY <1>1 DEF InPlaces
<1> HIDE DEF k
<1> QED BY <1>2, <1>5, <1>7, <1>8, <1>9, LineByWriter

LEMMA CutLeavesRoom ==
  ASSUME NEW k \in 0 .. LineSize
  PROVE  Cut(k) \in 0 .. k /\ Cut(k) + ColorEnd + 1 <= LineSize
BY CoreAssumption DEF CoreAssumption, Cut

LEMMA LineByEnd ==
  ASSUME Kept, LineInv, NEW t \in ElogThreads, PackEnd(t)
  PROVE  LineInv'
<1>1. /\ Goes(t, "end", "unlock") /\ elogAt[t] = "end" /\ Runs(t) /\ elogAt'[t] = "unlock"
      /\ UNCHANGED <<disturbed, logLen>>
  BY PackGoes DEF PackEnd, Step, Kept, CoreTypeOK, lockVars
<1> DEFINE n == Cut(logLen[t])
           colored == MinOf(n + ColorEnd, LineSize)
           ended == MinOf(colored + 1, LineSize)
           line == [i \in 1 .. LineSize |-> IF i = ended /\ colored < ended THEN Newline
                                            ELSE IF n < i /\ i <= colored THEN t
                                            ELSE lineBuf[i]]
<1>2. CASE UNCHANGED <<lineBuf, output>>
  BY <1>1, <1>2, LineByQuiet
<1>3. CASE /\ lineBuf' = line
           /\ output' = [by |-> t, raw |-> FALSE, cells |-> SubSeq(line, 1, ended)]
  <2>1. LineSize \in Nat /\ ColorEnd \in Nat /\ logLen[t] \in 0 .. LineSize
    BY CoreAssumption DEF CoreAssumption, Kept, CoreTypeOK
  <2>2. n \in 0 .. logLen[t] /\ n + ColorEnd + 1 <= LineSize
    BY <2>1, CutLeavesRoom
  <2>3. colored = n + ColorEnd /\ ended = n + ColorEnd + 1
    <3> HIDE DEF n
    <3> QED BY <2>1, <2>2 DEF MinOf
  <2>4. ended \in 1 .. LineSize /\ colored < ended
    <3> HIDE DEF n, colored, ended
    <3> QED BY <2>1, <2>2, <2>3
  <2>5. line[ended] = Newline
    <3> HIDE DEF n, colored, ended
    <3> QED BY <2>4
  <2>6. ASSUME ~disturbed PROVE \A i \in 1 .. ended : line[i] \in {t, Eos, Newline}
    <3> SUFFICES ASSUME NEW i \in 1 .. ended PROVE line[i] \in {t, Eos, Newline}
      OBVIOUS
    <3>1. i <= logLen[t] => lineBuf[i] \in {t, Eos}
      <4>1. LineOf(t)
        BY <1>1, <2>6, LineOfRunner DEF InPlaces
      <4> HIDE DEF n, colored, ended
      <4> QED BY <1>1, <2>1, <2>4, <4>1 DEF LineOf
    <3> HIDE DEF n, colored, ended
    <3>2. i \in 1 .. LineSize
      BY <2>1, <2>4
    <3>3. i <= n => i <= logLen[t]
      BY <2>1, <2>2
    <3>4. i = ended \/ i <= n \/ (n < i /\ i <= colored)
      BY <2>1, <2>2, <2>3
    <3> QED BY <2>4, <3>1, <3>2, <3>3, <3>4
  <2>7. /\ output'.cells = SubSeq(line, 1, ended) /\ output'.by = t
    BY <1>3
  <2>8. ~disturbed => LineIsWhole'
    <3> HIDE DEF n, colored, ended, line
    <3>1. ended \in Int /\ ended > 0
      BY <2>1, <2>4
    <3>2. /\ ToSet(output'.cells) = {line[i] : i \in 1 .. ended}
          /\ output'.cells # <<>> /\ Last(output'.cells) = line[ended]
      BY <2>7, <3>1, CellsOf
    <3> QED BY <2>5, <2>6, <2>7, <3>2 DEF LineIsWhole
  <2>9. LineOf(t)' /\ "end" \in InPlaces
    BY <1>1 DEF LineOf, InPlaces
  <2> HIDE DEF n, colored, ended, line
  <2> QED BY <1>1, <2>8, <2>9, LineByWriter
<1> QED BY <1>2, <1>3 DEF PackEnd

LEMMA LineByDump ==
  ASSUME Kept, LineInv, NEW t \in Loggers, DumpRow(t)
  PROVE  LineInv'
<1>1. t \in ElogThreads /\ elogAt[t] = "row" /\ UNCHANGED <<disturbed, logLen>>
  BY DEF DumpRow, Step, ElogThreads, lockVars
<1>2. PICK to \in {"row", "unlock"} : Goes(t, "row", to)
  BY DumpGoes
<1>3. elogAt'[t] = to
  BY <1>1, <1>2 DEF Goes, Step, Kept, CoreTypeOK
<1> DEFINE row == [i \in 1 .. LineSize |-> IF i = LineSize THEN Newline ELSE t]
<1>4. CASE UNCHANGED <<lineBuf, output>>
  BY <1>1, <1>2, <1>4, LineByQuiet
<1>5. CASE /\ lineBuf' = row
           /\ output' = [by |-> t, raw |-> FALSE, cells |-> row]
  <2>1. LineSize \in Nat \ {0}
    BY CoreAssumption DEF CoreAssumption
  <2>2. /\ ToSet(row) \subseteq {t, Newline} /\ Len(row) = LineSize /\ row[LineSize] = Newline
        /\ row # <<>>
    BY <2>1 DEF ToSet
  <2>3. output'.cells = row /\ output'.by = t
    BY <1>5
  <2>4. LineIsWhole'
    <3> HIDE DEF row
    <3> QED BY <2>2, <2>3 DEF LineIsWhole, Last
  <2>5. LineOf(t)' /\ "row" \in InPlaces
    BY <1>2, <1>3 DEF LineOf, InPlaces
  <2>6. logLen'[t] = 0
    BY <1>1 DEF LineInv, NoLength
  <2> HIDE DEF row
  <2> QED BY <1>1, <1>2, <2>4, <2>5, <2>6, LineByWriter
<1> QED BY <1>4, <1>5 DEF DumpRow

LEMMA LineInit == CoreInit => LineInv
BY DEF CoreInit, LineInv, NoLength, Inside, LineIsWhole, NoLine, ToSet

LEMMA LineNext ==
  ASSUME Kept, LineInv, [CoreNext]_coreVars
  PROVE  LineInv'
<1>1. ASSUME NEW t \in ElogThreads, ElogOutput(t) PROVE LineInv'
  <2>1. PICK from : from \in {"log", "idle"} /\ Goes(t, from, "lock")
    BY <1>1, OutputGoes
  <2>2. UNCHANGED <<lineBuf, logLen, output, disturbed>>
    BY <1>1 DEF ElogOutput, lockVars
  <2> QED BY <2>1, <2>2, LineByQuiet
<1>2. ASSUME NEW t \in ElogThreads, AskLevel(t) PROVE LineInv'
  BY <1>2, AskGoes, LineByQuiet DEF AskLevel, lockVars
<1>3. ASSUME NEW t \in Loggers, ElogRaw(t) \/ ElogSetTagLvl(t) \/ ElogHexdump(t) PROVE LineInv'
  <2>1. Goes(t, "idle", "lock")
    BY <1>3, RawGoes, SetTagLvlGoes, HexdumpGoes
  <2> QED BY <1>3, <2>1, LineByQuiet DEF ElogRaw, ElogSetTagLvl, ElogHexdump, lockVars
<1>4. ASSUME NEW t \in ElogThreads, OutputLock(t) PROVE LineInv'
  <2>1. PICK to \in {"note", "head", "body", "row", "find", "ask"} :
          Goes(t, "lock", to) /\ (to = "body" => doing[t][1] = "raw")
    BY <1>4, LockGoes
  <2>2. UNCHANGED <<lineBuf, logLen, output, doing, disturbed>>
    BY <1>4 DEF OutputLock
  <2> QED BY <2>1, <2>2, LineByQuiet
<1>10. ASSUME NEW t \in Loggers, SetFlag(t) PROVE LineInv'
  <2>1. PICK to \in {"head", "body", "row", "find", "ask"} :
          Goes(t, "note", to) /\ (to = "body" => doing[t][1] = "raw")
    BY <1>10, SetFlagGoes
  <2>2. UNCHANGED <<lineBuf, logLen, output, doing, disturbed>>
    BY <1>10 DEF SetFlag
  <2> QED BY <2>1, <2>2, LineByQuiet
<1>5. ASSUME NEW t \in Loggers, ClearFlag(t) PROVE LineInv'
  <2>1. PICK to \in {"lock", "idle"} : Goes(t, "flag", to)
    BY <1>5, ClearFlagGoes
  <2>2. UNCHANGED <<lineBuf, logLen, output>> /\ (disturbed => disturbed')
    BY <1>5 DEF ClearFlag
  <2> QED BY <2>1, <2>2, LineByQuiet
<1>6. ASSUME NEW t \in Loggers, FindTag(t) PROVE LineInv'
  BY <1>6, TagGoes, LineByQuiet DEF FindTag, lockVars
<1>7. ASSUME NEW t \in Loggers, StoreTag(t) PROVE LineInv'
  BY <1>7, TagGoes, LineByQuiet DEF StoreTag, lockVars
<1>8. ASSUME DisableLock \/ EnableLock PROVE LineInv'
  <2>1. PICK from, to : Goes(Handler, from, to) /\ <<from, to>> \in {<<"disable", "log">>, <<"enable", "done">>}
    BY <1>8, HandlerGoes
  <2>2. UNCHANGED <<lineBuf, logLen, output, disturbed>>
    BY <1>8 DEF DisableLock, EnableLock
  <2> QED BY <2>1, <2>2, LineByQuiet
<1>9. ASSUME UNCHANGED coreVars PROVE LineInv'
  <2>1. UNCHANGED <<disturbed, lineBuf, logLen, elogAt, doing, output, dead>>
    BY <1>9 DEF coreVars, lockVars
  <2> QED BY <2>1 DEF LineInv, NoLength, LineOf, LineIsWhole, Inside
<1> QED BY <1>1, <1>2, <1>3, <1>4, <1>5, <1>6, <1>7, <1>8, <1>9, <1>10, LineByFault, LineByUnlock,
           LineByHead, LineByBody, LineByEnd, LineByDump DEF CoreNext

-----------------------------------------------------------------------------
(* A hex dump that fits its 16-bit index. *)

DumpOf(d) == d[1] = "hex" /\ d[2] + d[3] <= DumpWord =>
               d[4] = d[5] * d[3] /\ d[4] < d[2] + d[3]

LEMMA DumpsInit == CoreInit => DumpEnds
BY DEF CoreInit, DumpEnds, ElogThreads

\* What a step makes of the call of its thread.
LEMMA DumpsByCall ==
  ASSUME Kept, DumpEnds, NEW t \in ElogThreads, NEW d, DumpOf(d),
         doing' = [doing EXCEPT ![t] = d]
  PROVE  DumpEnds'
<1> SUFFICES ASSUME NEW u \in Loggers PROVE DumpOf(doing'[u])
  BY DEF DumpOf, DumpEnds
<1>1. DumpOf(doing[u]) /\ u \in ElogThreads
  BY DEF DumpOf, DumpEnds, ElogThreads
<1>2. doing'[u] = IF u = t THEN d ELSE doing[u]
  BY <1>1 DEF Kept, CoreTypeOK
<1> QED BY <1>1, <1>2

LEMMA RowsFit ==
  ASSUME NEW s \in Nat, NEW w \in Nat \ {0}, NEW i \in Nat, NEW c \in Nat,
         s + w <= DumpWord => i = c * w, i < s
  PROVE  s + w <= DumpWord => /\ NextRow(i, w) = (c + 1) * w
                              /\ NextRow(i, w) < s + w
<1> SUFFICES ASSUME s + w <= DumpWord PROVE NextRow(i, w) = (c + 1) * w /\ NextRow(i, w) < s + w
  OBVIOUS
<1>1. DumpWord \in Nat \ {0} /\ i + w \in 0 .. DumpWord - 1
  BY CoreAssumption DEF CoreAssumption
<1>2. NextRow(i, w) = i + w
  BY <1>1 DEF NextRow
<1>3. i + w = (c + 1) * w
  <2>1. i = c * w
    OBVIOUS
  <2>2. (c + 1) * w = c * w + w
    OBVIOUS
  <2> QED BY <2>1, <2>2
<1> QED BY <1>2, <1>3

LEMMA DumpsNext ==
  ASSUME Kept, DumpEnds, [CoreNext]_coreVars
  PROVE  DumpEnds'
<1>1. ASSUME UNCHANGED doing PROVE DumpEnds'
  BY <1>1 DEF DumpEnds
<1>2. ASSUME NEW t \in ElogThreads, ElogOutput(t) PROVE DumpEnds'
  <2>1. PICK g, level : doing' = [doing EXCEPT ![t] = <<"ask", g, level>>]
    BY <1>2 DEF ElogOutput
  <2>2. DumpOf(<<"ask", g, level>>)
    BY DEF DumpOf
  <2> QED BY <2>1, <2>2, DumpsByCall
<1>3. ASSUME NEW t \in ElogThreads, AskLevel(t) PROVE DumpEnds'
  <2>1. PICK d : d \in {<<"pass">>, <<"drop">>} /\ doing' = [doing EXCEPT ![t] = d]
    BY <1>3 DEF AskLevel
  <2>2. DumpOf(d)
    BY <2>1 DEF DumpOf
  <2> QED BY <2>1, <2>2, DumpsByCall
<1>4. ASSUME NEW t \in Loggers, ElogRaw(t) PROVE DumpEnds'
  <2>1. doing' = [doing EXCEPT ![t] = <<"raw">>] /\ t \in ElogThreads
    BY <1>4 DEF ElogRaw, ElogThreads
  <2>2. DumpOf(<<"raw">>)
    BY DEF DumpOf
  <2> QED BY <2>1, <2>2, DumpsByCall
<1>5. ASSUME NEW t \in Loggers, ElogSetTagLvl(t) PROVE DumpEnds'
  <2>1. PICK g, level : doing' = [doing EXCEPT ![t] = <<"tag", g, level>>]
    BY <1>5 DEF ElogSetTagLvl
  <2>2. DumpOf(<<"tag", g, level>>) /\ t \in ElogThreads
    BY DEF DumpOf, ElogThreads
  <2> QED BY <2>1, <2>2, DumpsByCall
<1>6. ASSUME NEW t \in Loggers, ElogHexdump(t) PROVE DumpEnds'
  <2>1. PICK d \in Dumps : doing' = [doing EXCEPT ![t] = <<"hex", d[1], d[2], 0, 0>>]
    BY <1>6 DEF ElogHexdump
  <2>2. d[1] \in Nat /\ d[2] \in Nat \ {0} /\ t \in ElogThreads
    BY CoreAssumption DEF CoreAssumption, ElogThreads
  <2>3. DumpOf(<<"hex", d[1], d[2], 0, 0>>)
    BY <2>2 DEF DumpOf
  <2> QED BY <2>1, <2>2, <2>3, DumpsByCall
<1>7. ASSUME NEW t \in ElogThreads, OutputUnlock(t) PROVE DumpEnds'
  <2>1. PICK d : d \in {<<"line">>, <<"none">>} /\ doing' = [doing EXCEPT ![t] = d]
    BY <1>7 DEF OutputUnlock
  <2>2. DumpOf(d)
    BY <2>1 DEF DumpOf
  <2> QED BY <2>1, <2>2, DumpsByCall
<1>8. ASSUME NEW t \in Loggers, DumpRow(t) PROVE DumpEnds'
  <2>1. CASE UNCHANGED doing
    BY <1>1, <2>1
  <2>2. CASE /\ doing[t][4] < doing[t][2]
             /\ doing' = [doing EXCEPT ![t] = <<"hex", doing[t][2], doing[t][3],
                                               NextRow(doing[t][4], doing[t][3]), doing[t][5] + 1>>]
    <3>1. t \in ElogThreads /\ doing[t] \in Calls /\ doing[t][1] = "hex"
      BY <1>8 DEF DumpRow, Step, ElogThreads, Kept, Placed, CoreTypeOK, DoneAt
    <3>2. PICK s, w, i, c : /\ s = doing[t][2] /\ w = doing[t][3] /\ i = doing[t][4] /\ c = doing[t][5]
                            /\ s \in Nat /\ w \in Nat \ {0} /\ i \in Nat /\ c \in Nat
      BY <3>1, CallParts
    <3>3. s + w <= DumpWord => i = c * w
      BY <3>1, <3>2 DEF DumpEnds
    <3>4. s + w <= DumpWord => NextRow(i, w) = (c + 1) * w /\ NextRow(i, w) < s + w
      <4>1. i < s
        BY <2>2, <3>2
      <4>2. s \in Nat /\ w \in Nat \ {0} /\ i \in Nat /\ c \in Nat
        BY <3>2
      <4> QED BY <3>3, <4>1, <4>2, RowsFit, Zenon
    <3>5. DumpOf(<<"hex", s, w, NextRow(i, w), c + 1>>)
      BY <3>4 DEF DumpOf
    <3>6. doing' = [doing EXCEPT ![t] = <<"hex", s, w, NextRow(i, w), c + 1>>]
      BY <2>2, <3>2
    <3> QED BY <3>1, <3>5, <3>6, DumpsByCall
  <2> QED BY <1>8, <2>1, <2>2 DEF DumpRow
<1>9. ASSUME NEW t \in ElogThreads,
             OutputLock(t) \/ PackHead(t) \/ PackBody(t) \/ PackEnd(t)
      PROVE  DumpEnds'
  BY <1>1, <1>9 DEF OutputLock, PackHead, PackBody, PackEnd
<1>10. ASSUME NEW t \in Loggers, SetFlag(t) \/ ClearFlag(t) \/ Fault(t) \/ FindTag(t) \/ StoreTag(t)
       PROVE  DumpEnds'
  BY <1>1, <1>10 DEF SetFlag, ClearFlag, Fault, FindTag, StoreTag
<1>11. ASSUME DisableLock \/ EnableLock \/ UNCHANGED coreVars PROVE DumpEnds'
  BY <1>1, <1>11 DEF DisableLock, EnableLock, coreVars
<1> QED BY <1>2, <1>3, <1>4, <1>5, <1>6, <1>7, <1>8, <1>9, <1>10, <1>11 DEF CoreNext

\* What is output is whole: a line is one thread's and ends where it should,
\* whatever its parts are long, and a dump shows each row once.
THEOREM OutputStaysWhole == CoreSpec => []OutputIsWhole
<1>1. CoreInit => Kept /\ LineInv /\ DumpEnds
  BY KeptInit, LineInit, DumpsInit
<1>2. Kept /\ LineInv /\ DumpEnds /\ [CoreNext]_coreVars => (Kept /\ LineInv /\ DumpEnds)'
  BY KeptNext, LineNext, DumpsNext
<1>3. LineInv /\ DumpEnds => OutputIsWhole
  BY DEF LineInv, OutputIsWhole
<1> QED BY <1>1, <1>2, <1>3, PTL DEF CoreSpec

-----------------------------------------------------------------------------
(* The filters of the tags. *)

TagTypeOK ==
  /\ tagLvl \in [1 .. Slots -> [used : BOOLEAN, tag : Tags \cup {Nobody}, level : Levels \cup {0, All}]]
  /\ wanted \in [Tags -> Levels \cup {All}]

OneSlotEach ==
  /\ \A i \in 1 .. Slots : tagLvl[i].used => tagLvl[i].tag \in Tags /\ tagLvl[i].level # All
  /\ \A i, j \in 1 .. Slots :
       tagLvl[i].used /\ tagLvl[j].used /\ tagLvl[i].tag = tagLvl[j].tag => i = j

\* What a thread has found that is about to write a slot.
Storing(t) ==
  LET g == doing[t][2] IN
  /\ slot[t] # 0 => /\ wanted[g] = doing[t][3]
                    /\ SlotOf(g) = {slot[t]} \/ (SlotOf(g) = {} /\ ~tagLvl[slot[t]].used)
  /\ slot[t] = 0 => LevelOf(g) = wanted[g]

TagsSettled ==
  /\ \A t \in Loggers : elogAt[t] = "store" => Storing(t)
  /\ \A g \in Tags : LevelOf(g) = wanted[g] \/ \E t \in Loggers : elogAt[t] = "store" /\ doing[t][2] = g

TagInv == TagTypeOK /\ (dead = Nobody => OneSlotEach /\ TagsSettled)

LEMMA SlotOfIs ==
  ASSUME OneSlotEach, NEW g, NEW i \in SlotOf(g)
  PROVE  SlotOf(g) = {i} /\ LevelOf(g) = tagLvl[i].level /\ Min(SlotOf(g)) = i
<1>1. SlotOf(g) = {i} /\ i \in 1 .. Slots
  BY DEF OneSlotEach, SlotOf
<1>2. Min({i}) = i
  <2>1. {i} \subseteq Nat /\ {i} # {}
    BY <1>1, CoreAssumption DEF CoreAssumption
  <2>2. Min({i}) \in {i}
    BY <2>1, MinIsIn
  <2> QED BY <2>2
<1> QED BY <1>1, <1>2 DEF LevelOf

LEMMA LevelNotAll ==
  ASSUME OneSlotEach, NEW g
  PROVE  LevelOf(g) # All <=> SlotOf(g) # {}
<1>1. CASE SlotOf(g) = {}
  BY <1>1 DEF LevelOf
<1>2. ASSUME NEW i \in SlotOf(g) PROVE LevelOf(g) # All
  <2>1. LevelOf(g) = tagLvl[i].level /\ i \in 1 .. Slots /\ tagLvl[i].used
    BY SlotOfIs DEF SlotOf
  <2> QED BY <2>1 DEF OneSlotEach
<1> QED BY <1>1, <1>2

\* While nobody is about to write, as many tags are filtered as slots are used.
LEMMA FilteredTags ==
  ASSUME TagTypeOK, OneSlotEach, \A g \in Tags : LevelOf(g) = wanted[g]
  PROVE  Cardinality({h \in Tags : wanted[h] # All}) = Slots
           <=> \A i \in 1 .. Slots : tagLvl[i].used
<1> DEFINE F == {h \in Tags : wanted[h] # All}
           U == {i \in 1 .. Slots : tagLvl[i].used}
           f == [i \in U |-> tagLvl[i].tag]
<1>1. F = {h \in Tags : SlotOf(h) # {}}
  BY LevelNotAll
<1>2. \A i \in U : tagLvl[i].tag \in F
  BY <1>1 DEF OneSlotEach, SlotOf
<1>3. \A h \in F : \E i \in U : tagLvl[i].tag = h
  BY <1>1 DEF SlotOf
<1>4. \A i, j \in U : tagLvl[i].tag = tagLvl[j].tag => i = j
  BY DEF OneSlotEach
<1>5. Slots \in Nat /\ U \subseteq 1 .. Slots
  BY CoreAssumption DEF CoreAssumption
<1>6. (\A i \in 1 .. Slots : tagLvl[i].used) <=> U = 1 .. Slots
  OBVIOUS
<1> HIDE DEF F, U
<1>7. f \in Bijection(U, F)
  <2>1. f \in [U -> F]
    BY <1>2
  <2>2. f \in Injection(U, F)
    BY <1>4, <2>1 DEF Injection, IsInjective
  <2>3. f \in Surjection(U, F)
    BY <1>3, <2>1 DEF Surjection
  <2> QED BY <2>2, <2>3 DEF Bijection
<1> HIDE DEF f
<1>8. ExistsBijection(U, F)
  BY <1>7 DEF ExistsBijection
<1>9. IsFiniteSet(1 .. Slots) /\ Cardinality(1 .. Slots) = Slots
  <2>1. IsFiniteSet(1 .. Slots) /\ Cardinality(1 .. Slots) = IF 1 > Slots THEN 0 ELSE Slots - 1 + 1
    BY <1>5, FS_Interval
  <2> QED BY <1>5, <2>1
<1>10. /\ IsFiniteSet(U)
       /\ Cardinality(1 .. Slots) = Cardinality(U) => 1 .. Slots = U
  BY <1>5, <1>9, FS_Subset
<1>11. Cardinality(F) = Cardinality(U)
  BY <1>8, <1>10, FS_Bijection
<1>12. Cardinality(F) = Slots <=> U = 1 .. Slots
  BY <1>9, <1>10, <1>11
<1> QED BY <1>6, <1>12 DEF F

\* Before the fault, whoever is inside is alone.
LEMMA AloneInside ==
  ASSUME Kept, dead = Nobody, NEW t \in Inside, NEW u \in Inside
  PROVE  t = u
<1>1. Handler \notin Inside /\ ~Handled
  BY InsideIs DEF Kept, Placed, InPlaces, Handled
<1> QED BY <1>1 DEF Kept, LockInv, Holders

LEMMA TagsByFind ==
  ASSUME Kept, TagInv, NEW t \in Loggers, FindTag(t), dead = Nobody
  PROVE  TagsSettled'
<1> DEFINE g == doing[t][2]
           l == doing[t][3]
           free == {i \in 1 .. Slots : ~tagLvl[i].used}
           found == IF SlotOf(g) # {} THEN Min(SlotOf(g))
                    ELSE IF l # All /\ free # {} THEN Min(free) ELSE 0
<1>1. /\ elogAt[t] = "find" /\ elogAt' = [elogAt EXCEPT ![t] = "store"]
      /\ slot' = [slot EXCEPT ![t] = found]
      /\ wanted' = IF wanted[g] = All /\ Cardinality({h \in Tags : wanted[h] # All}) = Slots
                     THEN wanted ELSE [wanted EXCEPT ![g] = l]
      /\ UNCHANGED <<tagLvl, doing>>
  BY DEF FindTag, Step
<1>2. t \in ElogThreads /\ doing[t] \in Calls /\ doing[t][1] = "tag"
  BY <1>1 DEF ElogThreads, Kept, CoreTypeOK, Placed, DoneAt
<1>3. g \in Tags /\ l \in Levels
  BY <1>2, CallParts
<1>4. t \in Inside /\ \A u \in Loggers : elogAt[u] # "store"
  <2>1. t \in Inside
    BY <1>1, <1>2, InsideIs DEF InPlaces
  <2>2. ASSUME NEW u \in Loggers, elogAt[u] = "store" PROVE FALSE
    <3>1. u \in Inside
      BY <2>2, InsideIs DEF InPlaces, ElogThreads
    <3> QED BY <1>1, <2>1, <2>2, <3>1, AloneInside
  <2> QED BY <2>1, <2>2
<1>5. \A h \in Tags : LevelOf(h) = wanted[h]
  BY <1>4 DEF TagInv, TagsSettled
<1>6. \A h : SlotOf(h)' = SlotOf(h) /\ LevelOf(h)' = LevelOf(h)
  BY <1>1 DEF SlotOf, LevelOf
<1>7. elogAt'[t] = "store" /\ \A u \in Loggers \ {t} : elogAt'[u] # "store"
  BY <1>1, <1>2, <1>4 DEF Kept, CoreTypeOK, ElogThreads
<1>8. wanted'[g] = IF wanted[g] = All /\ Cardinality({h \in Tags : wanted[h] # All}) = Slots
                     THEN wanted[g] ELSE l
  BY <1>1, <1>3 DEF TagInv, TagTypeOK
<1>9. slot'[t] = found
  BY <1>1, <1>2 DEF Kept, CoreTypeOK
<1>10. wanted[g] = All <=> SlotOf(g) = {}
  BY <1>3, <1>5, LevelNotAll DEF TagInv
<1>11. Cardinality({h \in Tags : wanted[h] # All}) = Slots <=> free = {}
  <2>1. free = {} <=> \A i \in 1 .. Slots : tagLvl[i].used
    OBVIOUS
  <2> QED BY <1>5, <2>1, FilteredTags DEF TagInv
<1>12. Storing(t)'
  <2> SUFFICES /\ found # 0 => /\ wanted'[g] = l
                               /\ SlotOf(g) = {found} \/ (SlotOf(g) = {} /\ ~tagLvl[found].used)
               /\ found = 0 => LevelOf(g) = wanted'[g]
    BY <1>1, <1>6, <1>9 DEF Storing
  <2>1. CASE SlotOf(g) # {}
    <3>1. PICK i \in SlotOf(g) : TRUE
      BY <2>1
    <3>2. found = i /\ SlotOf(g) = {i} /\ i # 0
      <4>1. SlotOf(g) = {i} /\ Min(SlotOf(g)) = i
        BY <3>1, SlotOfIs DEF TagInv
      <4>2. i \in 1 .. Slots /\ 0 \notin 1 .. Slots
        BY <3>1, CoreAssumption DEF SlotOf, CoreAssumption
      <4> QED BY <2>1, <4>1, <4>2
    <3>3. wanted'[g] = l
      BY <1>8, <1>10, <2>1
    <3> QED BY <3>2, <3>3
  <2>2. CASE SlotOf(g) = {} /\ l # All /\ free # {}
    <3>1. found = Min(free)
      BY <2>2
    <3>2. Min(free) \in free
      <4>1. free \subseteq Nat
        BY CoreAssumption DEF CoreAssumption
      <4> HIDE DEF free
      <4> QED BY <2>2, <4>1, MinIsIn
    <3>3. ~tagLvl[found].used /\ found # 0
      BY <3>1, <3>2, CoreAssumption DEF CoreAssumption
    <3>4. wanted'[g] = l
      BY <1>8, <1>11, <2>2
    <3> QED BY <2>2, <3>3, <3>4
  <2>3. CASE SlotOf(g) = {} /\ ~(l # All /\ free # {})
    <3>1. found = 0
      BY <2>3
    <3>2. wanted[g] = All /\ LevelOf(g) = All
      BY <1>10, <2>3 DEF LevelOf
    <3>3. wanted'[g] = All
      BY <1>8, <1>11, <2>3, <3>2
    <3> QED BY <3>1, <3>2, <3>3
  <2> QED BY <2>1, <2>2, <2>3
<1>13. ASSUME NEW h \in Tags PROVE LevelOf(h)' = wanted'[h] \/ (elogAt'[t] = "store" /\ doing'[t][2] = h)
  <2>1. h # g => wanted'[h] = wanted[h]
    BY <1>1, <1>13 DEF TagInv, TagTypeOK
  <2> QED BY <1>1, <1>5, <1>6, <1>7, <2>1
<1> HIDE DEF g, l, free, found
<1> QED BY <1>7, <1>12, <1>13 DEF TagsSettled

LEMMA TagsByStore ==
  ASSUME Kept, TagInv, NEW t \in Loggers, StoreTag(t), dead = Nobody
  PROVE  OneSlotEach' /\ TagsSettled'
<1> DEFINE g == doing[t][2]
           l == doing[t][3]
           k == slot[t]
<1>1. /\ elogAt[t] = "store" /\ elogAt' = [elogAt EXCEPT ![t] = "unlock"]
      /\ tagLvl' = [i \in 1 .. Slots |-> IF i = k THEN SlotFor(g, l) ELSE tagLvl[i]]
      /\ UNCHANGED <<slot, wanted, doing>>
  BY DEF StoreTag, Step
<1>2. t \in ElogThreads /\ doing[t] \in Calls /\ doing[t][1] = "tag"
  BY <1>1 DEF ElogThreads, Kept, CoreTypeOK, Placed, DoneAt
<1>3. g \in Tags /\ l \in Levels
  BY <1>2, CallParts
<1>4. OneSlotEach /\ TagsSettled /\ Storing(t)
  BY <1>1 DEF TagInv, TagsSettled
<1>5. \A u \in Loggers : elogAt'[u] # "store"
  <2> SUFFICES ASSUME NEW u \in Loggers, u # t, elogAt[u] = "store" PROVE FALSE
    BY <1>1, <1>2 DEF Kept, CoreTypeOK, ElogThreads
  <2>1. u \in Inside /\ t \in Inside
    BY <1>1, <1>2, InsideIs DEF InPlaces, ElogThreads
  <2> QED BY <2>1, AloneInside
<1>6. \A h \in Tags : LevelOf(h) = wanted[h] \/ h = g
  <2> SUFFICES ASSUME NEW h \in Tags, NEW u \in Loggers, elogAt[u] = "store", doing[u][2] = h
               PROVE  u = t
    BY <1>4 DEF TagsSettled
  <2>1. u \in Inside /\ t \in Inside
    BY <1>1, <1>2, InsideIs DEF InPlaces, ElogThreads
  <2> QED BY <2>1, AloneInside
<1>7. Slots \in Nat /\ k \in 0 .. Slots
  BY <1>2, CoreAssumption DEF CoreAssumption, Kept, CoreTypeOK
<1>8. CASE k = 0
  <2>1. \A i \in 1 .. Slots : tagLvl'[i] = tagLvl[i]
    BY <1>1, <1>7, <1>8
  <2>2. OneSlotEach'
    BY <1>4, <2>1 DEF OneSlotEach
  <2>3. \A h : SlotOf(h)' = SlotOf(h)
    BY <2>1 DEF SlotOf
  <2>4. \A h : LevelOf(h)' = LevelOf(h)
    <3> SUFFICES ASSUME NEW h, NEW i \in SlotOf(h) PROVE LevelOf(h)' = LevelOf(h)
      BY <2>3 DEF LevelOf
    <3>1. SlotOf(h) = {i} /\ Min(SlotOf(h)) = i /\ i \in 1 .. Slots
      BY <1>4, SlotOfIs DEF SlotOf
    <3> QED BY <2>1, <2>3, <3>1 DEF LevelOf
  <2>5. LevelOf(g) = wanted[g]
    BY <1>4, <1>8 DEF Storing
  <2> QED BY <1>1, <1>5, <1>6, <2>2, <2>4, <2>5 DEF TagsSettled
<1>9. CASE k # 0
  <2>1. /\ k \in 1 .. Slots /\ wanted[g] = l
        /\ SlotOf(g) = {k} \/ (SlotOf(g) = {} /\ ~tagLvl[k].used)
    BY <1>4, <1>7, <1>9 DEF Storing
  <2>2. tagLvl'[k] = SlotFor(g, l) /\ \A i \in 1 .. Slots \ {k} : tagLvl'[i] = tagLvl[i]
    BY <1>1, <2>1
  <2>3. /\ tagLvl'[k].used <=> l # All
        /\ l # All => tagLvl'[k].tag = g /\ tagLvl'[k].level = l
    BY <2>2 DEF SlotFor, NoTag
  <2>4. \A i \in 1 .. Slots \ {k} : tagLvl[i].used => tagLvl[i].tag # g
    BY <2>1 DEF SlotOf
  <2>5. OneSlotEach'
    <3>1. ASSUME NEW i \in 1 .. Slots, tagLvl'[i].used
          PROVE  tagLvl'[i].tag \in Tags /\ tagLvl'[i].level # All
      BY <1>3, <1>4, <2>2, <2>3, <3>1 DEF OneSlotEach
    <3>2. ASSUME NEW i \in 1 .. Slots, NEW j \in 1 .. Slots,
                 tagLvl'[i].used, tagLvl'[j].used, tagLvl'[i].tag = tagLvl'[j].tag
          PROVE  i = j
      <4>1. CASE i = k \/ j = k
        BY <2>2, <2>3, <2>4, <3>2, <4>1
      <4>2. CASE i # k /\ j # k
        BY <1>4, <2>2, <3>2, <4>2 DEF OneSlotEach
      <4> QED BY <4>1, <4>2
    <3> QED BY <3>1, <3>2 DEF OneSlotEach
  <2>6. SlotOf(g)' = IF l = All THEN {} ELSE {k}
    BY <1>1, <2>1, <2>2, <2>3, <2>4 DEF SlotOf
  <2>7. LevelOf(g)' = wanted'[g]
    <3>1. CASE l = All
      BY <1>1, <2>1, <2>6, <3>1 DEF LevelOf
    <3>2. CASE l # All
      <4>1. {k} \subseteq Nat /\ {k} # {}
        BY <2>1
      <4>2. Min({k}) = k
        BY <4>1, MinIsIn
      <4>3. LevelOf(g)' = tagLvl'[k].level
        BY <2>6, <3>2, <4>2 DEF LevelOf
      <4> QED BY <1>1, <2>1, <2>3, <3>2, <4>3
    <3> QED BY <3>1, <3>2
  <2>8. ASSUME NEW h \in Tags, h # g PROVE LevelOf(h)' = LevelOf(h)
    <3>1. k \notin SlotOf(h) /\ k \notin SlotOf(h)'
      <4>1. k \notin SlotOf(h)
        BY <2>1, <2>8 DEF SlotOf
      <4>2. k \notin SlotOf(h)'
        BY <2>3, <2>8 DEF SlotOf
      <4> QED BY <4>1, <4>2
    <3>2. SlotOf(h)' = SlotOf(h)
      BY <2>2, <3>1 DEF SlotOf
    <3>3. CASE SlotOf(h) = {}
      BY <3>2, <3>3 DEF LevelOf
    <3>4. ASSUME NEW i \in SlotOf(h) PROVE LevelOf(h)' = LevelOf(h)
      <4>1. SlotOf(h) = {i} /\ Min(SlotOf(h)) = i /\ i \in 1 .. Slots /\ i # k
        BY <1>4, <3>1, <3>4, SlotOfIs DEF SlotOf
      <4> QED BY <2>2, <3>2, <4>1 DEF LevelOf
    <3> QED BY <3>3, <3>4
  <2>9. ASSUME NEW h \in Tags PROVE LevelOf(h)' = wanted'[h]
    <3>1. CASE h = g
      BY <1>1, <2>7, <3>1
    <3>2. CASE h # g
      <4>1. LevelOf(h)' = LevelOf(h)
        BY <2>8, <3>2
      <4>2. LevelOf(h) = wanted[h]
        BY <1>6, <3>2
      <4> QED BY <1>1, <4>1, <4>2
    <3> QED BY <3>1, <3>2
  <2> QED BY <1>5, <2>5, <2>9 DEF TagsSettled
<1> QED BY <1>8, <1>9

\* Steps that leave the filters alone and are none of setting one.
LEMMA TagsByQuiet ==
  ASSUME Kept, TagInv, UNCHANGED tagLvl, UNCHANGED wanted, dead' = Nobody => dead = Nobody,
         \A u \in Loggers : elogAt'[u] = "store" <=> elogAt[u] = "store",
         \A u \in Loggers : elogAt[u] = "store" => slot'[u] = slot[u] /\ doing'[u] = doing[u]
  PROVE  TagInv'
<1>1. \A h : SlotOf(h)' = SlotOf(h)
  BY DEF SlotOf
<1>2. \A h : LevelOf(h)' = LevelOf(h)
  BY <1>1 DEF LevelOf
<1>3. TagTypeOK'
  BY DEF TagInv, TagTypeOK
<1>4. ASSUME dead' = Nobody PROVE OneSlotEach' /\ TagsSettled'
  <2>1. OneSlotEach /\ TagsSettled
    BY <1>4 DEF TagInv
  <2>2. OneSlotEach'
    BY <2>1 DEF OneSlotEach
  <2>3. ASSUME NEW u \in Loggers, elogAt'[u] = "store" PROVE Storing(u)'
    <3>1. Storing(u) /\ slot'[u] = slot[u] /\ doing'[u] = doing[u]
      BY <2>1, <2>3 DEF TagsSettled
    <3> QED BY <1>1, <1>2, <3>1 DEF Storing
  <2>4. ASSUME NEW h \in Tags
        PROVE  LevelOf(h)' = wanted'[h] \/ \E u \in Loggers : elogAt'[u] = "store" /\ doing'[u][2] = h
    BY <1>2, <2>1 DEF TagsSettled
  <2> QED BY <2>2, <2>3, <2>4 DEF TagsSettled
<1> QED BY <1>3, <1>4 DEF TagInv

LEMMA TagsInit == CoreInit => TagInv
<1> SUFFICES ASSUME CoreInit PROVE TagInv
  OBVIOUS
<1>1. \A i \in 1 .. Slots : tagLvl[i] = NoTag /\ ~tagLvl[i].used
  BY DEF CoreInit, NoTag
<1>2. TagTypeOK
  <2>1. NoTag \in [used : BOOLEAN, tag : Tags \cup {Nobody}, level : Levels \cup {0, All}]
    BY DEF NoTag
  <2> QED BY <2>1 DEF CoreInit, TagTypeOK
<1>3. OneSlotEach
  BY <1>1 DEF OneSlotEach
<1>4. \A g : LevelOf(g) = All
  BY <1>1 DEF LevelOf, SlotOf
<1>5. TagsSettled
  <2>1. \A t \in Loggers : elogAt[t] # "store"
    BY CoreAssumption DEF CoreAssumption, CoreInit, ElogThreads
  <2> QED BY <1>4, <2>1 DEF TagsSettled, CoreInit
<1> QED BY <1>2, <1>3, <1>5 DEF TagInv

\* A step of one thread that neither comes to a place where it writes a slot nor leaves it.
LEMMA TagsByGoing ==
  ASSUME Kept, TagInv, NEW t, NEW from, NEW to, Goes(t, from, to), from # "store", to # "store",
         UNCHANGED <<tagLvl, wanted>>, \A u \in ElogThreads \ {t} : slot'[u] = slot[u]
  PROVE  TagInv'
<1>1. /\ elogAt' = [elogAt EXCEPT ![t] = to] /\ elogAt[t] = from /\ t \in ElogThreads /\ dead' = dead
      /\ \A u \in ElogThreads \ {t} : doing'[u] = doing[u]
  BY DEF Goes, Step
<1>2. \A u \in Loggers : elogAt'[u] = "store" <=> elogAt[u] = "store"
  BY <1>1 DEF Kept, CoreTypeOK, ElogThreads
<1>3. \A u \in Loggers : elogAt[u] = "store" => u \in ElogThreads \ {t}
  BY <1>1 DEF ElogThreads
<1> QED BY <1>1, <1>2, <1>3, TagsByQuiet

LEMMA TagsNext ==
  ASSUME Kept, TagInv, [CoreNext]_coreVars
  PROVE  TagInv'
<1>1. ASSUME NEW t \in ElogThreads, ElogOutput(t) PROVE TagInv'
  <2>1. PICK from : from \in {"log", "idle"} /\ Goes(t, from, "lock")
    BY <1>1, OutputGoes
  <2>2. UNCHANGED <<tagLvl, wanted, slot>>
    BY <1>1 DEF ElogOutput, tagVars
  <2> QED BY <2>1, <2>2, TagsByGoing
<1>2. ASSUME NEW t \in ElogThreads, AskLevel(t) PROVE TagInv'
  BY <1>2, AskGoes, TagsByGoing DEF AskLevel, tagVars
<1>3. ASSUME NEW t \in Loggers, ElogRaw(t) \/ ElogSetTagLvl(t) \/ ElogHexdump(t) PROVE TagInv'
  <2>1. Goes(t, "idle", "lock")
    BY <1>3, RawGoes, SetTagLvlGoes, HexdumpGoes
  <2> QED BY <1>3, <2>1, TagsByGoing DEF ElogRaw, ElogSetTagLvl, ElogHexdump, tagVars
<1>4. ASSUME NEW t \in ElogThreads, OutputLock(t) PROVE TagInv'
  <2>1. PICK to \in {"note", "head", "body", "row", "find", "ask"} : Goes(t, "lock", to)
    BY <1>4, LockGoes
  <2> QED BY <1>4, <2>1, TagsByGoing DEF OutputLock, tagVars
<1>14. ASSUME NEW t \in Loggers, SetFlag(t) PROVE TagInv'
  <2>1. PICK to \in {"head", "body", "row", "find", "ask"} : Goes(t, "note", to)
    BY <1>14, SetFlagGoes
  <2> QED BY <1>14, <2>1, TagsByGoing DEF SetFlag, tagVars
<1>5. ASSUME NEW t \in ElogThreads, OutputUnlock(t) PROVE TagInv'
  <2>1. PICK to \in {"flag", "lock", "enable", "idle"} : Goes(t, "unlock", to)
    BY <1>5, UnlockGoes
  <2>2. UNCHANGED <<tagLvl, wanted>> /\ slot' = [slot EXCEPT ![t] = 0]
    BY <1>5 DEF OutputUnlock
  <2>3. \A u \in ElogThreads \ {t} : slot'[u] = slot[u]
    BY <2>2 DEF Kept, CoreTypeOK
  <2> QED BY <2>1, <2>2, <2>3, TagsByGoing
<1>6. ASSUME NEW t \in Loggers, ClearFlag(t) PROVE TagInv'
  <2>1. PICK to \in {"lock", "idle"} : Goes(t, "flag", to)
    BY <1>6, ClearFlagGoes
  <2> QED BY <1>6, <2>1, TagsByGoing DEF ClearFlag, tagVars
<1>7. ASSUME NEW t \in ElogThreads, PackHead(t) \/ PackBody(t) \/ PackEnd(t) PROVE TagInv'
  <2>1. PICK from, to : Goes(t, from, to) /\ from # "store" /\ to # "store"
    BY <1>7, PackGoes
  <2>2. UNCHANGED <<tagLvl, wanted, slot>>
    BY <1>7 DEF PackHead, PackBody, PackEnd, tagVars
  <2> QED BY <2>1, <2>2, TagsByGoing
<1>8. ASSUME NEW t \in Loggers, DumpRow(t) PROVE TagInv'
  <2>1. PICK to \in {"row", "unlock"} : Goes(t, "row", to)
    BY <1>8, DumpGoes
  <2> QED BY <1>8, <2>1, TagsByGoing DEF DumpRow, tagVars
<1>9. ASSUME NEW t \in Loggers, Fault(t) PROVE TagInv'
  <2>1. /\ dead = Nobody /\ dead' = t /\ elogAt' = [elogAt EXCEPT ![Handler] = "disable"]
        /\ UNCHANGED <<tagLvl, wanted, slot, doing>>
    BY <1>9 DEF Fault, tagVars
  <2>2. dead' # Nobody /\ Handler \notin Loggers
    BY <2>1, CoreAssumption DEF CoreAssumption
  <2>3. \A u \in Loggers : elogAt'[u] = elogAt[u]
    BY <2>1, <2>2 DEF Kept, CoreTypeOK, ElogThreads
  <2> QED BY <2>1, <2>2, <2>3, TagsByQuiet
<1>10. ASSUME DisableLock \/ EnableLock PROVE TagInv'
  <2>1. PICK from, to : Goes(Handler, from, to) /\ from # "store" /\ to # "store"
    BY <1>10, HandlerGoes
  <2>2. UNCHANGED <<tagLvl, wanted, slot>>
    BY <1>10 DEF DisableLock, EnableLock, tagVars
  <2> QED BY <2>1, <2>2, TagsByGoing
<1>11. ASSUME NEW t \in Loggers, FindTag(t) PROVE TagInv'
  <2>1. /\ UNCHANGED <<tagLvl, dead, doing>> /\ elogAt[t] = "find"
        /\ wanted' = wanted \/ wanted' = [wanted EXCEPT ![doing[t][2]] = doing[t][3]]
    BY <1>11 DEF FindTag, Step
  <2>2. doing[t][3] \in Levels
    <3>1. t \in ElogThreads
      BY DEF ElogThreads
    <3>2. doing[t] \in Calls /\ doing[t][1] = "tag"
      BY <2>1, <3>1 DEF Kept, CoreTypeOK, Placed, DoneAt
    <3> QED BY <3>2, CallParts
  <2>3. TagTypeOK'
    BY <2>1, <2>2 DEF TagInv, TagTypeOK
  <2>4. dead = Nobody => OneSlotEach'
    BY <2>1 DEF TagInv, OneSlotEach
  <2> QED BY <1>11, <2>1, <2>3, <2>4, TagsByFind DEF TagInv
<1>12. ASSUME NEW t \in Loggers, StoreTag(t) PROVE TagInv'
  <2>1. /\ UNCHANGED <<wanted, dead>> /\ elogAt[t] = "store"
        /\ tagLvl' = [i \in 1 .. Slots |-> IF i = slot[t] THEN SlotFor(doing[t][2], doing[t][3])
                                           ELSE tagLvl[i]]
    BY <1>12 DEF StoreTag, Step
  <2>2. doing[t][2] \in Tags /\ doing[t][3] \in Levels
    <3>1. t \in ElogThreads
      BY DEF ElogThreads
    <3>2. doing[t] \in Calls /\ doing[t][1] = "tag"
      BY <2>1, <3>1 DEF Kept, CoreTypeOK, Placed, DoneAt
    <3> QED BY <3>2, CallParts
  <2>3. SlotFor(doing[t][2], doing[t][3])
          \in [used : BOOLEAN, tag : Tags \cup {Nobody}, level : Levels \cup {0, All}]
    BY <2>2 DEF SlotFor, NoTag
  <2>4. TagTypeOK'
    BY <2>1, <2>3 DEF TagInv, TagTypeOK
  <2> QED BY <1>12, <2>1, <2>4, TagsByStore DEF TagInv
<1>13. ASSUME UNCHANGED coreVars PROVE TagInv'
  BY <1>13, TagsByQuiet DEF coreVars, tagVars
<1> QED BY <1>1, <1>2, <1>3, <1>4, <1>5, <1>6, <1>7, <1>8, <1>9, <1>10, <1>11, <1>12, <1>13,
           <1>14 DEF CoreNext

\* Under the lock, every tag has the level that was last asked for it, however
\* many slots there are and in whatever order they are given and taken back.
THEOREM TagLevelsHold == CoreSpec => []TagLevelHolds
<1>1. CoreInit => Kept /\ TagInv
  BY KeptInit, TagsInit
<1>2. Kept /\ TagInv /\ [CoreNext]_coreVars => (Kept /\ TagInv)'
  BY KeptNext, TagsNext
<1>3. Kept /\ TagInv => TagLevelHolds
  <2> SUFFICES ASSUME Kept, TagInv, dead = Nobody, Inside = {}, NEW g \in Tags
               PROVE  LevelOf(g) = wanted[g]
    BY DEF TagLevelHolds
  <2>1. \A t \in Loggers : elogAt[t] # "store"
    BY InsideIs DEF InPlaces, ElogThreads
  <2> QED BY <2>1 DEF TagInv, TagsSettled
<1> QED BY <1>1, <1>2, <1>3, PTL DEF CoreSpec

-----------------------------------------------------------------------------
(* The buffered output: what was output and what is buffered are together   *)
(* what was logged.                                                         *)

BufTypeOK == /\ outBuf \in Seq(Nat) /\ outShown \in Seq(Nat) /\ outSent \in Nat
             /\ bypassed \in BOOLEAN

\* s is k bytes, each once, and in order unless some went another way.
Numbered(s, k) == s = [i \in 1 .. k |-> i]
AllThere(s, k) == ToSet(s) = 1 .. k /\ Len(s) = k

BufInv == /\ BufTypeOK /\ Len(outBuf) <= OutSize
          /\ IF bypassed THEN AllThere(outShown \o outBuf, outSent)
                         ELSE Numbered(outShown \o outBuf, outSent)

LEMMA BufInvIs == BufInv <=> BufTypeOK /\ BufKeepsOrder
BY DEF BufInv, BufKeepsOrder, AllThere, Numbered

\* The bytes of a log of n, the next after k.
Bytes(k, n) == [i \in 1 .. n |-> k + i]

LEMMA BytesAre ==
  ASSUME NEW k \in Nat, NEW n \in Nat
  PROVE  /\ Bytes(k, n) \in Seq(Nat) /\ Len(Bytes(k, n)) = n
         /\ \A i \in 1 .. n : Bytes(k, n)[i] = k + i
         /\ ToSet(Bytes(k, n)) = k + 1 .. k + n
<1>1. Bytes(k, n) \in [1 .. n -> Nat]
  BY DEF Bytes
<1>2. \A i \in 1 .. n : Bytes(k, n)[i] = k + i
  BY DEF Bytes
<1>3. DOMAIN Bytes(k, n) = 1 .. n
  BY <1>1
<1>4. Bytes(k, n) \in Seq(Nat) /\ Len(Bytes(k, n)) = n
  BY <1>1
<1>5. ASSUME NEW x \in k + 1 .. k + n PROVE x \in ToSet(Bytes(k, n))
  <2>1. x - k \in 1 .. n /\ k + (x - k) = x
    OBVIOUS
  <2>2. Bytes(k, n)[x - k] = x
    BY <1>2, <2>1
  <2> QED BY <1>3, <2>1, <2>2 DEF ToSet
<1>6. ASSUME NEW x \in ToSet(Bytes(k, n)) PROVE x \in k + 1 .. k + n
  <2>1. PICK i \in 1 .. n : x = Bytes(k, n)[i]
    BY <1>3 DEF ToSet
  <2> QED BY <1>2, <2>1
<1> QED BY <1>2, <1>4, <1>5, <1>6

LEMMA Joined ==
  ASSUME NEW s \in Seq(Nat), NEW r \in Seq(Nat)
  PROVE  /\ s \o r \in Seq(Nat) /\ Len(s \o r) = Len(s) + Len(r)
         /\ \A i \in 1 .. Len(s) : (s \o r)[i] = s[i]
         /\ \A i \in 1 .. Len(r) : (s \o r)[Len(s) + i] = r[i]
         /\ ToSet(s \o r) = ToSet(s) \cup ToSet(r)
<1>1. /\ s \o r \in Seq(Nat) /\ Len(s \o r) = Len(s) + Len(r)
      /\ \A i \in 1 .. Len(s) + Len(r) : (s \o r)[i] = IF i <= Len(s) THEN s[i] ELSE r[i - Len(s)]
  BY ConcatProperties
<1>2. Len(s) \in Nat /\ Len(r) \in Nat
  OBVIOUS
<1>3. \A i \in 1 .. Len(s) : (s \o r)[i] = s[i]
  BY <1>1, <1>2
<1>4. ASSUME NEW i \in 1 .. Len(r) PROVE (s \o r)[Len(s) + i] = r[i]
  <2>1. Len(s) + i \in 1 .. Len(s) + Len(r) /\ ~ (Len(s) + i <= Len(s)) /\ Len(s) + i - Len(s) = i
    BY <1>2
  <2> QED BY <1>1, <2>1
<1>5. /\ DOMAIN s = 1 .. Len(s) /\ DOMAIN r = 1 .. Len(r)
      /\ DOMAIN (s \o r) = 1 .. Len(s) + Len(r)
  BY <1>1
<1>6. ToSet(s) \subseteq ToSet(s \o r)
  <2> SUFFICES ASSUME NEW i \in 1 .. Len(s) PROVE s[i] \in ToSet(s \o r)
    BY <1>5 DEF ToSet
  <2>1. i \in DOMAIN (s \o r) /\ (s \o r)[i] = s[i]
    BY <1>2, <1>3, <1>5
  <2> QED BY <2>1 DEF ToSet
<1>7. ToSet(r) \subseteq ToSet(s \o r)
  <2> SUFFICES ASSUME NEW i \in 1 .. Len(r) PROVE r[i] \in ToSet(s \o r)
    BY <1>5 DEF ToSet
  <2>1. Len(s) + i \in DOMAIN (s \o r) /\ (s \o r)[Len(s) + i] = r[i]
    BY <1>2, <1>4, <1>5
  <2> QED BY <2>1 DEF ToSet
<1>8. ToSet(s \o r) \subseteq ToSet(s) \cup ToSet(r)
  <2> SUFFICES ASSUME NEW i \in 1 .. Len(s) + Len(r) PROVE (s \o r)[i] \in ToSet(s) \cup ToSet(r)
    BY <1>5 DEF ToSet
  <2>1. CASE i <= Len(s)
    BY <1>2, <1>3, <1>5, <2>1 DEF ToSet
  <2>2. CASE i > Len(s)
    <3>1. i - Len(s) \in 1 .. Len(r) /\ (s \o r)[i] = r[i - Len(s)]
      BY <1>1, <1>2, <2>2
    <3> QED BY <1>5, <3>1 DEF ToSet
  <2> QED BY <1>2, <2>1, <2>2
<1> QED BY <1>1, <1>3, <1>4, <1>6, <1>7, <1>8

LEMMA NumberedOn ==
  ASSUME NEW s \in Seq(Nat), NEW k \in Nat, NEW n \in Nat, Numbered(s, k)
  PROVE  Numbered(s \o Bytes(k, n), k + n)
<1>1. Len(s) = k /\ \A i \in 1 .. k : s[i] = i
  BY DEF Numbered
<1> DEFINE b == Bytes(k, n)
<1>2. b \in Seq(Nat) /\ Len(b) = n /\ \A i \in 1 .. n : b[i] = k + i
  BY BytesAre
<1> HIDE DEF b
<1>3. /\ s \o b \in Seq(Nat) /\ Len(s \o b) = k + n
      /\ \A i \in 1 .. k : (s \o b)[i] = s[i]
      /\ \A i \in 1 .. n : (s \o b)[k + i] = b[i]
  BY <1>1, <1>2, Joined
<1>4. ASSUME NEW i \in 1 .. k + n PROVE (s \o b)[i] = i
  <2>1. CASE i <= k
    BY <1>1, <1>3, <2>1
  <2>2. CASE i > k
    <3>1. i - k \in 1 .. n /\ k + (i - k) = i
      BY <2>2
    <3> QED BY <1>2, <1>3, <3>1
  <2>3. i <= k \/ i > k
    OBVIOUS
  <2> QED BY <2>1, <2>2, <2>3, Zenon
<1>5. PICK t : t = [i \in 1 .. k + n |-> i]
  OBVIOUS
<1>6. t \in Seq(Nat) /\ Len(t) = k + n /\ \A i \in 1 .. k + n : t[i] = i
  <2>1. t \in [1 .. k + n -> Nat] /\ k + n \in Nat
    BY <1>5
  <2> QED BY <1>5, <2>1
<1>7. s \o b = t
  BY <1>3, <1>4, <1>6, SeqEqual
<1> QED BY <1>5, <1>7, Zenon DEF Numbered, b

LEMMA AllThereOn ==
  ASSUME NEW s \in Seq(Nat), NEW k \in Nat, NEW n \in Nat, AllThere(s, k)
  PROVE  AllThere(s \o Bytes(k, n), k + n)
<1>1. ToSet(s) = 1 .. k /\ Len(s) = k
  BY DEF AllThere
<1> DEFINE b == Bytes(k, n)
<1>2. b \in Seq(Nat) /\ Len(b) = n /\ ToSet(b) = k + 1 .. k + n
  BY BytesAre
<1> HIDE DEF b
<1>3. Len(s \o b) = k + n /\ ToSet(s \o b) = ToSet(s) \cup ToSet(b)
  BY <1>1, <1>2, Joined
<1>4. (1 .. k) \cup (k + 1 .. k + n) = 1 .. k + n
  OBVIOUS
<1> QED BY <1>1, <1>2, <1>3, <1>4, Zenon DEF AllThere, b

LEMMA NumberedIsThere ==
  ASSUME NEW s \in Seq(Nat), NEW k \in Nat, Numbered(s, k)
  PROVE  AllThere(s, k)
BY DEF Numbered, AllThere, ToSet

\* What is output of all there is leaves at most a full buffer.
LEMMA FilledFits ==
  ASSUME NEW all \in Seq(Nat)
  PROVE  Filled(all) \in 0 .. Len(all) /\ Len(all) - Filled(all) <= OutSize
<1>1. CASE all = <<>>
  BY <1>1, BufAssumption DEF Filled, BufAssumption
<1>2. CASE all # <<>>
  <2>1. PICK m, q : /\ m = Len(all) - 1 /\ q = m \div OutSize /\ m \in Nat
    BY <1>2
  <2>2. OutSize \in Nat /\ OutSize > 0
    BY BufAssumption DEF BufAssumption
  <2>3. q \in Nat /\ q * OutSize <= m /\ m < q * OutSize + OutSize
    BY <2>1, <2>2
  <2>4. Filled(all) = q * OutSize /\ q * OutSize \in Nat
    BY <1>2, <2>1, <2>2, <2>3 DEF Filled
  <2> QED BY <2>1, <2>2, <2>3, <2>4
<1> QED BY <1>1, <1>2

\* A sequence in two parts.
LEMMA Parted ==
  ASSUME NEW s \in Seq(Nat), NEW m \in 0 .. Len(s)
  PROVE  /\ SubSeq(s, 1, m) \in Seq(Nat) /\ SubSeq(s, m + 1, Len(s)) \in Seq(Nat)
         /\ Len(SubSeq(s, m + 1, Len(s))) = Len(s) - m
         /\ s = SubSeq(s, 1, m) \o SubSeq(s, m + 1, Len(s))
<1> DEFINE a == SubSeq(s, 1, m)
           b == SubSeq(s, m + 1, Len(s))
<1>1. Len(s) \in Nat /\ m \in Int /\ m + 1 \in Int /\ 1 \in Int
  OBVIOUS
<1>2. /\ a \in Seq(Nat) /\ Len(a) = (IF 1 <= m THEN m - 1 + 1 ELSE 0)
      /\ \A i \in 1 .. m - 1 + 1 : a[i] = s[1 + i - 1]
  <2>1. \A i \in 1 .. m : s[i] \in Nat
    OBVIOUS
  <2> QED BY <1>1, <2>1, SubSeqProperties
<1>3. /\ b \in Seq(Nat)
      /\ Len(b) = (IF m + 1 <= Len(s) THEN Len(s) - (m + 1) + 1 ELSE 0)
      /\ \A i \in 1 .. Len(s) - (m + 1) + 1 : b[i] = s[m + 1 + i - 1]
  <2>1. \A i \in m + 1 .. Len(s) : s[i] \in Nat
    OBVIOUS
  <2> QED BY <1>1, <2>1, SubSeqProperties
<1> HIDE DEF a, b
<1>4. Len(a) = m /\ \A i \in 1 .. m : a[i] = s[i]
  BY <1>1, <1>2
<1>5. Len(b) = Len(s) - m /\ \A i \in 1 .. Len(s) - m : b[i] = s[m + i]
  <2>1. Len(s) - (m + 1) + 1 = Len(s) - m
    BY <1>1
  <2>2. Len(b) = Len(s) - m
    <3>1. PICK len \in Nat : len = Len(s)
      BY <1>1
    <3>2. m \in 0 .. len
      BY <3>1
    <3>3. (IF m + 1 <= len THEN len - (m + 1) + 1 ELSE 0) = len - m
      <4>1. m \in Nat /\ m <= len
        BY <3>2
      <4>2. CASE m = len
        BY ONLY <4>2, len \in Nat, m \in Nat
      <4>3. CASE m + 1 <= len
        BY ONLY <4>1, <4>3, len \in Nat, SMTT(30)
      <4> QED BY <4>1, <4>2, <4>3
    <3> QED BY ONLY <1>3, <3>1, <3>3
  <2>3. ASSUME NEW i \in 1 .. Len(s) - m PROVE b[i] = s[m + i]
    <3>1. m + 1 + i - 1 = m + i
      BY <1>1
    <3> QED BY ONLY <1>3, <2>1, <3>1, i \in 1 .. Len(s) - m
  <2> QED BY <2>2, <2>3
<1>6. /\ a \o b \in Seq(Nat) /\ Len(a \o b) = Len(s)
      /\ \A i \in 1 .. m : (a \o b)[i] = a[i]
      /\ \A i \in 1 .. Len(s) - m : (a \o b)[m + i] = b[i]
  <2>1. /\ a \o b \in Seq(Nat) /\ Len(a \o b) = Len(a) + Len(b)
        /\ \A i \in 1 .. Len(a) : (a \o b)[i] = a[i]
        /\ \A i \in 1 .. Len(b) : (a \o b)[Len(a) + i] = b[i]
    BY <1>2, <1>3, Joined
  <2>2. Len(a) = m /\ Len(b) = Len(s) - m
    BY <1>4, <1>5
  <2>3. m + (Len(s) - m) = Len(s)
    BY <1>1
  <2> QED BY <2>1, <2>2, <2>3
<1>7. ASSUME NEW i \in 1 .. Len(s) PROVE (a \o b)[i] = s[i]
  <2>1. CASE i <= m
    BY <1>1, <1>4, <1>6, <2>1
  <2>2. CASE i > m
    <3>1. i - m \in 1 .. Len(s) - m /\ m + (i - m) = i
      BY <1>1, <2>2
    <3> QED BY <1>5, <1>6, <3>1
  <2>3. i <= m \/ i > m
    BY <1>1
  <2> QED BY <2>1, <2>2, <2>3, Zenon
<1>8. a \o b = s
  BY <1>6, <1>7, SeqEqual
<1> QED BY <1>2, <1>3, <1>5, <1>8 DEF a, b

LEMMA Regrouped ==
  \A s, t, u \in Seq(Nat) : (s \o t) \o u = s \o (t \o u)
BY ConcatAssociative, SMTT(40)

LEMMA BufInit == OutInit => BufInv
<1> SUFFICES ASSUME OutInit PROVE BufInv
  OBVIOUS
<1>1. outBuf = <<>> /\ outShown = <<>> /\ outSent = 0 /\ bypassed = FALSE
  BY DEF OutInit
<1>2. outShown \o outBuf = <<>>
  BY <1>1
<1>3. Numbered(<<>>, 0)
  BY DEF Numbered
<1>4. BufTypeOK
  <2>1. <<>> \in Seq(Nat) /\ FALSE \in BOOLEAN /\ 0 \in Nat
    OBVIOUS
  <2> QED BY <1>1, <2>1, Zenon DEF BufTypeOK
<1>5. Len(outBuf) <= OutSize
  BY <1>1, BufAssumption DEF BufAssumption
<1>6. Numbered(outShown \o outBuf, outSent)
  BY <1>1, <1>2, <1>3, Zenon
<1> QED BY <1>1, <1>4, <1>5, <1>6 DEF BufInv

LEMMA BufByOutput ==
  ASSUME BufInv, BufOutput
  PROVE  BufInv'
<1>1. PICK n, all :
        /\ n \in OutLens
        /\ all = outBuf \o Bytes(outSent, n)
        /\ outSent' = outSent + n
        /\ IF outOn
             THEN /\ outShown' = outShown \o SubSeq(all, 1, Filled(all))
                  /\ outBuf' = SubSeq(all, Filled(all) + 1, Len(all))
                  /\ UNCHANGED bypassed
             ELSE /\ outShown' = outShown \o SubSeq(all, Len(outBuf) + 1, Len(all))
                  /\ bypassed' = (bypassed \/ outBuf # <<>>) /\ UNCHANGED outBuf
  BY DEF BufOutput, Bytes
<1>2. n \in Nat /\ outSent \in Nat /\ outBuf \in Seq(Nat) /\ outShown \in Seq(Nat) /\ bypassed \in BOOLEAN
  BY <1>1, BufAssumption DEF BufAssumption, BufInv, BufTypeOK
<1>3. PICK new : new = Bytes(outSent, n) /\ new \in Seq(Nat) /\ Len(new) = n
  BY <1>2, BytesAre
<1>4. all \in Seq(Nat) /\ Len(all) = Len(outBuf) + n
  <2>1. outBuf \o new \in Seq(Nat) /\ Len(outBuf \o new) = Len(outBuf) + Len(new)
    BY <1>2, <1>3, Joined
  <2> QED BY <1>1, <1>3, <2>1
<1>5. PICK was : was = outShown \o outBuf /\ was \in Seq(Nat)
  BY <1>2, Joined
<1>6. Numbered(was, outSent) => Numbered(was \o new, outSent + n)
  BY <1>2, <1>3, <1>5, NumberedOn
<1>7. AllThere(was, outSent) => AllThere(was \o new, outSent + n)
  BY <1>2, <1>3, <1>5, AllThereOn
<1>8. CASE outOn
  <2>1. PICK f : f = Filled(all) /\ f \in 0 .. Len(all) /\ Len(all) - f <= OutSize
    BY <1>4, FilledFits
  <2>2. PICK a, b : /\ a = SubSeq(all, 1, f) /\ b = SubSeq(all, f + 1, Len(all))
                    /\ a \in Seq(Nat) /\ b \in Seq(Nat) /\ Len(b) = Len(all) - f /\ all = a \o b
    <3>1. /\ SubSeq(all, 1, f) \in Seq(Nat) /\ SubSeq(all, f + 1, Len(all)) \in Seq(Nat)
          /\ Len(SubSeq(all, f + 1, Len(all))) = Len(all) - f
          /\ all = SubSeq(all, 1, f) \o SubSeq(all, f + 1, Len(all))
      BY <1>4, <2>1, Parted, Zenon
    <3> QED BY <3>1
  <2>3. outShown' = outShown \o a /\ outBuf' = b /\ bypassed' = bypassed
    BY <1>1, <1>8, <2>1, <2>2, ZenonT(40)
  <2>4. (outShown \o a) \o b = was \o new
    <3>1. (outShown \o a) \o b = outShown \o (a \o b)
      <4>1. outShown \in Seq(Nat) /\ a \in Seq(Nat) /\ b \in Seq(Nat)
        BY <1>2, <2>2
      <4> QED BY <4>1, Regrouped
    <3>2. (outShown \o outBuf) \o new = outShown \o (outBuf \o new)
      BY <1>2, <1>3, Regrouped
    <3> QED BY <1>1, <1>3, <1>5, <2>2, <3>1, <3>2
  <2>5. outShown \o a \in Seq(Nat)
    BY <1>2, <2>2, Joined
  <2>6. Len(b) <= OutSize
    BY <2>1, <2>2
  <2>7. outShown' \o outBuf' = was \o new
    BY <2>3, <2>4
  <2>8. outSent' = outSent + n /\ outSent + n \in Nat
    BY <1>1, <1>2
  <2>9. IF bypassed THEN AllThere(was, outSent) ELSE Numbered(was, outSent)
    BY <1>5 DEF BufInv
  <2>10. IF bypassed THEN AllThere(was \o new, outSent + n) ELSE Numbered(was \o new, outSent + n)
    BY <1>6, <1>7, <2>9
  <2>11. IF bypassed' THEN AllThere(outShown' \o outBuf', outSent')
                      ELSE Numbered(outShown' \o outBuf', outSent')
    BY <2>3, <2>7, <2>8, <2>10
  <2> QED BY <1>2, <2>2, <2>3, <2>5, <2>6, <2>8, <2>11 DEF BufInv, BufTypeOK
<1>9. CASE ~outOn
  <2>1. SubSeq(all, Len(outBuf) + 1, Len(all)) = new
    <3>1. /\ Len(outBuf) \in Nat
          /\ \A i \in 1 .. n : all[Len(outBuf) + i] = new[i]
      <4>1. /\ Len(outBuf) \in Nat
            /\ \A i \in 1 .. Len(new) : (outBuf \o new)[Len(outBuf) + i] = new[i]
        BY <1>2, <1>3, Joined
      <4>2. all = outBuf \o new /\ Len(new) = n
        BY <1>1, <1>3
      <4> QED BY <4>1, <4>2
    <3>2. Len(outBuf) \in 0 .. Len(all) /\ Len(all) \in Nat
      BY <1>2, <1>4, <3>1
    <3>3. PICK m \in Nat, l \in Nat : m = Len(outBuf) /\ l = Len(all)
      BY <3>1, <3>2
    <3>4. PICK d : d = SubSeq(all, m + 1, l)
      OBVIOUS
    <3>5. \A i \in m + 1 .. l : all[i] \in Nat
      BY <1>4, <3>3
    <3>6. /\ d \in Seq(Nat) /\ Len(d) = (IF m + 1 <= l THEN l - (m + 1) + 1 ELSE 0)
          /\ \A i \in 1 .. l - (m + 1) + 1 : d[i] = all[m + 1 + i - 1]
      BY <3>4, <3>5, SubSeqProperties
    <3>7. l = m + n
      BY <1>4, <3>3
    <3>8. Len(d) = n
      BY <1>2, <3>6, <3>7, SMTT(40)
    <3>9. ASSUME NEW i \in 1 .. n PROVE d[i] = new[i]
      <4>1. i \in 1 .. l - (m + 1) + 1 /\ m + 1 + i - 1 = m + i
        BY <1>2, <3>7
      <4>2. d[i] = all[m + i]
        BY <3>6, <4>1
      <4> QED BY <3>1, <3>3, <4>2
    <3>10. d = new
      BY <1>3, <3>6, <3>8, <3>9, SeqEqual
    <3> QED BY <3>3, <3>4, <3>10
  <2>2. outShown' = outShown \o new /\ outBuf' = outBuf /\ bypassed' = (bypassed \/ outBuf # <<>>)
    BY <1>1, <1>9, <2>1
  <2>3. outSent' = outSent + n /\ outSent + n \in Nat
    BY <1>1, <1>2
  <2>4. PICK now : now = outShown \o new /\ now \in Seq(Nat)
    BY <1>2, <1>3, Joined
  <2>5. IF bypassed THEN AllThere(was, outSent) ELSE Numbered(was, outSent)
    BY <1>5 DEF BufInv
  <2>6. CASE ~bypassed'
    <3>1. outBuf = <<>> /\ ~bypassed
      BY <2>2, <2>6
    <3>2. was = outShown /\ now \o <<>> = now
      BY <1>2, <1>5, <2>4, <3>1
    <3>3. Numbered(now, outSent + n)
      BY <1>6, <2>4, <2>5, <3>1, <3>2
    <3>4. outShown' \o outBuf' = now
      BY <2>2, <2>4, <3>1, <3>2
    <3> QED BY <1>2, <2>2, <2>3, <2>4, <2>6, <3>3, <3>4 DEF BufInv, BufTypeOK
  <2>7. CASE bypassed'
    <3>1. AllThere(was, outSent)
      BY <1>2, <1>5, <2>5, NumberedIsThere
    <3>2. AllThere(was \o new, outSent + n)
      BY <1>7, <3>1
    <3>3. /\ Len(was \o new) = Len(outShown) + Len(outBuf) + n
          /\ ToSet(was \o new) = ToSet(outShown) \cup ToSet(outBuf) \cup ToSet(new)
      <4>1. Len(was) = Len(outShown) + Len(outBuf) /\ ToSet(was) = ToSet(outShown) \cup ToSet(outBuf)
        BY <1>2, <1>5, Joined
      <4>2. Len(was \o new) = Len(was) + Len(new) /\ ToSet(was \o new) = ToSet(was) \cup ToSet(new)
        BY <1>3, <1>5, Joined
      <4> QED BY <1>3, <4>1, <4>2
    <3>4. /\ Len(now \o outBuf) = Len(outShown) + n + Len(outBuf)
          /\ ToSet(now \o outBuf) = ToSet(outShown) \cup ToSet(new) \cup ToSet(outBuf)
      <4>1. Len(now) = Len(outShown) + Len(new) /\ ToSet(now) = ToSet(outShown) \cup ToSet(new)
        BY <1>2, <1>3, <2>4, Joined
      <4>2. Len(now \o outBuf) = Len(now) + Len(outBuf) /\ ToSet(now \o outBuf) = ToSet(now) \cup ToSet(outBuf)
        BY <1>2, <2>4, Joined
      <4> QED BY <1>3, <4>1, <4>2
    <3>5. Len(outShown) \in Nat /\ Len(outBuf) \in Nat
      BY <1>2
    <3>6. Len(now \o outBuf) = Len(was \o new) /\ ToSet(now \o outBuf) = ToSet(was \o new)
      BY <1>2, <3>3, <3>4, <3>5
    <3>7. AllThere(now \o outBuf, outSent + n)
      BY <3>2, <3>6 DEF AllThere
    <3>8. outShown' \o outBuf' = now \o outBuf
      BY <2>2, <2>4
    <3>9. Len(outBuf) <= OutSize
      BY DEF BufInv
    <3> QED BY <1>2, <2>2, <2>3, <2>4, <2>7, <3>7, <3>8, <3>9 DEF BufInv, BufTypeOK
  <2> QED BY <2>6, <2>7
<1> QED BY <1>8, <1>9

LEMMA BufNext ==
  ASSUME BufInv, [OutNext]_outVars
  PROVE  BufInv'
<1>1. CASE FlushOuts
  <2>1. /\ outShown' = outShown \o outBuf /\ outBuf' = <<>>
        /\ UNCHANGED <<outSent, bypassed>>
    BY <1>1 DEF FlushOuts
  <2>2. outShown \in Seq(Nat) /\ outBuf \in Seq(Nat)
    BY DEF BufInv, BufTypeOK
  <2>3. outShown \o outBuf \in Seq(Nat)
    BY <2>2, Joined
  <2>4. outShown' \o outBuf' = outShown \o outBuf
    BY <2>1, <2>3
  <2>5. Len(outBuf') <= OutSize
    BY <2>1, BufAssumption DEF BufAssumption
  <2> QED BY <2>1, <2>2, <2>3, <2>4, <2>5 DEF BufInv, BufTypeOK
<1>2. CASE FlushAsks \/ BufEnabled \/ UNCHANGED outVars
  <2>1. UNCHANGED <<outBuf, outShown, outSent, bypassed>>
    BY <1>2 DEF FlushAsks, BufEnabled, outVars
  <2> QED BY <2>1 DEF BufInv, BufTypeOK
<1> QED BY <1>1, <1>2, BufByOutput DEF OutNext

\* The buffer keeps every byte of every log, and their order unless it is
\* disabled with bytes in it, whatever the sizes of the logs and of the buffer.
THEOREM BufferKeepsOrder == OutSpec => []BufKeepsOrder
<1>1. BufInv => BufKeepsOrder
  BY BufInvIs
<1> QED BY <1>1, BufInit, BufNext, PTL DEF OutSpec
-----------------------------------------------------------------------------
(* What is where: f in the file, h in the hands, c in the cache, of the     *)
(* lines e that were entered without the dropped d.                         *)

Hands == [LogThread -> Seq(Line)]

Separate(f, h, c) ==
  /\ Once(f) /\ Once(c) /\ Apart(f, c)
  /\ \A t \in LogThread : Once(h[t]) /\ Apart(f, h[t]) /\ Apart(h[t], c)
  /\ \A t, u \in LogThread : t # u => Apart(h[t], h[u])

HeldBy(f, h, c) == ToSet(f) \cup ToSet(c) \cup UNION {ToSet(h[t]) : t \in LogThread}

Sound(f, h, c, e, d) ==
  /\ f \in Seq(Line) /\ h \in Hands /\ c \in Seq(Line) /\ e \in Seq(Line)
  /\ d \subseteq ToSet(e)
  /\ Separate(f, h, c)
  /\ HeldBy(f, h, c) = ToSet(e) \ d

Straight(f, h, c, e, d) == f \o (h \o c) = Only(e, Line \ d)

LEMMA SoundStart ==
  ASSUME NEW h, h = [t \in LogThread |-> <<>>]
  PROVE  Sound(<<>>, h, <<>>, <<>>, {}) /\ \A t \in LogThread : Straight(<<>>, h[t], <<>>, <<>>, {})
<1>1. /\ \A t \in LogThread : h[t] = <<>> /\ ToSet(h[t]) = {} /\ Once(h[t])
      /\ <<>> \in Seq(Line) /\ h \in Hands /\ ToSet(<<>>) = {} /\ Once(<<>>)
  BY HeldEmpty DEF Hands
<1>2. Separate(<<>>, h, <<>>)
  BY <1>1, Zenon DEF Separate, Apart
<1>3. HeldBy(<<>>, h, <<>>) = {}
  BY <1>1 DEF HeldBy
<1>4. <<>> \o <<>> = <<>>
  BY ConcatEmptySeq
<1>5. Only(<<>>, Line \ {}) = <<>>
  BY OnlyEmpty
<1> QED BY <1>1, <1>2, <1>3, <1>4, <1>5 DEF Sound, Straight

\* A printer has its line in its hand when it enters.
LEMMA SoundEnter ==
  ASSUME NEW f, NEW h, NEW c, NEW e, NEW d, Sound(f, h, c, e, d),
         NEW t \in LogThread, h[t] = <<>>, NEW x \in Line, x \notin ToSet(e),
         NEW hh \in Hands, hh[t] = <<x>>, \A u \in LogThread : u # t => hh[u] = h[u]
  PROVE  Sound(f, hh, c, e \o <<x>>, d)
<1>1. /\ f \in Seq(Line) /\ h \in Hands /\ c \in Seq(Line) /\ e \in Seq(Line)
      /\ d \subseteq ToSet(e) /\ Separate(f, h, c) /\ HeldBy(f, h, c) = ToSet(e) \ d
  BY DEF Sound
<1>2. e \o <<x>> \in Seq(Line) /\ ToSet(e \o <<x>>) = ToSet(e) \cup {x}
  BY <1>1, HeldAppend
<1>3. x \notin ToSet(f) /\ x \notin ToSet(c) /\ \A u \in LogThread : x \notin ToSet(h[u])
  BY <1>1 DEF HeldBy
<1>4. ToSet(hh[t]) = {x} /\ Once(hh[t]) /\ ToSet(h[t]) = {}
  BY HeldOne, HeldEmpty
<1>5. Separate(f, hh, c)
  <2>1. \A u \in LogThread : u = t \/ hh[u] = h[u]
    OBVIOUS
  <2>2. \A u \in LogThread : Once(hh[u])
    BY <1>1, <1>4, <2>1, Zenon DEF Separate
  <2>3. ASSUME NEW u \in LogThread PROVE Apart(f, hh[u]) /\ Apart(hh[u], c)
    <3>1. Apart(f, h[u]) /\ Apart(h[u], c)
      BY <1>1 DEF Separate
    <3>2. ToSet(hh[u]) = {x} \/ hh[u] = h[u]
      BY <1>4, <2>1
    <3> QED BY <1>3, <3>1, <3>2 DEF Apart
  <2>4. ASSUME NEW u \in LogThread, NEW v \in LogThread, u # v PROVE Apart(hh[u], hh[v])
    <3>1. Apart(h[u], h[v])
      BY <1>1, <2>4 DEF Separate
    <3>2. \/ hh[u] = h[u] /\ hh[v] = h[v]
          \/ ToSet(hh[u]) = {x} /\ hh[v] = h[v]
          \/ hh[u] = h[u] /\ ToSet(hh[v]) = {x}
      BY <1>4, <2>1, <2>4
    <3> QED BY <1>3, <3>1, <3>2 DEF Apart
  <2> QED BY <1>1, <2>2, <2>3, <2>4 DEF Separate
<1>6. HeldBy(f, hh, c) = HeldBy(f, h, c) \cup {x}
  BY <1>4 DEF HeldBy
<1> QED BY <1>1, <1>2, <1>5, <1>6 DEF Sound

LEMMA SoundInsert ==
  ASSUME NEW f, NEW h, NEW c, NEW e, NEW d, Sound(f, h, c, e, d),
         NEW x \in Line, x \notin ToSet(e)
  PROVE  Sound(f, h, c \o <<x>>, e \o <<x>>, d)
<1>1. /\ f \in Seq(Line) /\ h \in Hands /\ c \in Seq(Line) /\ e \in Seq(Line)
      /\ d \subseteq ToSet(e) /\ Separate(f, h, c) /\ HeldBy(f, h, c) = ToSet(e) \ d
  BY DEF Sound
<1>2. e \o <<x>> \in Seq(Line) /\ ToSet(e \o <<x>>) = ToSet(e) \cup {x}
  BY <1>1, HeldAppend
<1>3. x \notin ToSet(f) /\ x \notin ToSet(c) /\ \A u \in LogThread : x \notin ToSet(h[u])
  BY <1>1 DEF HeldBy
<1>4. /\ c \o <<x>> \in Seq(Line) /\ ToSet(c \o <<x>>) = ToSet(c) \cup {x}
      /\ Once(c) => Once(c \o <<x>>)
  BY <1>1, <1>3, HeldAppend
<1>5. Separate(f, h, c \o <<x>>)
  BY <1>1, <1>3, <1>4 DEF Separate, Apart
<1>6. HeldBy(f, h, c \o <<x>>) = HeldBy(f, h, c) \cup {x}
  BY <1>4 DEF HeldBy
<1> QED BY <1>1, <1>2, <1>4, <1>5, <1>6 DEF Sound

\* The flusher takes the cache.
LEMMA SoundFlush ==
  ASSUME NEW f, NEW h, NEW c, NEW e, NEW d, Sound(f, h, c, e, d),
         NEW t \in LogThread, h[t] = <<>>,
         NEW hh \in Hands, hh[t] = c, \A u \in LogThread : u # t => hh[u] = h[u]
  PROVE  Sound(f, hh, <<>>, e, d)
<1>1. /\ f \in Seq(Line) /\ h \in Hands /\ c \in Seq(Line) /\ e \in Seq(Line)
      /\ d \subseteq ToSet(e) /\ Separate(f, h, c) /\ HeldBy(f, h, c) = ToSet(e) \ d
  BY DEF Sound
<1>2. ToSet(<<>>) = {} /\ Once(<<>>) /\ <<>> \in Seq(Line) /\ ToSet(h[t]) = {}
  BY HeldEmpty
<1>3. PICK n : n = <<>>
  OBVIOUS
<1>4. Separate(f, hh, n)
  BY <1>1, <1>2, <1>3 DEF Separate, Apart
<1>5. HeldBy(f, hh, n) = HeldBy(f, h, c)
  BY <1>2, <1>3 DEF HeldBy
<1> QED BY <1>1, <1>2, <1>3, <1>4, <1>5 DEF Sound

\* The cache is cleared.
LEMMA SoundClear ==
  ASSUME NEW f, NEW h, NEW c, NEW e, NEW d, Sound(f, h, c, e, d)
  PROVE  Sound(f, h, <<>>, e, d \cup ToSet(c))
<1>1. /\ f \in Seq(Line) /\ h \in Hands /\ c \in Seq(Line) /\ e \in Seq(Line)
      /\ d \subseteq ToSet(e) /\ Separate(f, h, c) /\ HeldBy(f, h, c) = ToSet(e) \ d
  BY DEF Sound
<1>2. ToSet(<<>>) = {} /\ Once(<<>>) /\ <<>> \in Seq(Line)
  BY HeldEmpty
<1>3. PICK n : n = <<>>
  OBVIOUS
<1>4. Separate(f, h, n)
  BY <1>1, <1>2, <1>3 DEF Separate, Apart
<1>5. HeldBy(f, h, n) = HeldBy(f, h, c) \ ToSet(c)
  BY <1>1, <1>2, <1>3 DEF HeldBy, Separate, Apart
<1>6. ToSet(c) \subseteq ToSet(e)
  BY <1>1 DEF HeldBy
<1> QED BY <1>1, <1>2, <1>3, <1>4, <1>5, <1>6 DEF Sound

\* The first line in hand is given up,
LEMMA SoundGiveUp ==
  ASSUME NEW f, NEW h, NEW c, NEW e, NEW d, Sound(f, h, c, e, d),
         NEW t \in LogThread, h[t] # <<>>,
         NEW hh \in Hands, hh[t] = Tail(h[t]), \A u \in LogThread : u # t => hh[u] = h[u]
  PROVE  Sound(f, hh, c, e, d \cup {Head(h[t])})
<1>1. /\ f \in Seq(Line) /\ h \in Hands /\ c \in Seq(Line) /\ e \in Seq(Line)
      /\ d \subseteq ToSet(e) /\ Separate(f, h, c) /\ HeldBy(f, h, c) = ToSet(e) \ d
  BY DEF Sound
<1>2. PICK x : x = Head(h[t])
  OBVIOUS
<1>3. h[t] \in Seq(Line) /\ Once(h[t])
  BY <1>1 DEF Hands, Separate
<1>4. /\ ToSet(h[t]) = {x} \cup ToSet(hh[t]) /\ Once(hh[t]) /\ x \notin ToSet(hh[t]) /\ x \in Line
  BY <1>2, <1>3, HeldTail
<1>5. x \notin ToSet(f) /\ x \notin ToSet(c) /\ \A u \in LogThread : u # t => x \notin ToSet(h[u])
  BY <1>1, <1>4 DEF Separate, Apart
<1>6. Separate(f, hh, c)
  BY <1>1, <1>4 DEF Separate, Apart
<1>7. HeldBy(f, hh, c) = HeldBy(f, h, c) \ {x}
  BY <1>4, <1>5 DEF HeldBy
<1>8. x \in ToSet(e)
  BY <1>1, <1>4 DEF HeldBy
<1> QED BY <1>1, <1>2, <1>6, <1>7, <1>8 DEF Sound

\* or written.
LEMMA SoundWrite ==
  ASSUME NEW f, NEW h, NEW c, NEW e, NEW d, Sound(f, h, c, e, d),
         NEW t \in LogThread, h[t] # <<>>,
         NEW hh \in Hands, hh[t] = Tail(h[t]), \A u \in LogThread : u # t => hh[u] = h[u]
  PROVE  Sound(f \o <<Head(h[t])>>, hh, c, e, d)
<1>1. /\ f \in Seq(Line) /\ h \in Hands /\ c \in Seq(Line) /\ e \in Seq(Line)
      /\ d \subseteq ToSet(e) /\ Separate(f, h, c) /\ HeldBy(f, h, c) = ToSet(e) \ d
  BY DEF Sound
<1>2. PICK x : x = Head(h[t])
  OBVIOUS
<1>3. h[t] \in Seq(Line) /\ Once(h[t])
  BY <1>1 DEF Hands, Separate
<1>4. /\ ToSet(h[t]) = {x} \cup ToSet(hh[t]) /\ Once(hh[t]) /\ x \notin ToSet(hh[t]) /\ x \in Line
  BY <1>2, <1>3, HeldTail
<1>5. x \notin ToSet(f) /\ x \notin ToSet(c) /\ \A u \in LogThread : u # t => x \notin ToSet(h[u])
  BY <1>1, <1>4 DEF Separate, Apart
<1>6. PICK g : g = f \o <<x>>
  OBVIOUS
<1>7. g \in Seq(Line) /\ ToSet(g) = ToSet(f) \cup {x} /\ (Once(f) => Once(g))
  BY <1>1, <1>4, <1>5, <1>6, HeldAppend
<1>8. Separate(g, hh, c)
  <2>1. \A u \in LogThread : u = t \/ hh[u] = h[u]
    OBVIOUS
  <2>2. Once(g) /\ Apart(g, c) /\ \A u \in LogThread : Once(hh[u])
    BY <1>1, <1>4, <1>5, <1>7, <2>1 DEF Separate, Apart
  <2>3. \A u \in LogThread : Apart(g, hh[u]) /\ Apart(hh[u], c)
    BY <1>1, <1>4, <1>5, <1>7, <2>1 DEF Separate, Apart
  <2>4. \A u, v \in LogThread : u # v => Apart(hh[u], hh[v])
    BY <1>1, <1>4, <2>1 DEF Separate, Apart
  <2> QED BY <1>1, <2>2, <2>3, <2>4 DEF Separate
<1>9. HeldBy(g, hh, c) = HeldBy(f, h, c)
  BY <1>4, <1>7 DEF HeldBy
<1> QED BY <1>1, <1>2, <1>6, <1>7, <1>8, <1>9 DEF Sound

LEMMA StraightEnter ==
  ASSUME NEW f \in Seq(Line), NEW e \in Seq(Line), NEW d, NEW x \in Line, x \notin d,
         NEW w, NEW c, w = <<>>, c = <<>>, Straight(f, w, c, e, d)
  PROVE  Straight(f, <<x>>, c, e \o <<x>>, d)
<1>1. <<>> \o <<>> = <<>> /\ f \o <<>> = f /\ <<x>> \o <<>> = <<x>>
  BY ConcatEmptySeq
<1>2. f = Only(e, Line \ d)
  BY ONLY <1>1, w = <<>>, c = <<>>, Straight(f, w, c, e, d) DEF Straight
<1>3. Append(e, x) = e \o <<x>> /\ Append(f, x) = f \o <<x>>
  BY HeldAppend
<1>4. Only(Append(e, x), Line \ d) = Append(Only(e, Line \ d), x)
  <2>1. x \in Line \ d
    OBVIOUS
  <2> QED BY <2>1, OnlyAppend
<1> QED BY ONLY <1>1, <1>2, <1>3, <1>4, c = <<>> DEF Straight

LEMMA StraightInsert ==
  ASSUME NEW f \in Seq(Line), NEW w \in Seq(Line), NEW c \in Seq(Line),
         NEW e \in Seq(Line), NEW d, NEW x \in Line, x \notin d,
         Straight(f, w, c, e, d)
  PROVE  Straight(f, w, c \o <<x>>, e \o <<x>>, d)
<1>1. /\ <<x>> \in Seq(Line) /\ w \o c \in Seq(Line)
      /\ Append(e, x) = e \o <<x>>
  BY HeldAppend, HeldBoth
<1>2. Groups(w, c, <<x>>)
  BY <1>1, HeldAssoc
<1>3. PICK r \in Seq(Line) : r = w \o c
  BY <1>1
<1>4. Groups(f, r, <<x>>)
  BY <1>1, HeldAssoc
<1>5. f \o r \in Seq(Line) /\ Append(f \o r, x) = (f \o r) \o <<x>>
  BY HeldBoth, HeldAppend
<1>6. f \o r = Only(e, Line \ d)
  BY <1>3 DEF Straight
<1>7. Only(Append(e, x), Line \ d) = Append(Only(e, Line \ d), x)
  <2>1. x \in Line \ d
    OBVIOUS
  <2> QED BY <2>1, OnlyAppend
<1> QED BY ONLY <1>1, <1>2, <1>3, <1>4, <1>5, <1>6, <1>7 DEF Straight, Groups

LEMMA StraightFlush ==
  ASSUME NEW f, NEW w, NEW c \in Seq(Line), NEW e, NEW d, w = <<>>, Straight(f, w, c, e, d)
  PROVE  Straight(f, c, <<>>, e, d)
<1>1. <<>> \o c = c /\ c \o <<>> = c
  BY ConcatEmptySeq
<1> QED BY ONLY <1>1, w = <<>>, Straight(f, w, c, e, d) DEF Straight

LeftBut(a, c, e, d, b) == a \o c = Only(e, Line \ (d \cup ToSet(b)))

LEMMA StraightDrops ==
  ASSUME NEW a \in Seq(Line), NEW b \in Seq(Line), NEW c \in Seq(Line), NEW e \in Seq(Line), NEW d,
         Straight(a, b, c, e, d), Apart(a, b), Apart(c, b)
  PROVE  LeftBut(a, c, e, d, b)
<1>0. PICK D : D = ToSet(b)
  OBVIOUS
<1>1. Only(Three(a, b, c), Line \ D) = Both(a, c)
  <2>1. OnlyBut(Three(a, b, c), Line, b) = Both(a, c)
    BY OnlyDrops, Zenon
  <2> QED BY ONLY <1>0, <2>1 DEF OnlyBut
<1>2. Only(Only(e, Line \ d), Line \ D) = Only(e, (Line \ d) \cap (Line \ D))
  BY OnlyOnly
<1>3. (Line \ d) \cap (Line \ D) = Line \ (d \cup D)
  OBVIOUS
<1> QED BY ONLY <1>0, <1>1, <1>2, <1>3, Straight(a, b, c, e, d) DEF Straight, Three, Both, LeftBut

LEMMA StraightClear ==
  ASSUME NEW f \in Seq(Line), NEW w \in Seq(Line), NEW c \in Seq(Line), NEW e \in Seq(Line), NEW d,
         Apart(f, c), Apart(w, c), Straight(f, w, c, e, d)
  PROVE  Straight(f, w, <<>>, e, d \cup ToSet(c))
<1>1. PICK a : a = f \o w
  OBVIOUS
<1>2. a \in Seq(Line) /\ ToSet(a) = ToSet(f) \cup ToSet(w)
  BY <1>1, HeldBoth
<1>3. PICK n : n = <<>>
  OBVIOUS
<1>4. n \in Seq(Line) /\ ToSet(n) = {}
  BY <1>3, HeldEmpty
<1>5. c \o n = c /\ a \o n = a /\ w \o n = w
  BY <1>2, <1>3, ConcatEmptySeq
<1>6. Groups(f, w, c)
  BY HeldAssoc
<1>7. Straight(a, c, n, e, d)
  BY ONLY <1>1, <1>5, <1>6, Straight(f, w, c, e, d) DEF Straight, Groups
<1>8. Apart(a, c) /\ Apart(n, c)
  BY <1>2, <1>4 DEF Apart
<1>9. LeftBut(a, n, e, d, c)
  <2>1. /\ a \in Seq(Line) /\ c \in Seq(Line) /\ n \in Seq(Line) /\ e \in Seq(Line)
        /\ Straight(a, c, n, e, d) /\ Apart(a, c) /\ Apart(n, c)
    BY <1>2, <1>4, <1>7, <1>8
  <2> QED BY ONLY <2>1, StraightDrops, Zenon
<1> QED BY ONLY <1>1, <1>3, <1>5, <1>9 DEF Straight, LeftBut

LEMMA StraightGiveUp ==
  ASSUME NEW f \in Seq(Line), NEW w \in Seq(Line), w # <<>>, NEW c \in Seq(Line), NEW e \in Seq(Line),
         NEW d, Once(w), Apart(f, w), Apart(w, c), Straight(f, w, c, e, d)
  PROVE  Straight(f, Tail(w), c, e, d \cup {Head(w)})
<1>1. PICK x, v : x = Head(w) /\ v = Tail(w)
  OBVIOUS
<1>2. /\ v \in Seq(Line) /\ x \in Line /\ w = <<x>> \o v
      /\ ToSet(w) = {x} \cup ToSet(v) /\ x \notin ToSet(v)
  BY <1>1, HeldTail
<1>3. PICK b : b = <<x>>
  OBVIOUS
<1>4. b \in Seq(Line) /\ ToSet(b) = {x}
  BY <1>2, <1>3, HeldOne
<1>5. PICK r : r = v \o c
  OBVIOUS
<1>6. r \in Seq(Line) /\ ToSet(r) = ToSet(v) \cup ToSet(c)
  BY <1>2, <1>5, HeldBoth
<1>7. Groups(b, v, c)
  BY <1>2, <1>4, HeldAssoc
<1>8. Straight(f, b, r, e, d)
  BY ONLY <1>2, <1>3, <1>5, <1>7, Straight(f, w, c, e, d) DEF Straight, Groups
<1>9. Apart(f, b) /\ Apart(r, b)
  BY <1>2, <1>4, <1>6 DEF Apart
<1>10. LeftBut(f, r, e, d, b)
  <2>1. /\ f \in Seq(Line) /\ b \in Seq(Line) /\ r \in Seq(Line) /\ e \in Seq(Line)
        /\ Straight(f, b, r, e, d) /\ Apart(f, b) /\ Apart(r, b)
    BY <1>4, <1>6, <1>8, <1>9
  <2> QED BY ONLY <2>1, StraightDrops, Zenon
<1>11. d \cup ToSet(b) = d \cup {x}
  BY <1>4
<1> QED BY ONLY <1>1, <1>5, <1>10, <1>11 DEF Straight, LeftBut

LEMMA StraightWrite ==
  ASSUME NEW f \in Seq(Line), NEW w \in Seq(Line), w # <<>>, NEW c \in Seq(Line), NEW e, NEW d,
         Straight(f, w, c, e, d)
  PROVE  Straight(f \o <<Head(w)>>, Tail(w), c, e, d)
<1>1. PICK x, v : x = Head(w) /\ v = Tail(w)
  OBVIOUS
<1>2. v \in Seq(Line) /\ x \in Line /\ w = <<x>> \o v
  BY <1>1, HeldTail
<1>3. PICK b \in Seq(Line) : b = <<x>>
  <2>1. <<x>> \in Seq(Line)
    BY <1>2
  <2> QED BY <2>1, Zenon
<1>4. PICK r \in Seq(Line) : r = v \o c
  BY <1>2, HeldBoth
<1>5. Groups(b, v, c)
  BY <1>2, HeldAssoc
<1>6. Groups(f, b, r)
  BY HeldAssoc
<1> QED BY ONLY <1>1, <1>2, <1>3, <1>4, <1>5, <1>6, Straight(f, w, c, e, d) DEF Straight, Groups

-----------------------------------------------------------------------------
(* The invariant. *)

Opening == {"rotate", "load", "count", "open", "undo", "uncount"}

LogWriting == {"check", "close", "set", "write", "io"} \cup Opening

LogTyped ==
  /\ seq \in Segments /\ DOMAIN files = Segments /\ opened \in Seq(Segments)
  /\ logPc \in [LogThread -> {"idle", "insert", "enter"} \cup LogWriting]
  /\ path \in [LogThread -> Segments] /\ num \in [LogThread -> Segments]
  /\ hand \in Hands /\ DOMAIN got = LogThread
  /\ printed \in [Printers -> Nat] /\ entered \in Seq(Line) /\ cache \in Seq(Line)
  /\ \A t \in LogThread : logPc[t] \in LogWriting \ {"check"} => hand[t] # <<>>

\* The line t is about to enter has the last number, and was not entered before.
LogFresh ==
  /\ \A l \in ToSet(entered) : l[2] < printed[l[1]]
  /\ \A t \in Printers : logPc[t] \in {"insert", "enter"} =>
       \E n \in Nat : /\ hand[t] = <<<<t, n>>>> /\ printed[t] = n + 1
                      /\ <<t, n>> \notin ToSet(entered)

\* Who may write when the log is used one way only.
LogModes ==
  /\ usage \in {"sync", "async", "mixed"}
  /\ usage # "mixed" => async = (usage = "async")
  /\ usage = "sync" => /\ cache = <<>> /\ logPc[Flusher] = "idle"
                       /\ \A t \in Printers : /\ logPc[t] # "insert"
                                              /\ logPc[t] \in LogWriting => lock = t
  /\ usage = "async" => \A t \in Printers : logPc[t] \in {"idle", "insert"}

\* No file was opened yet; or one, which has the descriptor 1.
NoFile ==
  /\ DOMAIN fds = {} /\ fd = NoFd
  /\ \A t \in LogThread : logPc[t] \notin {"close", "set", "write", "io"}

OneFile ==
  /\ DOMAIN fds = {1} /\ fds[1] = opened[1]
  /\ \/ /\ fd = 1
        /\ \A t \in LogThread : /\ logPc[t] \notin {"close", "set"}
                                /\ logPc[t] = "io" => got[t] = 1
     \/ /\ fd = NoFd
        /\ \E t \in LogThread :
             /\ logPc[t] \in {"close", "set"} /\ got[t] = 1
             /\ \A u \in LogThread \ {t} : logPc[u] \notin {"close", "set", "write", "io"}

NeverOpened(s) == opened = <<>> \/ s # opened[1]

LogOneFile ==
  /\ DOMAIN fds \subseteq {1}
  /\ \A s \in Segments : NeverOpened(s) => files[s] = <<>>
  /\ alive => IF opened = <<>> THEN NoFile ELSE OneFile

\* Used one way only, one thread at a time raises the number of the segment,
\* and has lowered it again before the next one looks.
Raised == IF 0 + 1 = SegWord THEN 0 ELSE 0 + 1

FirstSegment(t) ==
  /\ logPc[t] \in {"load", "count", "open"} => path[t] = 0
  /\ logPc[t] = "count" => num[t] = 0
  /\ logPc[t] \in {"open", "undo", "uncount"} => seq = Raised
  /\ logPc[t] = "uncount" => num[t] = Raised

LogFirst ==
  usage # "mixed" =>
    /\ opened \in {<<>>, <<0>>}
    /\ \A t \in LogThread : logPc[t] \in Opening => fd = NoFd
    /\ opened = <<>> =>
         /\ \A t \in LogThread : FirstSegment(t)
         /\ (\A t \in LogThread : logPc[t] \notin {"open", "undo", "uncount"}) => seq = 0

\* What is in the only file.
Filed == IF opened = <<>> THEN <<>> ELSE files[opened[1]]

AllHands == [t \in LogThread |-> InHand(t)]

OthersEmpty(t) == \A u \in LogThread \ {t} : InHand(u) = <<>>

LogContents ==
  /\ Sound(Filed, AllHands, cache, entered, dropped)
  /\ usage # "mixed" => \E t \in LogThread : OthersEmpty(t) /\ Straight(Filed, InHand(t), cache, entered, dropped)

LogInv ==
  /\ LogTyped /\ LogFresh /\ LogModes
  /\ LogFirst
  /\ Len(opened) <= 1 => LogOneFile /\ LogContents

LEMMA LogInitInv == ASSUME LogAssumption, LogInit PROVE LogInv
<1>1. /\ usage \in {"sync", "async", "mixed"} /\ async = (usage = "async")
      /\ cache = <<>> /\ fd = NoFd /\ seq = 0 /\ fds = <<>> /\ opened = <<>> /\ entered = <<>> /\ dropped = {}
      /\ \A t \in LogThread : logPc[t] = "idle" /\ hand[t] = <<>> /\ InHand(t) = <<>>
  BY DEF LogInit, InHand
<1>2. 0 \in Segments /\ files = [s \in Segments |-> <<>>]
  BY DEF LogInit, LogAssumption, Segments
<1>3. ToSet(<<>>) = {} /\ \A T : <<>> \in Seq(T)
  BY HeldEmpty
<1>4. LogTyped
  <2>1. /\ logPc \in [LogThread -> {"idle", "insert", "enter"} \cup LogWriting] /\ hand \in Hands
        /\ path \in [LogThread -> Segments] /\ num \in [LogThread -> Segments]
        /\ DOMAIN got = LogThread /\ printed \in [Printers -> Nat]
    BY <1>2, <1>3 DEF LogInit, Hands
  <2>2. \A t \in LogThread : logPc[t] \notin LogWriting
    BY <1>1 DEF LogWriting, Opening
  <2> QED BY <1>1, <1>2, <1>3, <2>1, <2>2 DEF LogTyped
<1>5. LogFresh /\ LogModes
  BY <1>1, <1>3 DEF LogFresh, LogModes, LogThread, LogWriting, Opening
<1>6. LogOneFile /\ LogFirst
  <2>1. LogOneFile
    BY <1>1, <1>2 DEF LogOneFile, NoFile
  <2>2. LogFirst
    BY <1>1 DEF LogFirst, FirstSegment, Opening
  <2> QED BY <2>1, <2>2
<1>7. LogContents
  <2>1. AllHands = [t \in LogThread |-> <<>>]
    BY <1>1 DEF AllHands
  <2>2. /\ Sound(<<>>, AllHands, <<>>, <<>>, {})
        /\ \A t \in LogThread : Straight(<<>>, AllHands[t], <<>>, <<>>, {})
    BY <2>1, SoundStart
  <2>3. Flusher \in LogThread /\ AllHands[Flusher] = InHand(Flusher)
    BY DEF LogThread, AllHands
  <2> QED BY <1>1, <2>2, <2>3 DEF LogContents, OthersEmpty, Filed
<1> QED BY <1>1, <1>4, <1>5, <1>6, <1>7 DEF LogInv

-----------------------------------------------------------------------------
(* Types, and who writes. *)

LEMMA SegmentNext ==
  ASSUME LogAssumption, NEW n \in Segments
  PROVE  /\ (IF n + 1 = SegWord THEN 0 ELSE n + 1) \in Segments
         /\ (IF n = 0 THEN SegWord - 1 ELSE n - 1) \in Segments
         /\ 0 \in Segments
  BY DEF LogAssumption, Segments

LEMMA LogTypedStep == ASSUME LogAssumption, LogTyped, [LogNext]_logVars PROVE LogTyped'
<1>0. \A T : <<>> \in Seq(T)
  BY EmptySeq
<1>a. ASSUME NEW t \in LogThread, hand[t] # <<>>
      PROVE  hand' = [hand EXCEPT ![t] = Tail(@)] => hand' \in Hands
  <2>1. Tail(hand[t]) \in Seq(Line)
    BY <1>a DEF LogTyped, Hands
  <2> QED BY <2>1 DEF LogTyped, Hands
<1>1. CASE UNCHANGED logVars
  BY <1>1 DEF LogTyped, logVars
<1>2. ASSUME NEW t \in Printers, LogPrint(t) PROVE LogTyped'
  <2>1. t \in LogThread /\ <<t, printed[t]>> \in Line
    BY DEF LogTyped, Line, LogThread
  <2> QED BY <1>2, <2>1 DEF LogTyped, LogPrint, Hands, LogWriting, Opening, fileVars
<1>3. ASSUME NEW t \in Printers, LogInsert(t) PROVE LogTyped'
  <2>1. t \in LogThread /\ hand[t] \in Seq(Line)
    BY DEF LogTyped, LogThread, Hands
  <2>2. entered' \in Seq(Line) /\ cache' \in Seq(Line)
    BY <1>3, <2>1 DEF LogTyped, LogInsert
  <2>3. hand' \in Hands
    BY <1>0, <1>3, <2>1 DEF LogTyped, LogInsert, Hands
  <2> QED BY <1>3, <2>1, <2>2, <2>3 DEF LogTyped, LogInsert, LogWriting, Opening, fileVars, Hands
<1>4. ASSUME NEW t \in Printers, LogEnter(t) PROVE LogTyped'
  <2>1. t \in LogThread /\ hand[t] \in Seq(Line)
    BY DEF LogTyped, LogThread, Hands
  <2>2. entered' \in Seq(Line)
    BY <1>4, <2>1 DEF LogTyped, LogEnter
  <2> QED BY <1>4, <2>1, <2>2 DEF LogTyped, LogEnter, LogWriting, Opening, fileVars
<1>5. CASE LogFlush
  <2>1. Flusher \in LogThread /\ cache \in Seq(Line)
    BY DEF LogThread, LogTyped
  <2>2. hand' \in Hands /\ \A u \in LogThread : u # Flusher => hand'[u] = hand[u]
    BY <1>5, <2>1 DEF LogTyped, LogFlush, Hands
  <2>3. /\ logPc' \in [LogThread -> {"idle", "insert", "enter"} \cup LogWriting]
        /\ logPc'[Flusher] = "check" /\ \A u \in LogThread : u # Flusher => logPc'[u] = logPc[u]
    BY <1>5, <2>1 DEF LogTyped, LogFlush, LogWriting, Opening
  <2> QED BY <1>0, <1>5, <2>1, <2>2, <2>3 DEF LogTyped, LogFlush, fileVars
<1>6. CASE LogClear \/ LogToggle \/ LogDestroy
  BY <1>0, <1>6 DEF LogTyped, LogClear, LogToggle, LogDestroy, fileVars
<1>7. ASSUME NEW t \in LogThread, LogDone(t) \/ LogCheck(t) \/ LogClose(t) \/ LogSet(t) \/ LogLoadFd(t)
      PROVE  LogTyped'
  <2>1. /\ UNCHANGED <<seq, files, opened, hand, path, num, printed, entered, cache>>
        /\ DOMAIN got' = LogThread
    BY <1>7 DEF LogTyped, LogDone, LogCheck, LogClose, LogSet, LogLoadFd, Io, fileVars
  <2>2. /\ logPc' \in [LogThread -> {"idle", "insert", "enter"} \cup LogWriting]
        /\ \A u \in LogThread : logPc'[u] \in LogWriting \ {"check"} => hand[u] # <<>>
    BY <1>7 DEF LogTyped, LogDone, LogCheck, LogClose, LogSet, LogLoadFd, Io, LogWriting, Opening
  <2> QED BY <2>1, <2>2 DEF LogTyped
<1>8. ASSUME NEW t \in LogThread,
             \/ LogRotate(t) \/ LogLoadSeq(t) \/ LogRaise(t) \/ LogOpen(t) \/ LogLower(t) \/ LogIo(t)
      PROVE  LogTyped'
  <2>1. hand[t] # <<>> /\ UNCHANGED <<printed, entered, cache>>
    BY <1>8 DEF LogTyped, LogRotate, LogLoadSeq, LogRaise, LogOpen, LogLower, LogIo, Io, LogWriting, Opening
  <2>2. DOMAIN got' = LogThread /\ DOMAIN files' = DOMAIN files
    BY <1>8 DEF LogTyped, LogRotate, LogLoadSeq, LogRaise, LogOpen, LogLower, LogIo
  <2>3. /\ hand' \in Hands /\ \A u \in LogThread \ {t} : hand'[u] = hand[u]
        /\ UNCHANGED hand \/ logPc' = [logPc EXCEPT ![t] = "check"]
    <3>1. \/ UNCHANGED hand
          \/ hand' = [hand EXCEPT ![t] = Tail(@)] /\ logPc' = [logPc EXCEPT ![t] = "check"]
      BY <1>8 DEF LogRotate, LogLoadSeq, LogRaise, LogOpen, LogLower, LogIo, Io, GiveUp
    <3> QED BY <1>a, <2>1, <3>1 DEF LogTyped, Hands
  <2>4. \E p \in LogWriting : logPc' = [logPc EXCEPT ![t] = p]
    BY <1>8 DEF LogRotate, LogLoadSeq, LogRaise, LogOpen, LogLower, LogIo, Io, LogWriting, Opening
  <2>5. /\ logPc' \in [LogThread -> {"idle", "insert", "enter"} \cup LogWriting]
        /\ \A u \in LogThread : logPc'[u] \in LogWriting \ {"check"} => hand'[u] # <<>>
    BY <2>1, <2>3, <2>4 DEF LogTyped
  <2>6. seq \in Segments /\ path[t] \in Segments /\ num[t] \in Segments /\ opened \in Seq(Segments)
    BY DEF LogTyped
  <2>7. seq' \in Segments
    BY <1>8, <2>6, SegmentNext DEF LogRotate, LogLoadSeq, LogRaise, LogOpen, LogLower, LogIo
  <2>8. path' \in [LogThread -> Segments] /\ num' \in [LogThread -> Segments]
    <3>1. \/ UNCHANGED path \/ path' = [path EXCEPT ![t] = seq] \/ path' = [path EXCEPT ![t] = 0]
      BY <1>8 DEF LogRotate, LogLoadSeq, LogRaise, LogOpen, LogLower, LogIo
    <3>2. \/ UNCHANGED num \/ num' = [num EXCEPT ![t] = seq] \/ num' = [num EXCEPT ![t] = 0]
      BY <1>8 DEF LogRotate, LogLoadSeq, LogRaise, LogOpen, LogLower, LogIo
    <3>3. 0 \in Segments
      BY <2>6, SegmentNext
    <3>4. path' \in [LogThread -> Segments]
      BY <2>6, <3>1, <3>3 DEF LogTyped
    <3>5. num' \in [LogThread -> Segments]
      BY <2>6, <3>2, <3>3 DEF LogTyped
    <3> QED BY <3>4, <3>5
  <2>9. opened' \in Seq(Segments)
    <3>1. opened' = opened \/ opened' = Append(opened, path[t])
      BY <1>8 DEF LogRotate, LogLoadSeq, LogRaise, LogOpen, LogLower, LogIo
    <3> QED BY <2>6, <3>1
  <2> QED BY <2>1, <2>2, <2>3, <2>5, <2>7, <2>8, <2>9 DEF LogTyped
<1> QED BY <1>1, <1>2, <1>3, <1>4, <1>5, <1>6, <1>7, <1>8 DEF LogNext, LogStep

\* A printer that writes, enters or flushes finds the others doing nothing.
LEMMA LogAlone ==
  ASSUME LogAssumption, LogTyped, LogModes, usage # "mixed"
  PROVE  /\ \A t, u \in LogThread : logPc[t] \in LogWriting /\ logPc[u] \in LogWriting => t = u
         /\ lock = NoFd \/ usage = "async" => \A t \in Printers : logPc[t] \notin LogWriting
  BY DEF LogModes, LogThread, LogAssumption, LogWriting, Opening

LEMMA LogModesStep == ASSUME LogAssumption, LogTyped, LogModes, [LogNext]_logVars PROVE LogModes'
<1>0. Flusher \in LogThread /\ Flusher \notin Printers /\ \A t \in Printers : t \in LogThread /\ t # NoFd
  BY DEF LogThread, LogAssumption
<1>1. CASE UNCHANGED logVars
  BY <1>1 DEF LogModes, logVars
<1>2. ASSUME NEW t \in Printers, LogPrint(t) PROVE LogModes'
  <2>1. UNCHANGED <<usage, async, cache, lock>>
        /\ logPc' = [logPc EXCEPT ![t] = IF async THEN "insert" ELSE "enter"]
        /\ logPc[t] = "idle"
    BY <1>2 DEF LogPrint
  <2> QED BY <1>0, <2>1 DEF LogModes, LogTyped, LogWriting, Opening
<1>3. ASSUME NEW t \in Printers, LogInsert(t) PROVE LogModes'
  <2>1. UNCHANGED <<usage, async, lock>> /\ logPc' = [logPc EXCEPT ![t] = "idle"] /\ logPc[t] = "insert"
    BY <1>3 DEF LogInsert
  <2> QED BY <1>0, <2>1 DEF LogModes, LogTyped, LogWriting, Opening
<1>4. ASSUME NEW t \in Printers, LogEnter(t) PROVE LogModes'
  <2>1. /\ UNCHANGED <<usage, async, cache>> /\ logPc' = [logPc EXCEPT ![t] = "check"]
        /\ logPc[t] = "enter" /\ lock = NoFd /\ lock' = t
    BY <1>4 DEF LogEnter
  <2> QED BY <1>0, <2>1 DEF LogModes, LogTyped, LogWriting, Opening
<1>5. CASE LogFlush
  <2>1. /\ UNCHANGED <<usage, async, lock>> /\ cache # <<>> /\ cache' = <<>>
        /\ logPc' = [logPc EXCEPT ![Flusher] = "check"]
    BY <1>5 DEF LogFlush
  <2> QED BY <1>0, <2>1 DEF LogModes, LogTyped, LogWriting, Opening
<1>6. CASE LogClear \/ LogToggle \/ LogDestroy
  BY <1>6 DEF LogModes, LogClear, LogToggle, LogDestroy
<1>7. ASSUME NEW t \in LogThread, LogDone(t) PROVE LogModes'
  <2>1. /\ UNCHANGED <<usage, async, cache>> /\ logPc' = [logPc EXCEPT ![t] = "idle"]
        /\ lock' = IF t = Flusher THEN lock ELSE NoFd
        /\ logPc[t] = "check"
    BY <1>7 DEF LogDone, Io
  <2>2. t \in Printers \/ t = Flusher
    BY DEF LogThread
  <2> QED BY <1>0, <2>1, <2>2 DEF LogModes, LogTyped, LogWriting, Opening
<1>8. ASSUME NEW t \in LogThread,
             \/ LogCheck(t) \/ LogRotate(t) \/ LogLoadSeq(t) \/ LogRaise(t) \/ LogOpen(t) \/ LogLower(t)
             \/ LogClose(t) \/ LogSet(t) \/ LogLoadFd(t) \/ LogIo(t)
      PROVE  LogModes'
  <2>1. /\ UNCHANGED <<usage, async, cache, lock>> /\ logPc[t] \in LogWriting
        /\ \E p \in LogWriting : logPc' = [logPc EXCEPT ![t] = p]
    BY <1>8 DEF LogCheck, LogRotate, LogLoadSeq, LogRaise, LogOpen, LogLower, LogClose, LogSet, LogLoadFd, LogIo, Io, LogWriting, Opening
  <2>2. t \in Printers \/ t = Flusher
    BY DEF LogThread
  <2> QED BY <1>0, <2>1, <2>2 DEF LogModes, LogTyped, LogWriting, Opening
<1> QED BY <1>1, <1>2, <1>3, <1>4, <1>5, <1>6, <1>7, <1>8 DEF LogNext, LogStep

LEMMA LogFreshStep == ASSUME LogAssumption, LogTyped, LogFresh, [LogNext]_logVars PROVE LogFresh'
<1>0. \A t \in Printers : t \in LogThread
  BY DEF LogThread
<1>1. CASE UNCHANGED logVars
  BY <1>1 DEF LogFresh, logVars
<1>2. ASSUME NEW t \in Printers, LogPrint(t) PROVE LogFresh'
  <2>1. /\ printed' = [printed EXCEPT ![t] = @ + 1] /\ UNCHANGED entered
        /\ hand' = [hand EXCEPT ![t] = <<<<t, printed[t]>>>>]
        /\ \E p : logPc' = [logPc EXCEPT ![t] = p]
    BY <1>2 DEF LogPrint
  <2>2. PICK n \in Nat : n = printed[t]
    BY DEF LogTyped
  <2>3. /\ printed'[t] = n + 1 /\ hand'[t] = <<<<t, n>>>>
        /\ \A u \in Printers \ {t} : printed'[u] = printed[u] /\ hand'[u] = hand[u] /\ logPc'[u] = logPc[u]
    BY <1>0, <2>1, <2>2 DEF LogTyped, Hands
  <2>4. <<t, n>> \notin ToSet(entered)
    <3>1. <<t, n>> \in ToSet(entered) => n < printed[t]
      BY DEF LogFresh
    <3> QED BY <2>2, <3>1
  <2>5. ASSUME NEW l \in ToSet(entered) PROVE l[2] < printed'[l[1]]
    <3>1. l \in Line
      BY HeldIs DEF LogTyped
    <3>2. l[1] \in Printers /\ l[2] \in Nat /\ l[2] < printed[l[1]]
      BY <3>1 DEF LogFresh, Line
    <3> QED BY <2>2, <2>3, <3>2
  <2>6. ASSUME NEW u \in Printers, logPc'[u] \in {"insert", "enter"}
        PROVE  \E m \in Nat : /\ hand'[u] = <<<<u, m>>>> /\ printed'[u] = m + 1
                              /\ <<u, m>> \notin ToSet(entered)
    <3>1. CASE u = t
      BY <2>3, <2>4, <3>1
    <3>2. CASE u # t
      BY <2>3, <2>6, <3>2 DEF LogFresh
    <3> QED BY <3>1, <3>2
  <2> QED BY <2>1, <2>5, <2>6 DEF LogFresh
<1>3. ASSUME NEW t \in Printers, LogInsert(t) \/ LogEnter(t) PROVE LogFresh'
  <2>1. /\ UNCHANGED printed /\ entered' = entered \o hand[t] /\ logPc[t] \in {"insert", "enter"}
        /\ \E p \in {"idle", "check"} : logPc' = [logPc EXCEPT ![t] = p]
        /\ \A u \in LogThread \ {t} : hand'[u] = hand[u]
    BY <1>3 DEF LogInsert, LogEnter, LogTyped, Hands
  <2>2. PICK n \in Nat : /\ hand[t] = <<<<t, n>>>> /\ printed[t] = n + 1
    BY <2>1 DEF LogFresh
  <2>3. PICK x : x = <<t, n>>
    OBVIOUS
  <2>4. x \in Line /\ x[1] = t /\ x[2] = n /\ hand[t] = <<x>>
    BY <2>2, <2>3 DEF Line
  <2>5. ToSet(entered') = ToSet(entered) \cup {x}
    BY <2>1, <2>4, HeldAppend DEF LogTyped
  <2>6. ASSUME NEW l \in ToSet(entered') PROVE l[2] < printed'[l[1]]
    <3>1. CASE l = x
      BY <2>1, <2>2, <2>4, <3>1
    <3>2. CASE l \in ToSet(entered)
      BY <2>1, <3>2 DEF LogFresh
    <3> QED BY <2>5, <3>1, <3>2
  <2>7. ASSUME NEW u \in Printers, logPc'[u] \in {"insert", "enter"}
        PROVE  \E m \in Nat : /\ hand'[u] = <<<<u, m>>>> /\ printed'[u] = m + 1
                              /\ <<u, m>> \notin ToSet(entered')
    <3>1. u # t /\ logPc'[u] = logPc[u] /\ hand'[u] = hand[u] /\ u \in LogThread
      BY <1>0, <2>1, <2>7 DEF LogTyped
    <3>2. PICK m \in Nat : /\ hand[u] = <<<<u, m>>>> /\ printed[u] = m + 1
                           /\ <<u, m>> \notin ToSet(entered)
      BY <2>7, <3>1 DEF LogFresh
    <3>3. <<u, m>> # x
      BY <2>3, <3>1
    <3> QED BY <2>1, <2>5, <3>1, <3>2, <3>3
  <2> QED BY <2>6, <2>7 DEF LogFresh
<1>4. CASE LogFlush
  BY <1>0, <1>4 DEF LogFresh, LogFlush, LogTyped, Hands, LogAssumption
<1>5. CASE LogClear \/ LogToggle \/ LogDestroy
  BY <1>5 DEF LogFresh, LogClear, LogToggle, LogDestroy
<1>6. ASSUME NEW t \in LogThread,
             \/ LogDone(t) \/ LogCheck(t) \/ LogRotate(t) \/ LogLoadSeq(t) \/ LogRaise(t) \/ LogOpen(t) \/ LogLower(t)
             \/ LogClose(t) \/ LogSet(t) \/ LogLoadFd(t) \/ LogIo(t)
      PROVE  LogFresh'
  <2>1. /\ UNCHANGED <<printed, entered>>
        /\ \E p \in {"idle"} \cup LogWriting : logPc' = [logPc EXCEPT ![t] = p]
        /\ \A u \in LogThread \ {t} : hand'[u] = hand[u]
    BY <1>6 DEF LogDone, LogCheck, LogRotate, LogLoadSeq, LogRaise, LogOpen, LogLower, LogClose, LogSet, LogLoadFd, LogIo, Io,
                GiveUp, LogWriting, Opening, LogTyped, Hands
  <2>2. \A u \in Printers : logPc'[u] \in {"insert", "enter"} =>
          logPc[u] = logPc'[u] /\ hand'[u] = hand[u]
    BY <1>0, <2>1 DEF LogTyped, LogWriting, Opening
  <2> QED BY <2>1, <2>2 DEF LogFresh
<1> QED BY <1>1, <1>2, <1>3, <1>4, <1>5, <1>6 DEF LogNext, LogStep

-----------------------------------------------------------------------------
(* The file. *)

LEMMA FirstFd == ASSUME LogAssumption PROVE Min((1 .. MaxFd) \ {}) = 1
<1>1. PICK m : m = MaxFd
  OBVIOUS
<1>2. m \in Nat \ {0}
  <2>1. IsFiniteSet(LogThread)
    BY FS_AddElement DEF LogAssumption, LogThread
  <2>2. Cardinality(LogThread) \in Nat
    BY <2>1, FS_CardinalityType
  <2> QED BY <1>1, <2>2 DEF MaxFd
<1>3. PICK S : S = (1 .. m) \ {}
  OBVIOUS
<1>4. S \subseteq Nat /\ 1 \in S /\ \A y \in S : 1 <= y
  BY <1>2, <1>3
<1>5. Min(S) \in S /\ \A y \in S : Min(S) <= y
  BY <1>4 DEF Min
<1> QED BY <1>1, <1>3, <1>4, <1>5

\* While the log is used one way only, the file is opened once.
LEMMA OpenedOnce ==
  ASSUME LogAssumption, LogTyped, LogModes, LogFirst, LogOneFile, alive, usage # "mixed",
         NEW t \in LogThread, LogOpen(t)
  PROVE  opened = <<>>
<1>1. logPc[t] = "open" /\ fd = NoFd /\ NoFd # 1
  BY DEF LogOpen, Io, LogFirst, Opening, LogAssumption
<1>2. SUFFICES ASSUME opened # <<>> PROVE FALSE
  OBVIOUS
<1>3. PICK u \in LogThread : logPc[u] \in {"close", "set"}
  BY <1>1, <1>2 DEF LogOneFile, OneFile
<1>4. u = t
  BY <1>1, <1>3, LogAlone DEF LogWriting, Opening
<1> QED BY <1>1, <1>3, <1>4

\* Its list is only ever appended to, by the thread that opens it.
OpenedKeeps == \/ opened' = opened
               \/ \E t \in LogThread : LogOpen(t) /\ opened' = Append(opened, path[t])

LEMMA OpenedStep == ASSUME LogNext PROVE OpenedKeeps
<1>1. ASSUME NEW t \in Printers, LogPrint(t) \/ LogInsert(t) \/ LogEnter(t) PROVE opened' = opened
  BY <1>1 DEF LogPrint, LogInsert, LogEnter, fileVars
<1>2. ASSUME LogFlush \/ LogClear \/ LogToggle \/ LogDestroy PROVE opened' = opened
  BY <1>2 DEF LogFlush, LogClear, LogToggle, LogDestroy, fileVars
<1>3. ASSUME NEW t \in LogThread,
             \/ LogDone(t) \/ LogCheck(t) \/ LogRotate(t) \/ LogLoadSeq(t) \/ LogRaise(t)
             \/ LogLower(t) \/ LogClose(t) \/ LogSet(t) \/ LogLoadFd(t) \/ LogIo(t)
      PROVE  opened' = opened
  BY <1>3 DEF LogDone, LogCheck, LogRotate, LogLoadSeq, LogRaise, LogLower, LogClose, LogSet,
              LogLoadFd, LogIo, fileVars
<1>4. ASSUME NEW t \in LogThread, LogOpen(t) PROVE OpenedKeeps
  BY <1>4 DEF LogOpen, OpenedKeeps
<1> QED BY <1>1, <1>2, <1>3, <1>4 DEF LogNext, LogStep, OpenedKeeps

LEMMA FirstOpened ==
  ASSUME NEW o \in Seq(Segments), NEW s \in Segments
  PROVE  /\ Len(Append(o, s)) = Len(o) + 1 /\ Len(o) \in Nat
         /\ Append(o, s) # <<>> /\ Append(<<>>, s) = <<s>> /\ <<s>>[1] = s /\ <<s>> # <<>>
         /\ Len(o) <= 0 => o = <<>>
         /\ Len(<<>>) = 0 /\ Len(<<s>>) = 1
         /\ Len(o) <= 1 /\ o # <<>> => o[1] \in Segments
  OBVIOUS

ShortAre(o) == o = <<>> \/ o = <<0>>

LEMMA ShortOnes == ASSUME NEW o, ShortAre(o) PROVE Len(o) <= 1 /\ (o = <<0>> => o # <<>> /\ o[1] = 0)
<1>1. Len(<<>>) = 0 /\ Len(<<0>>) = 1 /\ <<0>> # <<>> /\ <<0>>[1] = 0
  OBVIOUS
<1>2. Len(o) = 0 \/ Len(o) = 1
  BY <1>1 DEF ShortAre
<1> QED BY <1>1, <1>2

IoPcs == {"close", "set", "write", "io"}

\* A step that does no more than move a thread about outside of the writing.
LEMMA OneFileSame ==
  ASSUME LogOneFile, UNCHANGED <<alive, fd, fds, got, opened, files>>,
         \A u \in LogThread : \/ logPc'[u] = logPc[u]
                              \/ logPc[u] \notin IoPcs /\ logPc'[u] \notin IoPcs
  PROVE  LogOneFile'
<1>1. NoFile => NoFile'
  BY DEF NoFile, IoPcs
<1>2. OneFile => OneFile'
  BY DEF OneFile, IoPcs
<1> QED BY <1>1, <1>2 DEF LogOneFile, NeverOpened

LEMMA OneFileMoves ==
  ASSUME LogTyped, LogOneFile, UNCHANGED <<alive, fd, fds, got, opened, files>>, NEW t \in LogThread,
         NEW p, logPc' = [logPc EXCEPT ![t] = p], logPc[t] \notin IoPcs, p \notin IoPcs
  PROVE  LogOneFile'
<1>1. \A u \in LogThread : \/ logPc'[u] = logPc[u]
                           \/ logPc[u] \notin IoPcs /\ logPc'[u] \notin IoPcs
  BY DEF LogTyped
<1> QED BY <1>1, OneFileSame

LEMMA LogOneFileStep ==
  ASSUME LogAssumption, LogTyped, LogOneFile, alive,
         LogNext, Len(opened') <= 1
  PROVE  LogOneFile'
<1>0. /\ Flusher \in LogThread /\ \A t \in Printers : t \in LogThread
      /\ NoFd # 1 /\ \A t \in LogThread : t \in DOMAIN logPc
  BY DEF LogThread, LogTyped, LogAssumption
<1>1. CASE LogStep /\ UNCHANGED alive
  <2>1. ASSUME NEW t \in Printers, LogPrint(t) \/ LogInsert(t) \/ LogEnter(t) PROVE LogOneFile'
    <3>1. /\ UNCHANGED <<fd, fds, got, opened, files>> /\ logPc[t] \notin IoPcs
          /\ \E p \in {"insert", "enter", "idle", "check"} : logPc' = [logPc EXCEPT ![t] = p]
      BY <2>1 DEF LogPrint, LogInsert, LogEnter, fileVars, IoPcs
    <3> QED BY <1>0, <1>1, <3>1, OneFileMoves DEF IoPcs
  <2>2. CASE LogFlush
    <3>1. /\ UNCHANGED <<fd, fds, got, opened, files>> /\ logPc[Flusher] \notin IoPcs
          /\ logPc' = [logPc EXCEPT ![Flusher] = "check"]
      BY <2>2 DEF LogFlush, fileVars, IoPcs
    <3> QED BY <1>0, <1>1, <3>1, OneFileMoves DEF IoPcs
  <2>3. CASE LogClear \/ LogToggle
    <3>1. UNCHANGED <<fd, fds, got, opened, files, logPc>>
      BY <2>3 DEF LogClear, LogToggle, fileVars
    <3> QED BY <1>1, <3>1, OneFileSame
  <2>4. ASSUME NEW t \in LogThread,
               LogDone(t) \/ LogRotate(t) \/ LogLoadSeq(t) \/ LogRaise(t) \/ LogLower(t)
        PROVE  LogOneFile'
    <3>1. /\ UNCHANGED <<fd, fds, got, opened, files>> /\ logPc[t] \notin IoPcs
          /\ \E p \in {"idle", "load", "count", "open", "uncount", "check"} : logPc' = [logPc EXCEPT ![t] = p]
      BY <2>4 DEF LogDone, LogRotate, LogLoadSeq, LogRaise, LogLower, Io, fileVars, IoPcs
    <3> QED BY <1>1, <3>1, OneFileMoves DEF IoPcs
  <2>5. ASSUME NEW t \in LogThread, LogCheck(t) PROVE LogOneFile'
    <3>1. /\ UNCHANGED <<alive, fd, fds, got, opened, files>> /\ logPc[t] = "check"
          /\ logPc' = [logPc EXCEPT ![t] = IF fd = NoFd THEN "rotate" ELSE "write"]
      BY <1>1, <2>5 DEF LogCheck, Io, fileVars
    <3>2. CASE fd = NoFd
      <4>1. logPc' = [logPc EXCEPT ![t] = "rotate"]
        BY <3>1, <3>2
      <4> QED BY <3>1, <4>1, OneFileMoves DEF IoPcs
    <3>3. CASE fd # NoFd
      <4>1. logPc'[t] = "write" /\ \A u \in LogThread \ {t} : logPc'[u] = logPc[u]
        BY <3>1, <3>3 DEF LogTyped
      <4>2. opened # <<>> /\ OneFile
        BY <3>3 DEF LogOneFile, NoFile
      <4>3. fd = 1 /\ \A u \in LogThread : /\ logPc[u] \notin {"close", "set"}
                                           /\ logPc[u] = "io" => got[u] = 1
        BY <3>3, <4>2 DEF OneFile
      <4>4. OneFile'
        BY <3>1, <4>1, <4>2, <4>3 DEF OneFile
      <4> QED BY <3>1, <4>2, <4>4 DEF LogOneFile, NeverOpened
    <3> QED BY <3>2, <3>3
  <2>6. ASSUME NEW t \in LogThread, LogOpen(t) PROVE LogOneFile'
    <3>1. CASE logPc' = [logPc EXCEPT ![t] = "undo"] /\ UNCHANGED <<fds, got, opened>>
      <4>1. UNCHANGED <<fd, files>> /\ logPc[t] \notin IoPcs
        BY <2>6 DEF LogOpen, Io, IoPcs
      <4> QED BY <1>1, <3>1, <4>1, OneFileMoves DEF IoPcs
    <3>2. CASE ~(logPc' = [logPc EXCEPT ![t] = "undo"] /\ UNCHANGED <<fds, got, opened>>)
      <4>1. /\ logPc' = [logPc EXCEPT ![t] = "close"] /\ logPc[t] = "open"
            /\ opened' = Append(opened, path[t]) /\ UNCHANGED <<fd, files>>
            /\ path[t] \in Segments /\ opened \in Seq(Segments)
        BY <2>6, <3>2 DEF LogOpen, Io, LogTyped
      <4>2. opened = <<>>
        BY <4>1, FirstOpened
      <4>3. opened' # <<>> /\ opened'[1] = path[t]
        BY <4>1, <4>2, FirstOpened
      <4>4. NoFile
        BY <4>2 DEF LogOneFile
      <4>5. Min((1 .. MaxFd) \ DOMAIN fds) = 1
        BY <4>4, FirstFd DEF NoFile
      <4>6. /\ fds' = [m \in {1} \cup DOMAIN fds |-> IF m = 1 THEN path[t] ELSE fds[m]]
            /\ got' = [got EXCEPT ![t] = 1]
        BY <2>6, <3>2, <4>5 DEF LogOpen, Io
      <4>7. DOMAIN fds' = {1} /\ fds'[1] = opened'[1]
        BY <4>3, <4>4, <4>6 DEF NoFile
      <4>8. /\ logPc'[t] = "close" /\ got'[t] = 1
            /\ \A u \in LogThread \ {t} : logPc'[u] = logPc[u]
        BY <4>1, <4>6 DEF LogTyped
      <4>9. OneFile'
        BY <4>1, <4>4, <4>7, <4>8 DEF OneFile, NoFile
      <4>10. \A s \in Segments : files'[s] = <<>>
        BY <4>1, <4>2 DEF LogOneFile, NeverOpened
      <4> QED BY <4>3, <4>7, <4>9, <4>10 DEF LogOneFile
    <3> QED BY <3>1, <3>2
  <2>7. ASSUME NEW t \in LogThread, LogClose(t) PROVE LogOneFile'
    <3>1. /\ UNCHANGED <<alive, fd, got, opened, files>> /\ logPc[t] = "close"
          /\ logPc' = [logPc EXCEPT ![t] = "set"] /\ fds' = Closed(fd)
      BY <1>1, <2>7 DEF LogClose, Io
    <3>2. opened # <<>> /\ OneFile
      BY <3>1 DEF LogOneFile, NoFile
    <3>3. /\ fd = NoFd /\ DOMAIN fds = {1} /\ fds[1] = opened[1] /\ got[t] = 1
          /\ \A u \in LogThread \ {t} : logPc[u] \notin {"close", "set", "write", "io"}
      BY <1>0, <3>1, <3>2 DEF OneFile
    <3>4. DOMAIN fds' = {1} /\ fds'[1] = opened'[1]
      BY <1>0, <3>1, <3>3 DEF Closed
    <3>5. logPc'[t] = "set" /\ \A u \in LogThread \ {t} : logPc'[u] = logPc[u]
      BY <3>1 DEF LogTyped
    <3>6. OneFile'
      BY <3>1, <3>3, <3>4, <3>5 DEF OneFile
    <3> QED BY <3>1, <3>2, <3>4, <3>6 DEF LogOneFile, NeverOpened
  <2>8. ASSUME NEW t \in LogThread, LogSet(t) PROVE LogOneFile'
    <3>1. /\ UNCHANGED <<alive, fds, opened, files>> /\ logPc[t] = "set" /\ fd' = got[t]
          /\ logPc' = [logPc EXCEPT ![t] = "write"] /\ got' = [got EXCEPT ![t] = NoFd]
      BY <1>1, <2>8 DEF LogSet, Io
    <3>2. opened # <<>> /\ OneFile
      BY <3>1 DEF LogOneFile, NoFile
    <3>3. /\ DOMAIN fds = {1} /\ fds[1] = opened[1] /\ got[t] = 1
          /\ \A u \in LogThread \ {t} : logPc[u] \notin {"close", "set", "write", "io"}
      BY <1>0, <3>1, <3>2 DEF OneFile
    <3>4. logPc'[t] = "write" /\ \A u \in LogThread \ {t} : logPc'[u] = logPc[u]
      BY <3>1 DEF LogTyped
    <3>5. OneFile'
      BY <3>1, <3>3, <3>4 DEF OneFile
    <3> QED BY <3>1, <3>2, <3>5 DEF LogOneFile, NeverOpened
  <2>9. ASSUME NEW t \in LogThread, LogLoadFd(t) PROVE LogOneFile'
    <3>1. /\ UNCHANGED <<alive, fd, fds, opened, files>> /\ logPc[t] = "write"
          /\ logPc' = [logPc EXCEPT ![t] = "io"] /\ got' = [got EXCEPT ![t] = fd]
      BY <1>1, <2>9 DEF LogLoadFd, Io
    <3>2. opened # <<>> /\ OneFile
      BY <3>1 DEF LogOneFile, NoFile
    <3>3. /\ fd = 1 /\ \A u \in LogThread : /\ logPc[u] \notin {"close", "set"}
                                            /\ logPc[u] = "io" => got[u] = 1
      BY <1>0, <3>1, <3>2 DEF OneFile
    <3>4. /\ logPc'[t] = "io" /\ got'[t] = 1
          /\ \A u \in LogThread \ {t} : logPc'[u] = logPc[u] /\ got'[u] = got[u]
      BY <3>1, <3>3 DEF LogTyped
    <3>5. OneFile'
      BY <3>1, <3>2, <3>3, <3>4 DEF OneFile
    <3> QED BY <3>1, <3>2, <3>5 DEF LogOneFile, NeverOpened
  <2>10. ASSUME NEW t \in LogThread, LogIo(t) PROVE LogOneFile'
    <3>1. /\ UNCHANGED <<alive, fd, fds, opened>> /\ logPc[t] = "io"
          /\ logPc' = [logPc EXCEPT ![t] = "check"] /\ got' = [got EXCEPT ![t] = NoFd]
      BY <1>1, <2>10 DEF LogIo, Io
    <3>2. opened # <<>> /\ OneFile
      BY <3>1 DEF LogOneFile, NoFile
    <3>3. /\ fd = 1 /\ DOMAIN fds = {1} /\ fds[1] = opened[1]
          /\ \A u \in LogThread : /\ logPc[u] \notin {"close", "set"}
                                  /\ logPc[u] = "io" => got[u] = 1
      BY <1>0, <3>1, <3>2 DEF OneFile
    <3>4. /\ logPc'[t] = "check"
          /\ \A u \in LogThread \ {t} : logPc'[u] = logPc[u] /\ got'[u] = got[u]
      BY <3>1 DEF LogTyped
    <3>5. OneFile'
      BY <3>1, <3>2, <3>3, <3>4 DEF OneFile
    <3>6. \A s \in Segments : s # opened[1] => files'[s] = files[s]
      BY <2>10, <3>1, <3>3 DEF LogIo, LogTyped
    <3> QED BY <3>1, <3>2, <3>5, <3>6 DEF LogOneFile, NeverOpened
  <2> QED BY <1>1, <2>1, <2>2, <2>3, <2>4, <2>5, <2>6, <2>7, <2>8, <2>9, <2>10 DEF LogStep
<1>2. CASE LogDestroy
  <2>1. alive' = FALSE /\ DOMAIN fds' \subseteq DOMAIN fds /\ UNCHANGED <<opened, files>>
    BY <1>2 DEF LogDestroy, Closed
  <2> QED BY <2>1 DEF LogOneFile, NeverOpened
<1> QED BY <1>1, <1>2 DEF LogNext

-----------------------------------------------------------------------------
(* The number of the segment. *)

Counting == {"open", "undo", "uncount"}

LEMMA FirstSame ==
  ASSUME LogFirst, UNCHANGED <<usage, fd, seq, path, num, opened>>,
         \A u \in LogThread : \/ logPc'[u] = logPc[u]
                              \/ logPc[u] \notin Opening /\ logPc'[u] \notin Opening
  PROVE  LogFirst'
<1>1. \A u \in LogThread : FirstSegment(u) => FirstSegment(u)'
  BY DEF FirstSegment, Opening, Raised
<1>2. \A u \in LogThread : logPc'[u] \notin Counting => logPc[u] \notin Counting
  BY DEF Opening, Counting
<1> QED BY <1>1, <1>2 DEF LogFirst, Counting

\* A thread that writes is alone, so that the others do not count.
LEMMA CountsAlone ==
  ASSUME LogAssumption, LogTyped, LogModes, LogFirst, usage # "mixed", opened = <<>>,
         NEW t \in LogThread, logPc[t] \in LogWriting
  PROVE  FirstSegment(t) /\ (logPc[t] \notin Counting => seq = 0)
<1>1. \A u \in LogThread : u # t => logPc[u] \notin LogWriting
  BY LogAlone
<1> QED BY <1>1 DEF LogFirst, Counting, LogWriting, Opening

LEMMA FirstByHim ==
  ASSUME LogAssumption, LogTyped, LogModes, usage # "mixed",
         NEW t \in LogThread, logPc[t] \in LogWriting, NEW p, logPc' = [logPc EXCEPT ![t] = p],
         opened' \in {<<>>, << 0 >>}, p \in Opening => fd' = NoFd,
         opened' = <<>> => FirstSegment(t)' /\ (p \notin Counting => seq' = 0)
  PROVE  LogFirst'
<1>1. \A u \in LogThread : u # t => logPc[u] \notin LogWriting
  BY LogAlone
<1>2. logPc'[t] = p /\ \A u \in LogThread : u # t => logPc'[u] \notin LogWriting
  BY <1>1 DEF LogTyped
<1>3. \A u \in LogThread : u # t => FirstSegment(u)'
  BY <1>2 DEF FirstSegment, LogWriting, Opening
<1> QED BY <1>2, <1>3 DEF LogFirst, Counting, LogWriting, Opening

LEMMA LogFirstStep ==
  ASSUME LogAssumption, LogTyped, LogModes, LogFirst, LogOneFile, alive, usage # "mixed", LogNext
  PROVE  LogFirst'
<1>0. /\ Flusher \in LogThread /\ \A t \in Printers : t \in LogThread
      /\ 0 + 1 \in Nat /\ (Raised = 0 \/ Raised = 1) /\ (Raised = 0 <=> SegWord = 1)
      /\ opened \in {<<>>, <<0>>} /\ \A t \in LogThread : logPc[t] \in Opening => fd = NoFd
  BY DEF LogThread, LogAssumption, Raised, LogFirst
<1>1. ASSUME NEW t \in Printers, LogPrint(t) \/ LogInsert(t) \/ LogEnter(t) PROVE LogFirst'
  <2>1. /\ UNCHANGED <<usage, fd, seq, path, num, opened>> /\ logPc[t] \notin Opening
        /\ \E p \in {"insert", "enter", "idle", "check"} : logPc' = [logPc EXCEPT ![t] = p]
    BY <1>1 DEF LogPrint, LogInsert, LogEnter, fileVars, Opening
  <2>2. \A u \in LogThread : \/ logPc'[u] = logPc[u]
                             \/ logPc[u] \notin Opening /\ logPc'[u] \notin Opening
    BY <1>0, <2>1 DEF LogTyped, Opening
  <2> QED BY <2>1, <2>2, FirstSame
<1>2. CASE LogFlush
  <2>1. /\ UNCHANGED <<usage, fd, seq, path, num, opened>> /\ logPc[Flusher] \notin Opening
        /\ logPc' = [logPc EXCEPT ![Flusher] = "check"]
    BY <1>2 DEF LogFlush, fileVars, Opening
  <2>2. \A u \in LogThread : \/ logPc'[u] = logPc[u]
                             \/ logPc[u] \notin Opening /\ logPc'[u] \notin Opening
    BY <1>0, <2>1 DEF LogTyped, Opening
  <2> QED BY <2>1, <2>2, FirstSame
<1>3. CASE LogClear \/ LogToggle \/ LogDestroy
  <2>1. UNCHANGED <<usage, fd, seq, path, num, opened, logPc>>
    BY <1>3 DEF LogClear, LogToggle, LogDestroy, fileVars
  <2> QED BY <2>1, FirstSame
<1>4. ASSUME NEW t \in LogThread,
             LogDone(t) \/ LogCheck(t) \/ LogClose(t) \/ LogSet(t) \/ LogLoadFd(t) \/ LogIo(t)
      PROVE  LogFirst'
  <2>1. PICK p : /\ logPc' = [logPc EXCEPT ![t] = p] /\ p \notin Opening \ {"rotate"}
                 /\ p = "rotate" => fd' = NoFd
    BY <1>4 DEF LogDone, LogCheck, LogClose, LogSet, LogLoadFd, LogIo, Io, fileVars, Opening
  <2>2. /\ logPc[t] \in LogWriting /\ logPc[t] \notin Counting /\ UNCHANGED <<seq, opened>>
    BY <1>4 DEF LogDone, LogCheck, LogClose, LogSet, LogLoadFd, LogIo, Io, fileVars, LogWriting, Counting
  <2>3. logPc'[t] = p
    BY <2>1 DEF LogTyped
  <2>4. FirstSegment(t)'
    BY <2>1, <2>3 DEF FirstSegment, Opening
  <2>5. opened = <<>> => seq = 0
    BY <2>2, CountsAlone
  <2> QED BY <1>0, <2>1, <2>2, <2>4, <2>5, FirstByHim DEF Opening
<1>5. ASSUME NEW t \in LogThread, LogRotate(t) \/ LogLoadSeq(t) \/ LogRaise(t) \/ LogLower(t)
      PROVE  LogFirst'
  <2>1. logPc[t] \in LogWriting /\ fd = NoFd /\ UNCHANGED <<fd, opened>>
    BY <1>0, <1>5 DEF LogRotate, LogLoadSeq, LogRaise, LogLower, Io, Opening, LogWriting
  <2>2. ASSUME opened = <<>> PROVE FirstSegment(t) /\ (logPc[t] \notin Counting => seq = 0)
    BY <2>1, <2>2, CountsAlone
  <2>3. PICK p : logPc' = [logPc EXCEPT ![t] = p] /\ p \in {"load", "check", "count", "uncount", "open"}
    BY <1>5 DEF LogRotate, LogLoadSeq, LogRaise, LogLower, Io
  <2>4. logPc'[t] = p /\ path \in [LogThread -> Segments] /\ num \in [LogThread -> Segments]
    BY <2>3 DEF LogTyped
  <2>5. ASSUME opened = <<>>, LogRotate(t) PROVE FirstSegment(t)' /\ (p \notin Counting => seq' = 0)
    <3>1. logPc[t] = "rotate" /\ seq' = seq /\ seq = 0
      BY <2>2, <2>5 DEF LogRotate, Io, Counting
    <3>2. \/ p = "load" /\ path' = [path EXCEPT ![t] = seq]
          \/ p = "check"
      BY <2>3, <2>4, <2>5 DEF LogRotate, Io, LogTyped
    <3> QED BY <2>4, <3>1, <3>2 DEF FirstSegment, Counting
  <2>6. ASSUME opened = <<>>, LogLoadSeq(t) PROVE FirstSegment(t)' /\ (p \notin Counting => seq' = 0)
    <3>1. seq' = seq /\ path' = path /\ num' = [num EXCEPT ![t] = seq]
      BY <2>6 DEF LogLoadSeq
    <3>2. \/ logPc[t] = "load" /\ p = "count"
          \/ logPc[t] = "undo" /\ p = "uncount"
      BY <2>3, <2>4, <2>6 DEF LogLoadSeq, Io, LogTyped
    <3>3. CASE logPc[t] = "load" /\ p = "count"
      BY <2>2, <2>4, <2>6, <3>1, <3>3 DEF FirstSegment, Counting
    <3>4. CASE logPc[t] = "undo" /\ p = "uncount"
      <4>1. seq = Raised
        BY <2>2, <2>6, <3>4 DEF FirstSegment
      <4>2. seq' = Raised' /\ num'[t] = Raised'
        BY <2>4, <3>1, <4>1 DEF Raised
      <4> QED BY <2>4, <3>4, <4>2 DEF FirstSegment, Counting
    <3> QED BY <3>2, <3>3, <3>4
  <2>7. ASSUME opened = <<>>, LogRaise(t) PROVE FirstSegment(t)' /\ (p \notin Counting => seq' = 0)
    <3>1. logPc[t] = "count" /\ path' = path /\ seq' = IF num[t] + 1 = SegWord THEN 0 ELSE num[t] + 1
      BY <2>7 DEF LogRaise, Io
    <3>2. path[t] = 0 /\ num[t] = 0 /\ p = "open"
      BY <2>2, <2>3, <2>4, <2>7, <3>1 DEF FirstSegment, LogRaise, Io, LogTyped
    <3>3. seq' = Raised'
      BY <3>1, <3>2 DEF Raised
    <3> QED BY <2>4, <3>1, <3>2, <3>3 DEF FirstSegment, Counting
  <2>8. ASSUME opened = <<>>, LogLower(t) PROVE FirstSegment(t)' /\ (p \notin Counting => seq' = 0)
    <3>1. logPc[t] = "uncount" /\ seq' = IF num[t] = 0 THEN SegWord - 1 ELSE num[t] - 1
      BY <2>8 DEF LogLower, Io
    <3>2. num[t] = Raised /\ p = "check"
      BY <2>2, <2>3, <2>4, <2>8, <3>1 DEF FirstSegment, LogLower, Io, LogTyped
    <3>3. seq' = 0
      BY <1>0, <3>1, <3>2 DEF LogAssumption
    <3> QED BY <2>4, <3>2, <3>3 DEF FirstSegment
  <2> QED BY <1>0, <1>5, <2>1, <2>3, <2>5, <2>6, <2>7, <2>8, FirstByHim
<1>6. ASSUME NEW t \in LogThread, LogOpen(t) PROVE LogFirst'
  <2>1. opened = <<>>
    BY <1>6, OpenedOnce
  <2>2. logPc[t] = "open" /\ logPc[t] \in LogWriting /\ fd = NoFd /\ UNCHANGED <<fd, seq>>
    BY <1>0, <1>6 DEF LogOpen, Io, Opening, LogWriting
  <2>3. path[t] = 0 /\ seq = Raised
    BY <2>1, <2>2, CountsAlone DEF FirstSegment
  <2>4. \/ logPc' = [logPc EXCEPT ![t] = "close"] /\ opened' = Append(opened, path[t])
        \/ logPc' = [logPc EXCEPT ![t] = "undo"] /\ opened' = opened
    BY <1>6 DEF LogOpen, Io
  <2>5. CASE logPc' = [logPc EXCEPT ![t] = "close"] /\ opened' = Append(opened, path[t])
    <3>1. opened' = <<0>> /\ <<0>> # <<>>
      BY <2>1, <2>3, <2>5
    <3> QED BY <2>2, <2>5, <3>1, FirstByHim DEF Opening
  <2>6. CASE logPc' = [logPc EXCEPT ![t] = "undo"] /\ opened' = opened
    <3>1. logPc'[t] = "undo" /\ seq' = Raised'
      BY <2>2, <2>3, <2>6 DEF LogTyped, Raised
    <3>2. FirstSegment(t)'
      BY <3>1 DEF FirstSegment
    <3> QED BY <1>0, <2>2, <2>6, <3>2, FirstByHim DEF Counting
  <2> QED BY <2>4, <2>5, <2>6
<1> QED BY <1>1, <1>2, <1>3, <1>4, <1>5, <1>6 DEF LogNext, LogStep

-----------------------------------------------------------------------------
(* The lines. *)

LEMMA HandsAre ==
  /\ LogTyped => AllHands \in Hands
  /\ \A t \in LogThread : AllHands[t] = InHand(t)
  /\ LogTyped => \A t \in LogThread : InHand(t) \in Seq(Line)
  /\ LogTyped => \A t \in LogThread : logPc[t] \notin LogWriting => InHand(t) = <<>>
  /\ LogTyped => \A t \in LogThread : logPc[t] \in LogWriting => InHand(t) = hand[t]
<1>1. \A t \in LogThread : AllHands[t] = InHand(t)
  BY DEF AllHands
<1>2. LogTyped => \A t \in LogThread : InHand(t) \in Seq(Line)
  BY EmptySeq DEF LogTyped, Hands, InHand
<1>3. LogTyped => \A t \in LogThread : logPc[t] \notin LogWriting => InHand(t) = <<>>
  BY DEF LogTyped, InHand
<1>4. LogTyped => \A t \in LogThread : logPc[t] \in LogWriting => InHand(t) = hand[t]
  BY DEF InHand, LogWriting, Opening
<1>5. LogTyped => AllHands \in Hands
  BY <1>2 DEF AllHands, Hands
<1> QED BY <1>1, <1>2, <1>3, <1>4, <1>5

LEMMA HandsAfter ==
  /\ LogTyped' => AllHands' \in Hands
  /\ \A t \in LogThread : AllHands'[t] = InHand(t)'
<1>1. \A t \in LogThread : AllHands'[t] = InHand(t)'
  BY DEF AllHands
<1>2. LogTyped' => \A t \in LogThread : InHand(t)' \in Seq(Line)
  BY EmptySeq DEF LogTyped, Hands, InHand
<1>5. LogTyped' => AllHands' \in Hands
  BY <1>2 DEF AllHands, Hands
<1> QED BY <1>1, <1>5

LEMMA ContentsSame ==
  ASSUME LogContents, UNCHANGED <<usage, cache, entered, dropped>>, Filed' = Filed,
         \A t \in LogThread : InHand(t)' = InHand(t)
  PROVE  LogContents'
<1>1. AllHands' = AllHands
  BY DEF AllHands
<1> QED BY <1>1 DEF LogContents, OthersEmpty

\* Who has nothing in hand beside him is the one the order goes through.
LEMMA ThroughHim ==
  ASSUME LogContents, usage # "mixed", NEW t \in LogThread, OthersEmpty(t)
  PROVE  Straight(Filed, InHand(t), cache, entered, dropped)
<1>1. PICK u \in LogThread : OthersEmpty(u) /\ Straight(Filed, InHand(u), cache, entered, dropped)
  BY DEF LogContents
<1>2. u # t => InHand(u) = <<>> /\ InHand(t) = <<>>
  BY <1>1 DEF OthersEmpty
<1>3. InHand(u) = InHand(t)
  BY <1>2
<1> QED BY <1>1, <1>3

LEMMA OneHand ==
  ASSUME LogAssumption, LogTyped, LogModes, usage # "mixed",
         NEW t \in LogThread, logPc[t] \in LogWriting
  PROVE  OthersEmpty(t)
  BY LogAlone, HandsAre DEF OthersEmpty

LEMMA ContentsEnter ==
  ASSUME LogAssumption, LogTyped, LogTyped', LogFresh, LogModes, LogContents, NEW t \in Printers, LogEnter(t)
  PROVE  LogContents'
<1>0. /\ t \in LogThread /\ Filed' = Filed /\ UNCHANGED <<usage, cache, dropped, hand>>
      /\ logPc[t] = "enter" /\ logPc' = [logPc EXCEPT ![t] = "check"] /\ lock = NoFd
      /\ entered' = entered \o hand[t]
  BY DEF LogEnter, LogThread, fileVars, Filed
<1>1. PICK x \in Line : hand[t] = <<x>> /\ x \notin ToSet(entered)
  <2>1. PICK n \in Nat : hand[t] = <<<<t, n>>>> /\ <<t, n>> \notin ToSet(entered)
    BY <1>0 DEF LogFresh
  <2>2. <<t, n>> \in Line
    BY DEF Line
  <2> QED BY <2>1, <2>2
<1>2. /\ InHand(t) = <<>> /\ InHand(t)' = <<x>>
      /\ \A u \in LogThread : u # t => InHand(u)' = InHand(u)
  <2>1. logPc'[t] = "check" /\ \A u \in LogThread : u # t => logPc'[u] = logPc[u]
    BY <1>0 DEF LogTyped
  <2> QED BY <1>0, <1>1, <2>1 DEF InHand
<1>3. Sound(Filed, AllHands, cache, entered, dropped)
  BY DEF LogContents
<1>4. Sound(Filed, AllHands', cache, entered \o <<x>>, dropped)
  <2>1. /\ AllHands[t] = <<>> /\ AllHands'[t] = <<x>>
        /\ \A u \in LogThread : u # t => AllHands'[u] = AllHands[u]
    BY <1>0, <1>2, HandsAre, HandsAfter
  <2>2. AllHands' \in Hands
    BY HandsAfter
  <2> QED BY <1>0, <1>1, <1>3, <2>1, <2>2, SoundEnter
<1>5. ASSUME usage # "mixed"
      PROVE  OthersEmpty(t)' /\ Straight(Filed, InHand(t)', cache, entered \o <<x>>, dropped)
  <2>1. cache = <<>> /\ \A u \in LogThread : logPc[u] \notin LogWriting
    <3>1. usage = "sync"
      BY <1>0, <1>5 DEF LogModes
    <3>2. cache = <<>> /\ logPc[Flusher] = "idle"
      BY <3>1 DEF LogModes
    <3>3. \A u \in Printers : logPc[u] \notin LogWriting
      BY <1>0, <1>5, LogAlone
    <3> QED BY <3>2, <3>3 DEF LogThread, LogWriting, Opening
  <2>2. OthersEmpty(t)
    BY <2>1, HandsAre DEF OthersEmpty
  <2>3. Straight(Filed, InHand(t), cache, entered, dropped)
    BY <1>0, <1>5, <2>2, ThroughHim
  <2>4. Filed \in Seq(Line) /\ entered \in Seq(Line) /\ x \notin dropped
    BY <1>1, <1>3 DEF Sound
  <2>5. Straight(Filed, <<x>>, cache, entered \o <<x>>, dropped)
    BY <1>2, <2>1, <2>3, <2>4, StraightEnter
  <2> QED BY <1>2, <2>2, <2>5 DEF OthersEmpty
<1> QED BY <1>0, <1>1, <1>4, <1>5 DEF LogContents

LEMMA ContentsInsert ==
  ASSUME LogAssumption, LogTyped, LogTyped', LogFresh, LogModes, LogContents, NEW t \in Printers, LogInsert(t)
  PROVE  LogContents'
<1>0. /\ t \in LogThread /\ Filed' = Filed /\ UNCHANGED <<usage, dropped>>
      /\ logPc[t] = "insert" /\ logPc' = [logPc EXCEPT ![t] = "idle"]
      /\ hand' = [hand EXCEPT ![t] = <<>>]
      /\ entered' = entered \o hand[t] /\ cache' = cache \o hand[t]
  BY DEF LogInsert, LogThread, fileVars, Filed
<1>1. PICK x \in Line : hand[t] = <<x>> /\ x \notin ToSet(entered)
  <2>1. PICK n \in Nat : hand[t] = <<<<t, n>>>> /\ <<t, n>> \notin ToSet(entered)
    BY <1>0 DEF LogFresh
  <2>2. <<t, n>> \in Line
    BY DEF Line
  <2> QED BY <2>1, <2>2
<1>2. \A u \in LogThread : InHand(u)' = InHand(u)
  <2>1. /\ logPc'[t] = "idle" /\ \A u \in LogThread : u # t => logPc'[u] = logPc[u] /\ hand'[u] = hand[u]
    BY <1>0 DEF LogTyped, Hands
  <2> QED BY <1>0, <2>1 DEF InHand
<1>3. Sound(Filed, AllHands, cache, entered, dropped)
  BY DEF LogContents
<1>4. Sound(Filed, AllHands, cache \o <<x>>, entered \o <<x>>, dropped)
  BY <1>1, <1>3, SoundInsert
<1>5. AllHands' = AllHands
  BY <1>2 DEF AllHands
<1>6. ASSUME usage # "mixed"
      PROVE  \E u \in LogThread : /\ OthersEmpty(u)'
                                  /\ Straight(Filed, InHand(u)', cache \o <<x>>, entered \o <<x>>, dropped)
  <2>1. PICK u \in LogThread : OthersEmpty(u) /\ Straight(Filed, InHand(u), cache, entered, dropped)
    BY <1>6 DEF LogContents
  <2>2. /\ Filed \in Seq(Line) /\ InHand(u) \in Seq(Line) /\ cache \in Seq(Line)
        /\ entered \in Seq(Line) /\ x \notin dropped
    BY <1>1, <1>3, HandsAre DEF Sound
  <2>3. Straight(Filed, InHand(u), cache \o <<x>>, entered \o <<x>>, dropped)
    BY <2>1, <2>2, StraightInsert
  <2>4. OthersEmpty(u)'
    BY <1>2, <2>1 DEF OthersEmpty
  <2> QED BY <1>2, <2>3, <2>4
<1> QED BY <1>0, <1>1, <1>4, <1>5, <1>6 DEF LogContents

LEMMA ContentsFlush ==
  ASSUME LogAssumption, LogTyped, LogTyped', LogModes, LogContents, LogFlush
  PROVE  LogContents'
<1>0. /\ Flusher \in LogThread /\ Filed' = Filed /\ UNCHANGED <<usage, entered, dropped>>
      /\ logPc[Flusher] = "idle" /\ logPc' = [logPc EXCEPT ![Flusher] = "check"]
      /\ hand' = [hand EXCEPT ![Flusher] = cache] /\ cache' = <<>> /\ cache # <<>>
  BY DEF LogFlush, LogThread, fileVars, Filed
<1>1. /\ InHand(Flusher) = <<>> /\ InHand(Flusher)' = cache
      /\ \A u \in LogThread : u # Flusher => InHand(u)' = InHand(u)
  <2>1. /\ logPc'[Flusher] = "check" /\ hand'[Flusher] = cache
        /\ \A u \in LogThread : u # Flusher => logPc'[u] = logPc[u] /\ hand'[u] = hand[u]
    BY <1>0 DEF LogTyped, Hands
  <2> QED BY <1>0, <2>1 DEF InHand
<1>2. Sound(Filed, AllHands, cache, entered, dropped)
  BY DEF LogContents
<1>3. Sound(Filed, AllHands', <<>>, entered, dropped)
  BY <1>0, <1>1, <1>2, HandsAre, HandsAfter, SoundFlush
<1>4. ASSUME usage # "mixed"
      PROVE  OthersEmpty(Flusher)' /\ Straight(Filed, InHand(Flusher)', <<>>, entered, dropped)
  <2>1. usage = "async"
    BY <1>0, <1>4 DEF LogModes
  <2>2. OthersEmpty(Flusher)
    BY <1>4, <2>1, LogAlone, HandsAre DEF OthersEmpty, LogThread
  <2>3. Straight(Filed, InHand(Flusher), cache, entered, dropped)
    BY <1>0, <1>4, <2>2, ThroughHim
  <2>4. cache \in Seq(Line)
    BY <1>2 DEF Sound
  <2>5. Straight(Filed, cache, <<>>, entered, dropped)
    BY <1>1, <2>3, <2>4, StraightFlush
  <2> QED BY <1>1, <2>2, <2>5 DEF OthersEmpty
<1> QED BY <1>0, <1>3, <1>4 DEF LogContents

LEMMA ContentsClear ==
  ASSUME LogTyped, LogContents, UNCHANGED <<usage, entered, hand, logPc>>, Filed' = Filed,
         cache' = <<>>, dropped' = dropped \cup ToSet(cache)
  PROVE  LogContents'
<1>1. \A u \in LogThread : InHand(u)' = InHand(u)
  BY DEF InHand
<1>2. AllHands' = AllHands
  BY <1>1 DEF AllHands
<1>3. Sound(Filed, AllHands, cache, entered, dropped)
  BY DEF LogContents
<1>4. Sound(Filed, AllHands, <<>>, entered, dropped \cup ToSet(cache))
  BY <1>3, SoundClear
<1>5. ASSUME usage # "mixed"
      PROVE  \E u \in LogThread : /\ OthersEmpty(u)'
                                  /\ Straight(Filed, InHand(u)', <<>>, entered, dropped \cup ToSet(cache))
  <2>1. PICK u \in LogThread : OthersEmpty(u) /\ Straight(Filed, InHand(u), cache, entered, dropped)
    BY <1>5 DEF LogContents
  <2>2. /\ Filed \in Seq(Line) /\ InHand(u) \in Seq(Line) /\ cache \in Seq(Line)
        /\ entered \in Seq(Line) /\ Apart(Filed, cache) /\ Apart(InHand(u), cache)
    BY <1>3, HandsAre DEF Sound, Separate
  <2>3. Straight(Filed, InHand(u), <<>>, entered, dropped \cup ToSet(cache))
    BY <2>1, <2>2, StraightClear
  <2>4. OthersEmpty(u)'
    BY <1>1, <2>1 DEF OthersEmpty
  <2> QED BY <1>1, <2>3, <2>4
<1> QED BY <1>2, <1>4, <1>5 DEF LogContents

\* The first line in hand leaves it.
LEMMA HandShorter ==
  ASSUME LogTyped, NEW t \in LogThread, logPc[t] \in LogWriting, hand[t] # <<>>,
         logPc' = [logPc EXCEPT ![t] = "check"], hand' = [hand EXCEPT ![t] = Tail(@)]
  PROVE  /\ InHand(t) = hand[t] /\ InHand(t)' = Tail(hand[t])
         /\ \A u \in LogThread : u # t => InHand(u)' = InHand(u)
<1>1. /\ logPc'[t] = "check" /\ hand'[t] = Tail(hand[t])
      /\ \A u \in LogThread : u # t => logPc'[u] = logPc[u] /\ hand'[u] = hand[u]
  BY DEF LogTyped, Hands
<1> QED BY <1>1 DEF InHand, LogWriting, Opening

LEMMA ContentsGiveUp ==
  ASSUME LogAssumption, LogTyped, LogTyped', LogModes, LogContents,
         NEW t \in LogThread, logPc[t] \in LogWriting, hand[t] # <<>>,
         logPc' = [logPc EXCEPT ![t] = "check"], GiveUp(t),
         UNCHANGED <<usage, cache, entered>>, Filed' = Filed
  PROVE  LogContents'
<1>1. hand' = [hand EXCEPT ![t] = Tail(@)] /\ dropped' = dropped \cup {Head(hand[t])}
  BY DEF GiveUp
<1>2. /\ InHand(t) = hand[t] /\ InHand(t)' = Tail(hand[t])
      /\ \A u \in LogThread : u # t => InHand(u)' = InHand(u)
  BY <1>1, HandShorter
<1>3. Sound(Filed, AllHands, cache, entered, dropped)
  BY DEF LogContents
<1>4. AllHands[t] = hand[t] /\ AllHands'[t] = Tail(hand[t])
      /\ \A u \in LogThread : u # t => AllHands'[u] = AllHands[u]
  BY <1>2, HandsAre, HandsAfter
<1>5. Sound(Filed, AllHands', cache, entered, dropped \cup {Head(hand[t])})
  BY <1>3, <1>4, HandsAfter, SoundGiveUp
<1>6. ASSUME usage # "mixed"
      PROVE  OthersEmpty(t)' /\ Straight(Filed, InHand(t)', cache, entered, dropped \cup {Head(hand[t])})
  <2>1. OthersEmpty(t)
    BY <1>6, OneHand
  <2>2. Straight(Filed, hand[t], cache, entered, dropped)
    BY <1>2, <1>6, <2>1, ThroughHim
  <2>3. /\ Filed \in Seq(Line) /\ hand[t] \in Seq(Line) /\ cache \in Seq(Line)
        /\ entered \in Seq(Line) /\ Once(hand[t]) /\ Apart(Filed, hand[t]) /\ Apart(hand[t], cache)
    BY <1>3, <1>4 DEF Sound, Separate, Hands
  <2>4. Straight(Filed, Tail(hand[t]), cache, entered, dropped \cup {Head(hand[t])})
    BY <2>2, <2>3, StraightGiveUp
  <2> QED BY <1>2, <2>1, <2>4 DEF OthersEmpty
<1> QED BY <1>1, <1>5, <1>6 DEF LogContents

LEMMA ContentsWrite ==
  ASSUME LogAssumption, LogTyped, LogTyped', LogModes, LogContents,
         NEW t \in LogThread, logPc[t] \in LogWriting, hand[t] # <<>>,
         logPc' = [logPc EXCEPT ![t] = "check"], hand' = [hand EXCEPT ![t] = Tail(@)],
         UNCHANGED <<usage, cache, entered, dropped>>,
         Filed' = Append(Filed, Head(hand[t]))
  PROVE  LogContents'
<1>2. /\ InHand(t) = hand[t] /\ InHand(t)' = Tail(hand[t])
      /\ \A u \in LogThread : u # t => InHand(u)' = InHand(u)
  BY HandShorter
<1>3. Sound(Filed, AllHands, cache, entered, dropped)
  BY DEF LogContents
<1>4. AllHands[t] = hand[t] /\ AllHands'[t] = Tail(hand[t])
      /\ \A u \in LogThread : u # t => AllHands'[u] = AllHands[u]
  BY <1>2, HandsAre, HandsAfter
<1>5. Sound(Filed \o <<Head(hand[t])>>, AllHands', cache, entered, dropped)
  BY <1>3, <1>4, HandsAfter, SoundWrite
<1>6. /\ Filed \in Seq(Line) /\ hand[t] \in Seq(Line) /\ cache \in Seq(Line)
      /\ Filed' = Filed \o <<Head(hand[t])>>
  <2>1. Filed \in Seq(Line) /\ hand[t] \in Seq(Line) /\ cache \in Seq(Line)
    BY <1>3, <1>4 DEF Sound, Hands
  <2>2. Head(hand[t]) \in Line
    BY <2>1
  <2> QED BY <2>1, <2>2, HeldAppend
<1>7. ASSUME usage # "mixed"
      PROVE  OthersEmpty(t)' /\ Straight(Filed \o <<Head(hand[t])>>, InHand(t)', cache, entered, dropped)
  <2>1. OthersEmpty(t)
    BY <1>7, OneHand
  <2>2. Straight(Filed, hand[t], cache, entered, dropped)
    BY <1>2, <1>7, <2>1, ThroughHim
  <2>3. Straight(Filed \o <<Head(hand[t])>>, Tail(hand[t]), cache, entered, dropped)
    BY <1>6, <2>2, StraightWrite
  <2> QED BY <1>2, <2>1, <2>3 DEF OthersEmpty
<1> QED BY <1>5, <1>6, <1>7 DEF LogContents

LEMMA LogContentsStep ==
  ASSUME LogAssumption, LogTyped, LogTyped', LogFresh, LogModes, LogOneFile, LogContents,
         Len(opened) <= 1, Len(opened') <= 1, alive, LogNext
  PROVE  LogContents'
<1>0. /\ Flusher \in LogThread /\ \A t \in Printers : t \in LogThread
      /\ NoFd # 1
  BY DEF LogThread, LogTyped, LogAssumption
<1>1. ASSUME NEW t \in Printers, LogPrint(t) PROVE LogContents'
  <2>1. /\ UNCHANGED <<usage, cache, entered, dropped, Filed>> /\ logPc[t] = "idle"
        /\ \E p \in {"insert", "enter"} : logPc' = [logPc EXCEPT ![t] = p]
        /\ \E l : hand' = [hand EXCEPT ![t] = l]
    BY <1>1 DEF LogPrint, fileVars, Filed
  <2>2. /\ logPc'[t] \in {"insert", "enter"}
        /\ \A u \in LogThread : u # t => logPc'[u] = logPc[u] /\ hand'[u] = hand[u]
    BY <1>0, <2>1 DEF LogTyped, Hands
  <2>3. \A u \in LogThread : InHand(u)' = InHand(u)
    BY <2>1, <2>2 DEF InHand
  <2> QED BY <2>1, <2>3, ContentsSame
<1>2. ASSUME NEW t \in LogThread, LogDone(t) PROVE LogContents'
  <2>1. /\ UNCHANGED <<usage, cache, entered, dropped, Filed, hand>> /\ hand[t] = <<>>
        /\ logPc' = [logPc EXCEPT ![t] = "idle"]
    BY <1>2 DEF LogDone, Io, fileVars, Filed
  <2>2. logPc'[t] = "idle" /\ \A u \in LogThread : u # t => logPc'[u] = logPc[u]
    BY <2>1 DEF LogTyped
  <2>3. \A u \in LogThread : InHand(u)' = InHand(u)
    BY <2>1, <2>2 DEF InHand
  <2> QED BY <2>1, <2>3, ContentsSame
<1>3. ASSUME NEW t \in LogThread, logPc[t] \in LogWriting,
             UNCHANGED <<usage, cache, entered, dropped, Filed, hand>>,
             \E p \in LogWriting : logPc' = [logPc EXCEPT ![t] = p]
      PROVE  LogContents'
  <2>1. logPc'[t] \in LogWriting /\ \A u \in LogThread : u # t => logPc'[u] = logPc[u]
    BY <1>3 DEF LogTyped
  <2>2. \A u \in LogThread : InHand(u)' = InHand(u)
    BY <1>3, <2>1 DEF InHand, LogWriting, Opening
  <2> QED BY <1>3, <2>2, ContentsSame
<1>4. ASSUME NEW t \in LogThread, LogCheck(t) \/ LogClose(t) \/ LogSet(t) \/ LogLoadFd(t)
      PROVE  LogContents'
  <2>1. /\ UNCHANGED <<usage, cache, entered, dropped, Filed, hand>> /\ logPc[t] \in LogWriting
        /\ \E p \in LogWriting : logPc' = [logPc EXCEPT ![t] = p]
    BY <1>4 DEF LogCheck, LogClose, LogSet, LogLoadFd, Io, LogWriting, Opening, fileVars, Filed
  <2> QED BY <1>3, <2>1
<1>5. ASSUME NEW t \in LogThread,
             \/ LogRotate(t) \/ LogLoadSeq(t) \/ LogRaise(t) \/ LogOpen(t) \/ LogLower(t)
      PROVE  LogContents'
  <2>1. logPc[t] \in LogWriting /\ hand[t] # <<>> /\ UNCHANGED <<usage, cache, entered, files>>
    BY <1>5 DEF LogRotate, LogLoadSeq, LogRaise, LogOpen, LogLower, Io, LogWriting, Opening, LogTyped
  <2>2. \/ /\ UNCHANGED <<dropped, hand>>
           /\ \E p \in LogWriting : logPc' = [logPc EXCEPT ![t] = p]
        \/ GiveUp(t) /\ logPc' = [logPc EXCEPT ![t] = "check"]
    BY <1>5 DEF LogRotate, LogLoadSeq, LogRaise, LogOpen, LogLower, Io, LogWriting, Opening
  <2>3. Filed' = Filed
    <3>1. CASE LogRotate(t) \/ LogLoadSeq(t) \/ LogRaise(t) \/ LogLower(t)
      BY <3>1 DEF LogRotate, LogLoadSeq, LogRaise, LogLower, Filed
    <3>2. CASE LogOpen(t) /\ opened' = opened
      BY <2>1, <3>2 DEF Filed
    <3>3. CASE LogOpen(t) /\ opened' # opened
      <4>1. opened' = Append(opened, path[t]) /\ path[t] \in Segments /\ opened \in Seq(Segments)
        BY <3>3 DEF LogOpen, LogTyped
      <4>2. opened = <<>>
        BY <4>1, FirstOpened
      <4>3. opened' # <<>> /\ opened'[1] = path[t]
        BY <4>1, <4>2, FirstOpened
      <4>4. files'[path[t]] = <<>>
        BY <2>1, <4>1, <4>2 DEF LogOneFile, NeverOpened
      <4> QED BY <4>2, <4>3, <4>4 DEF Filed
    <3> QED BY <1>5, <3>1, <3>2, <3>3
  <2>4. CASE UNCHANGED <<dropped, hand>> /\ \E p \in LogWriting : logPc' = [logPc EXCEPT ![t] = p]
    BY <1>3, <2>1, <2>3, <2>4
  <2>5. CASE GiveUp(t) /\ logPc' = [logPc EXCEPT ![t] = "check"]
    BY <2>1, <2>3, <2>5, ContentsGiveUp
  <2> QED BY <2>2, <2>4, <2>5
<1>10. ASSUME NEW t \in LogThread, LogIo(t) PROVE LogContents'
  <2>1. /\ logPc[t] \in LogWriting /\ hand[t] # <<>> /\ UNCHANGED <<usage, cache, entered, opened>>
        /\ logPc[t] = "io" /\ logPc' = [logPc EXCEPT ![t] = "check"]
    BY <1>10 DEF LogIo, Io, LogWriting, Opening, LogTyped
  <2>2. CASE GiveUp(t) /\ files' = files
    <3>1. Filed' = Filed
      BY <2>1, <2>2 DEF Filed
    <3> QED BY <2>1, <2>2, <3>1, ContentsGiveUp
  <2>3. CASE /\ UNCHANGED dropped /\ hand' = [hand EXCEPT ![t] = Tail(@)]
             /\ files' = IF got[t] \in DOMAIN fds
                           THEN [files EXCEPT ![fds[got[t]]] = Append(@, Head(hand[t]))]
                           ELSE files
    <3>1. opened # <<>> /\ OneFile
      BY <2>1 DEF LogOneFile, NoFile
    <3>2. DOMAIN fds = {1} /\ fds[1] = opened[1] /\ got[t] = 1
      BY <1>0, <2>1, <3>1 DEF OneFile
    <3>3. opened[1] \in Segments /\ DOMAIN files = Segments
      BY <3>1, FirstOpened DEF LogTyped
    <3>4. files' = [files EXCEPT ![opened[1]] = Append(@, Head(hand[t]))]
      BY <2>3, <3>2
    <3>5. Filed' = Append(Filed, Head(hand[t]))
      BY <2>1, <3>1, <3>3, <3>4 DEF Filed
    <3> QED BY <2>1, <2>3, <3>5, ContentsWrite
  <2> QED BY <1>10, <2>2, <2>3 DEF LogIo
<1>6. CASE LogClear \/ LogDestroy
  BY <1>6, ContentsClear DEF LogClear, LogDestroy, fileVars, Filed
<1>7. CASE LogToggle
  <2>1. UNCHANGED <<usage, cache, entered, dropped, Filed, hand, logPc>>
    BY <1>7 DEF LogToggle, fileVars, Filed
  <2>2. \A u \in LogThread : InHand(u)' = InHand(u)
    BY <2>1 DEF InHand
  <2> QED BY <2>1, <2>2, ContentsSame
<1>8. CASE LogFlush
  BY <1>8, ContentsFlush
<1>9. ASSUME NEW t \in Printers, LogInsert(t) \/ LogEnter(t) PROVE LogContents'
  BY <1>9, ContentsInsert, ContentsEnter
<1> QED BY <1>1, <1>2, <1>4, <1>5, <1>10, <1>6, <1>7, <1>8, <1>9 DEF LogNext, LogStep

LEMMA LogStepInv == ASSUME LogAssumption, LogInv, [LogNext]_logVars PROVE LogInv'
<1>1. LogTyped /\ LogFresh /\ LogModes /\ LogFirst /\ opened \in Seq(Segments)
  BY DEF LogInv, LogTyped
<1>2. LogTyped' /\ LogFresh' /\ LogModes'
  BY <1>1, LogTypedStep, LogFreshStep, LogModesStep
<1>3. CASE UNCHANGED logVars
  <2>1. UNCHANGED <<usage, alive, cache, fd, seq, fds, files, logPc, hand, path, num, got, entered, dropped, opened>>
    BY <1>3 DEF logVars
  <2>2. Filed' = Filed /\ \A t \in LogThread : InHand(t)' = InHand(t)
    BY <2>1 DEF Filed, InHand
  <2>3. LogOneFile => LogOneFile'
    BY <2>1, OneFileSame
  <2>4. LogContents => LogContents'
    BY <2>1, <2>2, ContentsSame
  <2>5. LogFirst'
    BY <1>1, <2>1, FirstSame
  <2> QED BY <1>2, <2>1, <2>3, <2>4, <2>5 DEF LogInv
<1>4. CASE LogNext
  <2>1. alive /\ usage' = usage
    BY <1>4 DEF LogNext, LogStep, LogPrint, LogInsert, LogEnter, LogFlush, LogClear, LogToggle,
                LogDone, LogCheck, LogRotate, LogLoadSeq, LogRaise, LogOpen, LogLower, LogClose,
                LogSet, LogLoadFd, LogIo, Io, LogDestroy
  <2>2. LogFirst'
    <3>1. CASE usage # "mixed"
      <4>1. Len(opened) <= 1
        <5>1. opened = <<>> \/ opened = <<0>>
          BY <1>1, <3>1 DEF LogFirst
        <5> QED BY <5>1, ShortOnes DEF ShortAre
      <4> QED BY <1>1, <1>4, <2>1, <3>1, <4>1, LogFirstStep DEF LogInv
    <3>2. CASE usage = "mixed"
      BY <2>1, <3>2 DEF LogFirst
    <3> QED BY <3>1, <3>2
  <2>3. ASSUME Len(opened') <= 1 PROVE LogOneFile' /\ LogContents'
    <3>1. Len(opened) <= 1
      <4>1. OpenedKeeps
        BY <1>4, OpenedStep
      <4>2. \A t \in LogThread : path[t] \in Segments
        BY <1>1 DEF LogTyped
      <4> QED BY <1>1, <2>3, <4>1, <4>2, FirstOpened DEF OpenedKeeps
    <3>2. LogOneFile /\ LogContents
      BY <3>1 DEF LogInv
    <3>3. LogOneFile'
      BY <1>1, <1>4, <2>1, <2>3, <3>2, LogOneFileStep
    <3>4. LogContents'
      BY <1>1, <1>2, <1>4, <2>1, <2>3, <3>1, <3>2, LogContentsStep
    <3> QED BY <3>3, <3>4
  <2> QED BY <1>2, <2>2, <2>3 DEF LogInv
<1> QED BY <1>3, <1>4

\* What is in all the segments is what is in the one that was opened.
LEMMA FiledAll ==
  ASSUME LogTyped, LogOneFile, Len(opened) <= 1
  PROVE  InFiles = ToSet(Filed)
<1>1. ToSet(<<>>) = {} /\ (opened # <<>> => opened[1] \in Segments)
  BY HeldEmpty, FirstOpened DEF LogTyped
<1>2. CASE opened = <<>>
  <2>1. \A s \in Segments : files[s] = <<>>
    BY <1>2 DEF LogOneFile, NeverOpened
  <2>2. \A s \in Segments : ToSet(files[s]) = {}
    BY <1>1, <2>1
  <2>3. ToSet(Filed) = {}
    BY <1>1, <1>2 DEF Filed
  <2> QED BY <2>2, <2>3 DEF InFiles
<1>3. CASE opened # <<>>
  <2>1. opened[1] \in Segments /\ Filed = files[opened[1]]
    BY <1>1, <1>3 DEF Filed
  <2>2. \A s \in Segments : s # opened[1] => ToSet(files[s]) = {}
    BY <1>1, <1>3 DEF LogOneFile, NeverOpened
  <2> QED BY <2>1, <2>2 DEF InFiles
<1> QED BY <1>2, <1>3

LEMMA LogInvKeepsLines == ASSUME LogAssumption, LogInv PROVE LogKeepsLines
<1>0. LogTyped /\ LogFirst /\ 0 \in Segments
  BY DEF LogInv, LogAssumption, Segments
<1>1. CASE usage # "mixed"
  <2>0. opened \in {<<>>, <<0>>} /\ Len(opened) <= 1
    <3>1. opened = <<>> \/ opened = <<0>>
      BY <1>0, <1>1 DEF LogFirst
    <3> QED BY <3>1, ShortOnes DEF ShortAre
  <2>1. LogOneFile /\ LogContents
    BY <2>0 DEF LogInv
  <2>2. Cardinality(DOMAIN fds) <= 1
    <3>1. DOMAIN fds = {} \/ DOMAIN fds = {1}
      BY <2>1 DEF LogOneFile
    <3>2. Cardinality({}) = 0 /\ Cardinality({1}) = 1
      BY FS_EmptySet, FS_Singleton
    <3> QED BY <3>1, <3>2
  <2>3. PICK t \in LogThread : OthersEmpty(t) /\ Straight(Filed, InHand(t), cache, entered, dropped)
    BY <1>1, <2>1 DEF LogContents
  <2>4. Filed = files[0]
    <3>1. opened = <<>> => files[0] = <<>>
      BY <1>0, <2>1 DEF LogOneFile, NeverOpened
    <3>2. opened = <<0>> => opened[1] = 0 /\ opened # <<>>
      BY ShortOnes DEF ShortAre
    <3> QED BY <2>0, <3>1, <3>2 DEF Filed
  <2>5. PICK f, h, c : f = Filed /\ h = InHand(t) /\ c = cache
    OBVIOUS
  <2>6. f \in Seq(Line) /\ h \in Seq(Line) /\ c \in Seq(Line)
    BY <2>1, <2>5, HandsAre DEF LogContents, Sound, LogInv
  <2>7. Groups(f, h, c)
    BY <2>6, HeldAssoc
  <2>8. files[0] \o InHand(t) \o cache = Only(entered, Line \ dropped)
    BY ONLY <2>3, <2>4, <2>5, <2>7 DEF Straight, Groups
  <2>9. \A o \in LogThread \ {t} : InHand(o) = <<>>
    BY <2>3 DEF OthersEmpty
  <2> QED BY <1>1, <2>0, <2>2, <2>8, <2>9 DEF LogKeepsLines
<1>2. CASE usage = "mixed"
  <2>1. ASSUME Len(opened) <= 1
        PROVE  ToSet(entered) \ dropped = (ToSet(cache) \cup InFiles) \cup InHands
    <3>1. LogOneFile /\ Sound(Filed, AllHands, cache, entered, dropped)
      BY <2>1 DEF LogInv, LogContents
    <3>2. HeldBy(Filed, AllHands, cache) = ToSet(entered) \ dropped
      BY <3>1 DEF Sound
    <3>3. InFiles = ToSet(Filed)
      BY <1>0, <2>1, <3>1, FiledAll
    <3>4. {ToSet(AllHands[t]) : t \in LogThread} = {ToSet(InHand(t)) : t \in LogThread}
      BY HandsAre
    <3>5. HeldBy(Filed, AllHands, cache) = (ToSet(Filed) \cup ToSet(cache)) \cup InHands
      BY <3>4 DEF HeldBy, InHands
    <3>6. (ToSet(Filed) \cup ToSet(cache)) \cup InHands = (ToSet(cache) \cup ToSet(Filed)) \cup InHands
      OBVIOUS
    <3>7. (ToSet(Filed) \cup ToSet(cache)) \cup InHands = (ToSet(cache) \cup InFiles) \cup InHands
      BY ONLY <3>3, <3>6, Zenon
    <3> QED BY ONLY <3>2, <3>5, <3>7, Zenon
  <2> QED BY <1>2, <2>1 DEF LogKeepsLines
<1> QED BY <1>1, <1>2

\* While the log is used one way only, the file, the hands of the one thread
\* that writes and the cache hold, in the order of m_lock, the lines that were
\* entered and not given up, and only the first segment is ever opened, though
\* its number is raised before the open and lowered where that fails
\* (log.c:49-57); used both ways, no line is lost as long as a file is opened
\* only once.
THEOREM LogIsKept == LogSpec => []LogKeepsLines
<1>1. LogInit => LogInv
  BY LogAssumption, LogInitInv
<1>2. LogInv /\ [LogNext]_logVars => LogInv'
  BY LogAssumption, LogStepInv
<1>3. LogInv => LogKeepsLines
  BY LogAssumption, LogInvKeepsLines
<1> QED BY <1>1, <1>2, <1>3, PTL DEF LogSpec
=============================================================================
