----------------------------- MODULE MCLoggers -----------------------------
(* The log file of utils/log.c and the synchronous parts of EasyLogger,     *)
(* side by side: they share nothing, and a behaviour uses one of them.      *)
EXTENDS TLC, Log, ElogCore, ElogBuf, ElogFile, ElogFlash

\* A dump that fits, and one whose index passes the end of its word.
MCDumps == {<<3, 2>>, <<7, 2>>}

MCSymmetry == Permutations(Printers) \cup Permutations(Loggers) \cup Permutations(Writers)

VARIABLE using

allVars == <<using, logVars, coreVars, outVars, filesVars, flashVars>>

AllInit ==
  /\ using \in {"log", "core", "buf", "file", "flash"}
  /\ LogInit /\ CoreInit /\ OutInit /\ FileInit /\ FlashInit
  /\ using # "log" => usage = "sync"

AllNext ==
  /\ UNCHANGED using
  /\ \/ using = "log" /\ LogNext /\ UNCHANGED <<coreVars, outVars, filesVars, flashVars>>
     \/ using = "core" /\ CoreNext /\ UNCHANGED <<logVars, outVars, filesVars, flashVars>>
     \/ using = "buf" /\ OutNext /\ UNCHANGED <<logVars, coreVars, filesVars, flashVars>>
     \/ using = "file" /\ FileNext /\ UNCHANGED <<logVars, coreVars, outVars, flashVars>>
     \/ using = "flash" /\ FlashNext /\ UNCHANGED <<logVars, coreVars, outVars, filesVars>>

AllSpec == AllInit /\ [][AllNext]_allVars
=============================================================================
