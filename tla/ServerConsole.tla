---------------------------- MODULE ServerConsole ----------------------------
(***************************************************************************)
(* The command thread of TinyServer (ThreadsManager.c and the console part *)
(* of Tools.c), next to a main thread that goes on changing g_clients.     *)
(* The two share g_clients and s_exitFlag without a lock, so the command   *)
(* thread's accesses are separate steps here, down to the load of the      *)
(* buffer pointer and the read through it.  Of the main thread's, the      *)
(* writes of len, a new slot and a new buffer are told apart; the shift of *)
(* a whole compaction (Tools.c:77-86) is one step, and so is realloc with  *)
(* the two stores after it (dynarr.c:14-19): inside them all slots below   *)
(* len stay written, and nobody reads the capacity.                        *)
(*                                                                         *)
(* realloc gives g_clients a new buffer each time it grows, by one slot:   *)
(* the buffer with k slots is the k-th one, and stands for its pointer.    *)
(***************************************************************************)
EXTENDS Integers, Sequences, SequencesExt

CONSTANTS Names,      \* what the operator may type as a path
          Missing,    \* those of them that fopen() cannot open
          Junk,       \* an unwritten buffer
          MaxFd,      \* bound on the descriptors the main thread accepts
          MaxChosen   \* bound on the names typed between two sends

ASSUME ConsoleAssumption == /\ Missing \subseteq Names /\ MaxFd \in Nat /\ MaxChosen \in Nat
                            /\ Junk \notin 1 .. MaxFd

Fds == 1 .. MaxFd

D == INSTANCE DynArr WITH Val <- Fds

VARIABLES
  at,        \* command thread: the scanf() or loop it is in
  word,      \* sendBuf, the last command word
  path,      \* the one path buffer of the thread
  sof,       \* setOfFileAndDir: pointers to paths
  i, s,      \* counters of scanFilesAndSend and scanFileAndSend
  bound,     \* the clients->len that s was last compared with
  held,      \* the clients->buf the thread has loaded
  seen,      \* what it last read through it
  exitFlag,  \* s_exitFlag
  mt,        \* where the main thread is in a turn of its loop
  clients,   \* g_clients
  freshFd,   \* the next descriptor accept() returns
  opened,    \* the names passed to fopen() by the last S
  chosen     \* the names the operator gave since the last S

conVars  == <<at, word, path, sof, i, s, bound, held, seen, opened, chosen>>
mainVars == <<mt, clients, freshFd>>
vars     == <<conVars, exitFlag, mainVars>>

Words == {"E", "L", "C", "S", "exit"}

Init ==
  /\ at = "cmd" /\ word = "none" /\ path = Junk /\ sof = <<>>
  /\ i = 0 /\ s = 0 /\ bound = 0 /\ held = 0 /\ seen = Junk
  /\ exitFlag = FALSE /\ opened = <<>> /\ chosen = <<>>
  /\ mt = "test" /\ clients = D!InitZero /\ freshFd = 1

Alive == mt # "exited"

-----------------------------------------------------------------------------
(* The command thread, until the process ends. *)

\* One word is read and dispatched; what is not a command prints the help.
ReadWord ==
  /\ at = "cmd"
  /\ word' \in {w \in Words : w = "C" => Len(sof) < MaxChosen}
  /\ exitFlag' = (exitFlag \/ word' = "E")
  /\ at' = CASE word' = "L" -> "dir" [] word' = "C" -> "file"
             [] word' = "S" -> "files" [] OTHER -> "cmd"
  /\ i' = 0
  /\ opened' = IF word' = "S" THEN <<>> ELSE opened
  /\ UNCHANGED <<path, sof, s, bound, held, seen, chosen, mainVars>>

\* showTerminalPath builds its shell command in the path buffer.
ReadDir ==
  /\ at = "dir"
  /\ path' = "ls" /\ at' = "cmd"
  /\ UNCHANGED <<word, sof, i, s, bound, held, seen, exitFlag, opened, chosen, mainVars>>

\* selcFileToSend reads one name into the path buffer and lists the buffer.
ReadName ==
  /\ at = "file"
  /\ path' \in Names /\ at' = "cmd"
  /\ sof' = Append(sof, "path")
  /\ chosen' = Append(chosen, path')
  /\ UNCHANGED <<word, i, s, bound, held, seen, exitFlag, opened, mainVars>>

\* The names behind the list's pointers.
Deref(p) == IF p = "path" THEN path ELSE Junk

\* scanFileAndSend opens the file; a failure is logged and the next one tried.
OpenFile ==
  /\ at = "files" /\ i < Len(sof)
  /\ opened' = Append(opened, Deref(sof[i + 1]))
  /\ IF Deref(sof[i + 1]) \in Names \ Missing
       THEN at' = "walk" /\ s' = 0 /\ UNCHANGED i
       ELSE at' = "files" /\ i' = i + 1 /\ UNCHANGED s
  /\ UNCHANGED <<word, path, sof, bound, held, seen, exitFlag, chosen, mainVars>>

\* Mutant: the list is not emptied.
FilesDoneKept ==
  /\ at = "files" /\ i >= Len(sof)
  /\ chosen' = <<>> /\ at' = "cmd"
  /\ UNCHANGED <<word, path, sof, i, s, bound, held, seen, exitFlag, opened, mainVars>>

FilesDone ==
  /\ at = "files" /\ i >= Len(sof)
  /\ sof' = <<>> /\ chosen' = <<>> /\ at' = "cmd"
  /\ UNCHANGED <<word, path, i, s, bound, held, seen, exitFlag, opened, mainVars>>

\* Mutant: off by one.
MoreClientsThanThere == s <= clients.len

MoreClients == s < clients.len

\* The loop over the clients: s is compared with clients->len, clients->buf is
\* loaded, the element is read and logged.
WalkTest ==
  /\ at = "walk"
  /\ bound' = clients.len
  /\ IF MoreClients THEN at' = "load" /\ UNCHANGED i
     ELSE at' = "files" /\ i' = i + 1
  /\ UNCHANGED <<word, path, sof, s, held, seen, exitFlag, opened, chosen, mainVars>>

WalkLoad ==
  /\ at = "load"
  /\ held' = clients.cap /\ at' = "read"
  /\ UNCHANGED <<word, path, sof, i, s, bound, seen, exitFlag, opened, chosen, mainVars>>

\* A buffer that was freed in the meantime may read as anything.
WalkRead ==
  /\ at = "read"
  /\ IF held = clients.cap THEN seen' = clients.buf[s] ELSE seen' \in Fds \cup {Junk}
  /\ s' = s + 1 /\ at' = "walk"
  /\ UNCHANGED <<word, path, sof, i, bound, held, exitFlag, opened, chosen, mainVars>>

Console == /\ Alive
           /\ \/ ReadWord \/ ReadDir \/ ReadName \/ OpenFile \/ FilesDone
              \/ WalkTest \/ WalkLoad \/ WalkRead

-----------------------------------------------------------------------------
(* The main thread, as far as it touches what is shared. *)

\* while (!s_exitFlag): a turn of the loop may accept a client and may find one
\* exited; the process ends when the loop does.
MainTest ==
  /\ mt = "test"
  /\ mt' = IF exitFlag THEN "exited" ELSE "accept"
  /\ UNCHANGED <<conVars, exitFlag, clients, freshFd>>

\* Mutants: the buffer does not grow; a slot too many is reserved, and counted.
GrownNot(a) == D!Reserve(a, a.len)
GrownAndCounted(a) == [D!Reserve(a, a.len + 2) EXCEPT !.len = a.len + 1]

Grown(a) == D!Reserve(a, a.len + 1)

\* dynarrInsert of an accepted client: the buffer grows (realloc, buf and
\* capacity at once), the slot is written, and the length is increased last.
Grow ==
  /\ mt = "accept"
  /\ \/ /\ freshFd <= MaxFd
        /\ clients' = Grown(clients) /\ mt' = "grown"
     \/ UNCHANGED clients /\ mt' = "filter"
  /\ UNCHANGED <<conVars, exitFlag, freshFd>>

WriteSlot ==
  /\ mt = "grown"
  /\ clients' = [clients EXCEPT !.buf[clients.len] = freshFd]
  /\ freshFd' = freshFd + 1 /\ mt' = "written"
  /\ UNCHANGED <<conVars, exitFlag>>

CountSlot ==
  /\ mt = "written"
  /\ clients' = [clients EXCEPT !.len = @ + 1]
  /\ mt' = "filter"
  /\ UNCHANGED <<conVars, exitFlag, freshFd>>

\* extClientFilter takes an exited client out: a shift (of all elements at
\* once), then a cut.
Squeeze ==
  /\ mt = "filter"
  /\ \/ /\ mt' = "shifted"
        /\ \E k \in 0 .. clients.len - 1 :
             clients' = [D!RemoveIdx(clients, k) EXCEPT !.len = clients.len]
     \/ UNCHANGED clients /\ mt' = "test"
  /\ UNCHANGED <<conVars, exitFlag, freshFd>>

Cut ==
  /\ mt = "shifted"
  /\ clients' = D!Resize(clients, clients.len - 1)
  /\ mt' = "test"
  /\ UNCHANGED <<conVars, exitFlag, freshFd>>

Main == MainTest \/ Grow \/ WriteSlot \/ CountSlot \/ Squeeze \/ Cut

Next == Console \/ Main

Spec == Init /\ [][Next]_vars

-----------------------------------------------------------------------------

TypeOK ==
  /\ at \in {"cmd", "dir", "file", "files", "walk", "load", "read"}
  /\ word \in Words \cup {"none"}
  /\ path \in Names \cup {Junk, "ls"}
  /\ sof \in Seq({"path"})
  /\ {i, s, bound, held} \subseteq Nat
  /\ seen \in Fds \cup {Junk}
  /\ exitFlag \in BOOLEAN
  /\ mt \in {"test", "accept", "grown", "written", "filter", "shifted", "exited"}
  /\ D!IsDynArr(clients) /\ freshFd \in Nat
  /\ opened \in Seq(Names \cup {Junk, "ls"}) /\ chosen \in Seq(Names)

\* The console reads the list of clients without a lock.  Whatever the main thread
\* did since the length was tested, the buffer that is then loaded has a slot s
\* (Tools.c:131-133 against dynarr.c:12-30); and while it still is the current
\* one, the slot was written: the length is raised after the slot is
\* (dynarr.h:62-76).
WalkReadsWritten ==
  at = "read" => /\ s < held
                 /\ held = clients.cap => clients.buf[s] # Junk

\* The list holds one entry for every name typed since the last send, each of
\* them the one path buffer, so a send opens as many files, all the same and the
\* last thing put in that buffer (Tools.c:99-104, 139-146).
ListMatchesChosen ==
  /\ Len(sof) = Len(chosen)
  /\ at \in {"files", "walk", "load", "read"} =>
       /\ \A k \in 1 .. Len(opened) : opened[k] = path
       /\ Len(opened) = IF at = "files" THEN i ELSE i + 1

\* The console reads what the main thread, or the operator, wrote.
ConsoleReadsRight == TypeOK /\ WalkReadsWritten /\ ListMatchesChosen

\* The message of selcFileToSend asks for "paths of files to send"
\* (Tools.c:101): those are the files opened.
ChosenAreOpened == at = "files" => IsPrefix(opened, chosen)

=============================================================================
