------------------------------ MODULE ElogFile ------------------------------
(***************************************************************************)
(* components/easylogger/plugins/file/elog_file.c: a log file that is      *)
(* rotated when it has grown past its size: name.(n-1) becomes name.n, for *)
(* n from the last down, and name becomes name.0.                          *)
(*                                                                         *)
(* disk[0] is the file itself and disk[n + 1] the file name.n; sizes are   *)
(* in lines, and lines are numbered.  What fwrite was given is in memory   *)
(* until stdio writes it (ELOG_FILE_FLUSH_CACHE_ENABLE is not defined).    *)
(* Opening and renaming may fail, and the process may end at any point;    *)
(* the files stay.  The fopen() that looks for a file finds it when it is  *)
(* there, and remove() succeeds (elog_file.c:86-94).                       *)
(* The port's lock is left to be written, so one thread uses the plugin.   *)
(***************************************************************************)
EXTENDS Integers, SequencesExt

CONSTANTS Rotates,              \* values for max_rotate; it starts with the largest
          FileMax,              \* max_size
          Absent,               \* a file that does not exist
          FileMaxLines, FileMaxCrashes  \* bounds: lines, ends of the process

ASSUME RotatesAssumption == /\ Rotates \subseteq Nat \ {0} /\ FileMax \in Nat
                            /\ \E most \in Rotates : \A s \in Rotates : s <= most
                            /\ Absent \notin Seq(Nat)

Backups == 1 .. Max(Rotates)

VARIABLES disk, unflushed,      \* the files; what stdio holds back of disk[0]
          fp, maxRotate,        \* fp is open; local_cfg.max_rotate
          fileAt, moving, err,  \* where the process is; n and err of elog_file_rotate
          lines, missing,       \* observed: number of lines written; those that
                                \* ended with the process
          failed, shrunk, crashes       \* observed: a rename failed or the process
                                \* ended; max_rotate was reduced; ends so far

fileState == <<disk, unflushed, fp, maxRotate, fileAt, moving, err>>
filesVars == <<fileState, lines, missing, failed, shrunk, crashes>>
observed == <<lines, missing, failed, shrunk, crashes>>

FileInit ==
  /\ disk = [k \in {0} \cup Backups |-> Absent] /\ unflushed = <<>>
  /\ fp = FALSE /\ maxRotate = Max(Rotates)
  /\ fileAt = "down" /\ moving = 0 /\ err = FALSE
  /\ lines = 0 /\ missing = {} /\ failed = FALSE /\ shrunk = FALSE /\ crashes = 0

Text(f) == IF f = Absent THEN <<>> ELSE f

\* fopen "a+" creates the file; or it fails.
Opens == \/ fp' = TRUE /\ disk' = [disk EXCEPT ![0] = Text(@)]
         \/ fp' = FALSE /\ UNCHANGED disk

\* fclose writes what was held back, and the file is opened again.
Reopens == \/ /\ fp' = TRUE /\ unflushed' = <<>>
              /\ disk' = [disk EXCEPT ![0] = Text(@) \o unflushed]
           \/ /\ fp' = FALSE /\ unflushed' = <<>>
              /\ disk' = [disk EXCEPT ![0] = IF fp THEN Text(@) \o unflushed ELSE @]

FileStarts ==                   \* elog_file_init
  /\ fileAt = "down" /\ fileAt' = "idle"
  /\ maxRotate' = Max(Rotates) /\ Opens
  /\ UNCHANGED <<unflushed, moving, err, observed>>

FileConfig ==
  \E most \in Rotates :
    /\ fileAt = "idle" /\ Reopens
    /\ maxRotate' = most
    /\ shrunk' = (shrunk \/ most < maxRotate)
    /\ UNCHANGED <<fileAt, moving, err, lines, missing, failed, crashes>>

FileDeinit ==
  /\ fileAt = "idle" /\ fileAt' = "down"
  /\ fp' = FALSE /\ unflushed' = <<>>
  /\ disk' = [disk EXCEPT ![0] = IF fp THEN Text(@) \o unflushed ELSE @]
  /\ UNCHANGED <<maxRotate, moving, err, observed>>

\* Whatever was held back is lost; using a file that could not be opened is the
\* end, too.
Ends == /\ fileAt' = "down" /\ fp' = FALSE /\ unflushed' = <<>>
        /\ missing' = missing \cup ToSet(unflushed)
        /\ crashes' = crashes + 1 /\ failed' = TRUE
        /\ UNCHANGED <<disk, maxRotate, moving, err, lines, shrunk>>

FileCrash == fileAt # "down" /\ crashes < FileMaxCrashes /\ Ends

\* One more line, behind those held back.
Fwrite(held) == /\ unflushed' = Append(held, lines + 1) /\ lines' = lines + 1
                /\ UNCHANGED <<missing, failed, shrunk, crashes>>

\* fseek to the end, for the size, writes what is held back.
FileWrite ==
  /\ fileAt = "idle" /\ fp /\ lines < FileMaxLines
  /\ IF Len(disk[0] \o unflushed) > FileMax
       THEN /\ fileAt' = "remove" /\ moving' = maxRotate - 1 /\ err' = FALSE
            /\ fp' = FALSE /\ unflushed' = <<>>
            /\ disk' = [disk EXCEPT ![0] = @ \o unflushed]
            /\ UNCHANGED <<maxRotate, observed>>
       ELSE /\ disk' = [disk EXCEPT ![0] = @ \o unflushed]
            /\ Fwrite(<<>>) /\ UNCHANGED <<fp, maxRotate, fileAt, moving, err>>

FileWriteNull ==                \* fseek of a null pointer
  /\ fileAt = "idle" /\ ~fp /\ crashes < FileMaxCrashes /\ Ends

\* Mutant: the file before the one to make room for is removed.
RemovedFirst(k) == k

RemovedFile(k) == k + 1

RotateRemove ==
  /\ fileAt = "remove" /\ fileAt' = "rename"
  /\ disk' = [disk EXCEPT ![RemovedFile(moving)] = Absent]
  /\ UNCHANGED <<unflushed, fp, maxRotate, moving, err, observed>>

RotateRename ==
  /\ fileAt = "rename"
  /\ \/ /\ disk' = [disk EXCEPT ![moving + 1] = disk[moving], ![moving] = Absent]
        /\ fileAt' = IF moving = 0 THEN "reopen" ELSE "remove"
        /\ moving' = IF moving = 0 THEN 0 ELSE moving - 1
        /\ UNCHANGED <<err, failed>>
     \/ /\ disk[moving] # Absent
        /\ fileAt' = "reopen" /\ err' = TRUE /\ failed' = TRUE /\ moving' = 0
        /\ UNCHANGED disk
  /\ UNCHANGED <<unflushed, fp, maxRotate, lines, missing, shrunk, crashes>>

\* The file is opened again in any case; the line is dropped when a rename
\* failed.
RotateReopen ==
  /\ fileAt = "reopen" /\ Opens /\ moving' = 0 /\ err' = FALSE
  /\ IF err THEN fileAt' = "idle" /\ UNCHANGED <<unflushed, maxRotate, observed>>
     ELSE IF fp' THEN fileAt' = "idle" /\ Fwrite(unflushed) /\ UNCHANGED maxRotate
     ELSE /\ fileAt' = "down" /\ crashes' = crashes + 1 /\ failed' = TRUE
          /\ UNCHANGED <<unflushed, maxRotate, lines, missing, shrunk>>

StdioFlush ==
  /\ fileAt = "idle" /\ fp /\ unflushed # <<>>
  /\ disk' = [disk EXCEPT ![0] = @ \o unflushed] /\ unflushed' = <<>>
  /\ UNCHANGED <<fp, maxRotate, fileAt, moving, err, observed>>

FileNext ==
  \/ FileStarts \/ FileConfig \/ FileDeinit \/ FileCrash
  \/ FileWrite \/ FileWriteNull \/ RotateRemove \/ RotateRename \/ RotateReopen
  \/ StdioFlush

FileSpec == FileInit /\ [][FileNext]_filesVars

-----------------------------------------------------------------------------
\* What is in a file, or (-1) held back.
Piece(k) == IF k = -1 THEN unflushed ELSE Text(disk[k])

Pieces == -1 .. Max(Rotates)

\* The lines that are still there.
KeptLines == UNION {ToSet(Piece(k)) : k \in Pieces}

\* From the oldest file to what is held back, lines are in the order in which
\* they were written, each of them once.
InOrder ==
  \A k, j \in Pieces : \A x \in DOMAIN Piece(k), y \in DOMAIN Piece(j) :
    k > j \/ (k = j /\ x < y) => Piece(k)[x] < Piece(j)[y]

\* The files hold the last of the lines that were written, in order and without
\* a gap: through rotations that fail half-way and a process that ends in the
\* middle of one.  While neither happens, lines leave only by the oldest file,
\* when every other is full.  Reducing max_rotate leaves files behind that no
\* rotation moves (elog_file.c:82-100), which costs the lines between.
FilesKeepTheLast ==
  /\ InOrder
  /\ ~shrunk =>
       /\ \E first \in 0 .. lines : KeptLines = {l \in first + 1 .. lines : l \notin missing}
       /\ fileAt = "idle" /\ ~failed /\ KeptLines # 1 .. lines =>
            \A k \in 1 .. maxRotate : Len(Text(disk[k])) > FileMax
=============================================================================
