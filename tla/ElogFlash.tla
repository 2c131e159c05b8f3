------------------------------ MODULE ElogFlash ------------------------------
(***************************************************************************)
(* components/easylogger/plugins/flash/elog_flash.c in buffer mode: logs   *)
(* are collected and written to the flash in whole words, filled up with   *)
(* Pad.  A writer whose log does not fit gives the lock up to flush, and   *)
(* another one may come in between.  What happens inside the lock of the   *)
(* port (left to be written, like that of elog_port.c) is one step.        *)
(*                                                                         *)
(* A byte is the writer it is from and its number.  flash is EasyFlash's   *)
(* log area, whose operations may fail.                                    *)
(***************************************************************************)
EXTENDS Integers, SequencesExt, Selection

CONSTANTS Writers,
          Word, FlashSize,      \* bytes of a word; ELOG_FLASH_BUF_SIZE
          Chunk,                \* bytes that elog_flash_output reads at once
          FlashLens,            \* lengths of logs
          FlashMax              \* bound: bytes per writer

ASSUME FlashAssumption == /\ Word \in Nat \ {0} /\ FlashSize \in Nat /\ Chunk \in Nat \ {0}
                          /\ FlashSize % Word = 0 /\ Chunk % Word = 0
                          /\ FlashLens \subseteq Nat /\ "pad" \notin Writers

Pad == <<"pad", 0>>

VARIABLES flash, flashBuf,      \* log_buf up to cur_buf_size
          flashAt, rest,        \* of a writer: where it is, what it has still to write
          sent, cleaned,        \* observed, per writer: bytes given, bytes cleaned away
          flashFailed           \* observed: EasyFlash refused something

flashVars == <<flash, flashBuf, flashAt, rest, sent, cleaned, flashFailed>>

FlashInit ==
  /\ flash = <<>> /\ flashBuf = <<>>
  /\ flashAt = [t \in Writers |-> "idle"] /\ rest = [t \in Writers |-> <<>>]
  /\ sent = [t \in Writers |-> 0] /\ cleaned = [t \in Writers |-> 0]
  /\ flashFailed = FALSE

FlashWrite(t) ==
  /\ flashAt[t] = "idle" /\ flashAt' = [flashAt EXCEPT ![t] = "write"]
  /\ \E len \in FlashLens :
       /\ sent[t] + len <= FlashMax
       /\ rest' = [rest EXCEPT ![t] = [i \in 1 .. len |-> <<t, sent[t] + i>>]]
       /\ sent' = [sent EXCEPT ![t] = @ + len]
  /\ UNCHANGED <<flash, flashBuf, cleaned, flashFailed>>

\* Mutant: what was filled in is not counted as written.
TakenAgain(t, room) == rest[t]

\* What is left of a log after as much as there was room for went in.
Taken(t, room) == SubSeq(rest[t], room + 1, Len(rest[t]))

\* Inside the lock: all goes into the buffer, or it is filled up.
FlashFill(t) ==
  LET room == FlashSize - Len(flashBuf) IN
  /\ flashAt[t] = "write"
  /\ IF Len(rest[t]) > room
       THEN /\ flashBuf' = flashBuf \o SubSeq(rest[t], 1, room)
            /\ rest' = [rest EXCEPT ![t] = Taken(t, room)]
            /\ flashAt' = [flashAt EXCEPT ![t] = "flush"]
       ELSE /\ flashBuf' = flashBuf \o rest[t]
            /\ rest' = [rest EXCEPT ![t] = <<>>]
            /\ flashAt' = [flashAt EXCEPT ![t] = "idle"]
  /\ UNCHANGED <<flash, sent, cleaned, flashFailed>>

Padding(len) == [i \in 1 .. (Word - (len % Word)) % Word |-> Pad]

\* elog_flash_flush, by a writer in between or by anybody.  The buffer is
\* emptied even when the flash refuses it.
Flushed == /\ flashBuf' = <<>>
           /\ \/ flash' = flash \o flashBuf \o Padding(Len(flashBuf)) /\ UNCHANGED flashFailed
              \/ flashFailed' = TRUE /\ UNCHANGED flash
           /\ UNCHANGED <<rest, sent, cleaned>>

FlashFlush(t) == /\ Flushed
                 /\ \/ flashAt[t] = "idle" /\ UNCHANGED flashAt
                    \/ flashAt[t] = "flush" /\ flashAt' = [flashAt EXCEPT ![t] = "write"]

\* elog_flash_clean; the writers in between go on with the rest of their logs.
FlashClean ==
  /\ flashBuf' = <<>>
  /\ \/ /\ flash' = <<>> /\ UNCHANGED flashFailed
        /\ cleaned' = [t \in Writers |-> sent[t] - Len(rest[t])]
     \/ flashFailed' = TRUE /\ UNCHANGED <<flash, cleaned>>
  /\ UNCHANGED <<flashAt, rest, sent>>

FlashNext == FlashClean \/ \E t \in Writers : FlashWrite(t) \/ FlashFill(t) \/ FlashFlush(t)

FlashSpec == FlashInit /\ [][FlashNext]_flashVars

-----------------------------------------------------------------------------
BytesOf(t) == Only(flash \o flashBuf, {t} \X Nat)

\* The bytes of each writer are in the flash or the buffer once and in order,
\* without a gap between those that were cleaned away and those still in its
\* hands, whoever wrote in between; the flash holds whole words.  A flash that
\* refuses to write or to be cleaned leaves a gap (elog_flash.c:160-265).
FlashKeepsBytes ==
  /\ Len(flash) % Word = 0 /\ Len(flashBuf) <= FlashSize
  /\ ~flashFailed => \A t \in Writers :
       BytesOf(t) = [i \in 1 .. sent[t] - Len(rest[t]) - cleaned[t] |-> <<t, cleaned[t] + i>>]

\* Mutant: the alignment of the index is forgotten.
OverageForgotten(size, read) == 0

\* The bytes to be skipped in the last chunk, which begins at read.
Overage(size, read) == (Word - ((size - read) % Word)) % Word

\* elog_flash_output prints whole chunks, then the rest behind the overage.
Output(index, size) ==
  LET from == (index \div Word) * Word
      read == ((size - 1) \div Chunk) * Chunk
      last == from + read + Overage(size, read)
  IN SubSeq(flash, from + 1, from + read) \o SubSeq(flash, last + 1, last + size - read)

\* The used size is read before the lock is taken (elog_flash.c:90, 141); here a
\* call sees one state, so no clean comes in between.
OutputRecent(size) == IF size = 0 \/ size > Len(flash) THEN <<>>
                      ELSE Output(Len(flash) - size, size)

\* The recent log that is output is the end of the flash, for sizes that are
\* whole words or fit one chunk.  (For others the first chunk begins too early
\* and as many bytes are left out before the last one, elog_flash.c:105-123.)
RecentIsTheEnd ==
  \A size \in 1 .. Len(flash) :
    size % Word = 0 \/ size <= Chunk =>
      OutputRecent(size) = SubSeq(flash, Len(flash) - size + 1, Len(flash))

\* What was logged is in the flash, and can be read from it (elog_flash.c:86-265).
FlashReadsBack == FlashKeepsBytes /\ RecentIsTheEnd
=============================================================================
