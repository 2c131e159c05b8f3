------------------------------- MODULE ElogBuf -------------------------------
(***************************************************************************)
(* components/easylogger/src/elog_buf.c: the buffered output, which        *)
(* collects logs and outputs them a full buffer at a time.  elog.c calls   *)
(* it inside the output lock; elog_flush looks at the fill level before it *)
(* takes the lock.  Bytes are numbered as they come in.                    *)
(***************************************************************************)
EXTENDS Integers, SequencesExt

CONSTANTS OutSize,              \* ELOG_BUF_OUTPUT_BUF_SIZE
          OutLens,              \* lengths of logs
          OutMax                \* bound: bytes

\* A log may be empty, as a raw one of no text is.
ASSUME BufAssumption == OutSize \in Nat \ {0} /\ OutLens \subseteq Nat

VARIABLES outBuf,               \* log_buf up to buf_write_size
          outOn,                \* is_enabled
          outFlushing,          \* elog_flush found something and wants the lock
          outShown, outSent,    \* observed: bytes output, number of bytes logged
          bypassed              \* observed: a log was output past a buffer in use

outVars == <<outBuf, outOn, outFlushing, outShown, outSent, bypassed>>

OutInit == /\ outBuf = <<>> /\ outOn = FALSE /\ outFlushing = FALSE
           /\ outShown = <<>> /\ outSent = 0 /\ bypassed = FALSE

\* The buffer is output whenever more comes than it has room for.
Filled(all) == IF all = <<>> THEN 0 ELSE ((Len(all) - 1) \div OutSize) * OutSize

BufOutput ==
  \E n \in OutLens :
    LET all == outBuf \o [i \in 1 .. n |-> outSent + i] IN
    /\ outSent + n <= OutMax /\ outSent' = outSent + n
    /\ IF outOn
         THEN /\ outShown' = outShown \o SubSeq(all, 1, Filled(all))
              /\ outBuf' = SubSeq(all, Filled(all) + 1, Len(all))
              /\ UNCHANGED bypassed
         ELSE /\ outShown' = outShown \o SubSeq(all, Len(outBuf) + 1, Len(all))
              /\ bypassed' = (bypassed \/ outBuf # <<>>) /\ UNCHANGED outBuf
    /\ UNCHANGED <<outOn, outFlushing>>

FlushAsks == /\ ~outFlushing /\ outBuf # <<>> /\ outFlushing' = TRUE
             /\ UNCHANGED <<outBuf, outOn, outShown, outSent, bypassed>>

\* Mutant: the write index is not reset.
FlushOutsKeeps == /\ outFlushing /\ outFlushing' = FALSE
                  /\ outShown' = outShown \o outBuf
                  /\ UNCHANGED <<outBuf, outOn, outSent, bypassed>>

FlushOuts == /\ outFlushing /\ outFlushing' = FALSE
             /\ outShown' = outShown \o outBuf /\ outBuf' = <<>>
             /\ UNCHANGED <<outOn, outSent, bypassed>>

BufEnabled == /\ outOn' = ~outOn
              /\ UNCHANGED <<outBuf, outFlushing, outShown, outSent, bypassed>>

OutNext == BufOutput \/ FlushAsks \/ FlushOuts \/ BufEnabled

OutSpec == OutInit /\ [][OutNext]_outVars

\* Every byte is output or in the buffer, once and in the order it was logged;
\* only the order suffers when the buffering is disabled with bytes left in the
\* buffer, as elog_stop does, which then logs once more (elog.c:243-258).
BufKeepsOrder ==
  /\ Len(outBuf) <= OutSize
  /\ IF bypassed THEN ToSet(outShown \o outBuf) = 1 .. outSent
                      /\ Len(outShown \o outBuf) = outSent
                 ELSE outShown \o outBuf = [i \in 1 .. outSent |-> i]
=============================================================================
