------------------------------ MODULE MemFunc ------------------------------
(***************************************************************************)
(* components/source/datastructs/memfunc.c, and iobufShardCopy of          *)
(* sysapi/misc.c: functions on bytes.  The memory is one short buffer,     *)
(* which also is the text of the string functions, up to its first zero;   *)
(* pointers are offsets into it, from 0.                                   *)
(***************************************************************************)
EXTENDS Integers, SequencesExt

CONSTANTS Bytes,                \* the values of bytes that are used, 0 among them
          MemLen,               \* the length of a buffer
          Delim,                \* the delimiters of strSplit
          Cuts,                 \* the buffer as shards: sequences of their lengths
          NoPlace               \* a null pointer

ASSUME MemAssumption == Bytes \subseteq 0 .. 255 /\ 0 \in Bytes /\ MemLen \in Nat

VARIABLES mem,
          sc, tokens,           \* strSplit: *p_sc, null outside; the tokens it gave,
                                \* as <<from, to>>
          cut, shard, copied    \* iobufShardCopy: iov; <<*iov_i, *iov_off>>; the bytes
                                \* it gave so far

memVars == <<mem, sc, tokens, cut, shard, copied>>

MemInit == /\ mem = <<>> /\ sc = NoPlace /\ tokens = <<>>
           /\ cut \in Cuts /\ shard = <<0, 0>> /\ copied = <<>>

Byte(p) == mem[p + 1]
Upward(n) == [i \in 1 .. n |-> i - 1]

-----------------------------------------------------------------------------
\* Mutant: always from the front.
CopyOrderFront(dst, src, n) == Upward(n)

\* memCopy goes the way that overwrites nothing it has yet to read.
CopyOrder(dst, src, n) == IF dst < src THEN Upward(n) ELSE Reverse(Upward(n))

MemCopy(dst, src, n) ==
  FoldLeft(LAMBDA m, i : [m EXCEPT ![dst + i + 1] = m[src + i + 1]], mem,
           CopyOrder(dst, src, n))

MemSwap(p1, p2, n) ==
  FoldLeft(LAMBDA m, i : [m EXCEPT ![p1 + i + 1] = m[p2 + i + 1],
                                   ![p2 + i + 1] = m[p1 + i + 1]], mem, Upward(n))

MemReverse(p, len) ==
  FoldLeft(LAMBDA m, i : [m EXCEPT ![p + i + 1] = m[p + len - i],
                                   ![p + len - i] = m[p + i + 1]], mem, Upward(len \div 2))

MemBitCheck(arr, idx) == (arr[(idx \div 8) + 1] \div 2 ^ (idx % 8)) % 2
MemBitSet(arr, idx) ==
  [arr EXCEPT ![(idx \div 8) + 1] = IF MemBitCheck(arr, idx) = 1 THEN @ ELSE @ + 2 ^ (idx % 8)]
MemBitUnset(arr, idx) ==
  [arr EXCEPT ![(idx \div 8) + 1] = IF MemBitCheck(arr, idx) = 0 THEN @ ELSE @ - 2 ^ (idx % 8)]

\* memCheckSum16: halves are added, and carries folded twice.  len is even.
MemCheckSum16(s) ==
  LET sum == FoldLeft(LAMBDA c, i : c + s[2 * i + 1] + 256 * s[2 * i + 2], 0, Upward(Len(s) \div 2))
      once == (sum \div 65536) + (sum % 65536)
  IN 65535 - ((once + (once \div 65536)) % 65536)

\* strLenUtf8: each first byte says how many there are; -1 is size_t's.
Utf8ByteNum(c) == CASE c < 128 -> 1 [] c < 192 -> -1 [] c < 224 -> 2 [] c < 240 -> 3
                    [] c < 248 -> 4 [] c < 252 -> 5 [] c < 254 -> 6 [] OTHER -> -1

StrLenUtf8(n) ==
  FoldLeft(LAMBDA r, i :
             IF r.stop \/ i < r.next THEN r
             ELSE LET k == Utf8ByteNum(Byte(i)) IN
               IF Byte(i) = 0 \/ (k > 0 /\ i + k > n) THEN [r EXCEPT !.stop = TRUE]
               ELSE IF k < 0 THEN [r EXCEPT !.stop = TRUE, !.len = -1]
               ELSE [r EXCEPT !.next = i + k, !.len = @ + 1],
           [next |-> 0, len |-> 0, stop |-> FALSE], Upward(n)).len

-----------------------------------------------------------------------------
TextLen == Cardinality({k \in DOMAIN mem : \A i \in 1 .. k : mem[i] # 0})

\* Mutant: a delimiter at the end is not followed by an empty token.
SplitEndNever(p) == NoPlace

\* At the end there is a last, empty token if a delimiter comes before it.
SplitEnd(p) == IF Byte(p - 1) \in Delim THEN p ELSE NoPlace

\* strSplit of a text with its length, called until it gives nothing: the token
\* begins behind the last delimiter and ends at the next one, or at the end.
StrSplit ==
  LET beg == IF sc = NoPlace THEN 0 ELSE sc + 1
      ends == {p \in beg .. TextLen - 1 : Byte(p) \in Delim} \cup {TextLen}
      to == IF beg < TextLen THEN Min(ends) ELSE IF beg > TextLen THEN NoPlace ELSE SplitEnd(beg)
  IN /\ TextLen > 0 /\ sc' = to
     /\ tokens' = IF to = NoPlace THEN tokens
                  ELSE Append(IF sc = NoPlace THEN <<>> ELSE tokens, <<beg, to>>)
     /\ UNCHANGED <<mem, cut, shard, copied>>

ShardStart(i) == FoldLeft(LAMBDA a, k : a + cut[k + 1], 0, Upward(i))

\* iobufShardCopy: of each shard from *iov_i on what there is left, or what there
\* is left to copy.
IobufShardCopy(n) ==
  LET step(r, i) ==
        LET left == cut[i + 1] - r.off
            rest == n - Len(r.out)
            p == ShardStart(i) + r.off
        IN IF r.stop \/ i < r.i THEN r
           ELSE IF left > rest
             THEN [r EXCEPT !.off = @ + rest, !.out = @ \o SubSeq(mem, p + 1, p + rest), !.stop = TRUE]
             ELSE [r EXCEPT !.i = i + 1, !.off = 0, !.out = @ \o SubSeq(mem, p + 1, p + left)]
      end == FoldLeft(step, [i |-> shard[1], off |-> shard[2], out |-> <<>>, stop |-> FALSE],
                      Upward(Len(cut)))
  IN /\ shard' = <<end.i, end.off>> /\ copied' = copied \o end.out
     /\ UNCHANGED <<mem, sc, tokens, cut>>

-----------------------------------------------------------------------------
Places == 0 .. Len(mem)
Idle == sc = NoPlace /\ shard = <<0, 0>>

MemNext ==
  \/ /\ Idle /\ tokens' = <<>> /\ UNCHANGED <<sc, cut, shard, copied>>
     /\ \/ mem' \in [1 .. MemLen -> Bytes]
        \/ \E p, q, n \in Places : p + n <= Len(mem) /\ q + n <= Len(mem) /\ mem' = MemCopy(p, q, n)
        \/ \E p, n \in Places : p + n <= Len(mem) /\ mem' = MemReverse(p, n)
        \/ \E p, q, n \in Places : p + n <= q /\ q + n <= Len(mem) /\ mem' = MemSwap(p, q, n)
  \/ shard = <<0, 0>> /\ StrSplit
  \/ sc = NoPlace /\ mem # <<>> /\ shard[1] < Len(cut) /\ \E n \in DOMAIN mem : IobufShardCopy(n)
  \/ shard[1] = Len(cut) /\ shard' = <<0, 0>> /\ copied' = <<>> /\ UNCHANGED <<mem, sc, tokens, cut>>

MemSpec == MemInit /\ [][MemNext]_memVars

-----------------------------------------------------------------------------
Delims == SetToSortSeq({p \in 0 .. TextLen - 1 : Byte(p) \in Delim},
                        LAMBDA p, q : p < q)

\* What the functions do, said without their loops.  A copy gives the old bytes
\* however source and destination overlap; reversing gives the bytes backwards, and
\* swapping each other's; a bit that is set or unset leaves the others;
\* a checksum put behind the bytes makes the sum of all zero; the characters of
\* a text are no more than its first bytes.  The tokens of strSplit are what lies
\* between the delimiters, empty ones at both ends included; shards copied in
\* pieces of any size give the bytes in order (memfunc.c:122-135, 274-318,
\* misc.c:45-65).
MemFunctionsAgree ==
  /\ \A p, q, n \in Places :
       /\ p + n <= Len(mem) /\ q + n <= Len(mem) =>
            MemCopy(p, q, n) =
              [i \in DOMAIN mem |-> IF i - p \in 1 .. n THEN mem[i - p + q] ELSE mem[i]]
       /\ p + n <= Len(mem) =>
            MemReverse(p, n) =
              [i \in DOMAIN mem |-> IF i - p \in 1 .. n THEN mem[2 * p + n + 1 - i] ELSE mem[i]]
       /\ p + n <= q /\ q + n <= Len(mem) =>
            MemSwap(p, q, n) =
              [i \in DOMAIN mem |-> IF i - p \in 1 .. n THEN mem[i - p + q]
                                    ELSE IF i - q \in 1 .. n THEN mem[i - q + p] ELSE mem[i]]
  /\ \A i \in 0 .. 8 * Len(mem) - 1 :
       LET set == MemBitSet(mem, i)
           unset == MemBitUnset(mem, i)
       IN \A j \in 0 .. 8 * Len(mem) - 1 :
            /\ MemBitCheck(set, j) = IF i = j THEN 1 ELSE MemBitCheck(mem, j)
            /\ MemBitCheck(unset, j) = IF i = j THEN 0 ELSE MemBitCheck(mem, j)
  /\ Len(mem) % 2 = 0 =>
       LET c == MemCheckSum16(mem) IN MemCheckSum16(mem \o <<c % 256, c \div 256>>) = 0
  /\ StrLenUtf8(TextLen) <= Cardinality({i \in 1 .. TextLen : mem[i] < 128 \/ mem[i] >= 192})
  /\ \A k \in 1 .. Len(tokens) :
       tokens[k] = << IF k = 1 THEN 0 ELSE Delims[k - 1] + 1,
                      IF k > Len(Delims) THEN TextLen ELSE Delims[k] >>
  /\ sc = NoPlace /\ tokens # <<>> => Len(tokens) = Len(Delims) + 1
  /\ copied = SubSeq(mem, 1, Len(copied))
  /\ shard[1] = Len(cut) => copied = mem
=============================================================================
