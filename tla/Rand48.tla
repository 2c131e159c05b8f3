------------------------------- MODULE Rand48 -------------------------------
(***************************************************************************)
(* components/source/datastructs/random.c: the linear congruential         *)
(* generator, which keeps a number of three words in as many limbs, and    *)
(* multiplies and adds limb by limb.  The code's words have 16 bits.       *)
(***************************************************************************)
EXTENDS Integers

CONSTANTS RandBits,             \* N, the bits of a limb
          RandX0, RandA, RandC, \* X0; A0, A1 and A2; C
          RandSeeds             \* the seeds callers give

ASSUME RandAssumption == RandBits \in Nat /\ RandBits > 1

VARIABLES rx, drawn             \* ctx->x; what rand48_l gave last, 0 before

randVars == <<rx, drawn>>

Limb == 2 ^ RandBits
Low(n) == n % Limb
High(n) == (n \div Limb) % Limb
Carry(m, n) == IF m + n >= Limb THEN 1 ELSE 0

\* rand48Seed
RandSeed(seed) == rx' = <<RandX0, Low(seed), High(seed)>> /\ drawn' = 0

RandInit == rx = <<RandX0, 0, 0>> /\ drawn = 0

\* Mutant: the carry of the second limb's last addition is lost.
LastCarryLost(p1, r) == 0

LastCarry(p1, r) == Carry(p1, Low(r))

\* The next limbs.  a[i] and x[i] are the limbs i of multiplier and number; the
\* products p, q and r have two limbs each.
RandNext(limbs) ==
  LET a(i) == RandA[i + 1]
      x(i) == limbs[i + 1]
      p == a(0) * x(0)
      q == a(0) * x(1)
      r == a(1) * x(0)
      carry0 == Carry(Low(p), RandC)
      carry1 == Carry(High(p), carry0)
      p1 == Low(High(p) + carry0)
      p1q == Low(p1 + Low(q))
  IN << Low(Low(p) + RandC),
        Low(p1q + Low(r)),
        Low(Carry(p1, Low(q)) + carry1 + LastCarry(p1q, r) + High(q) + High(r)
              + a(0) * x(2) + a(1) * x(1) + a(2) * x(0)) >>

Drawn(limbs) == limbs[3] * 2 ^ (RandBits - 1) + limbs[2] \div 2

RandDraw == rx' = RandNext(rx) /\ drawn' = Drawn(rx')    \* rand48_l

\* rand48Range of a number that was drawn.
RandRange(start, end) == IF start >= end THEN start ELSE (drawn % (end - start)) + start

RandStep == RandDraw \/ \E seed \in RandSeeds : RandSeed(seed)

RandSpec == RandInit /\ [][RandStep]_randVars

-----------------------------------------------------------------------------
NumberOf(limbs) == limbs[1] + limbs[2] * Limb + limbs[3] * Limb ^ 2

\* However the carries fall, the next number is the multiplier times this one plus
\* the increment, in three words; what is drawn are its upper bits but one of
\* two words, and a draw from a range that is not empty is inside it
\* (random.c:35-55).
RandIsCongruential ==
  /\ NumberOf(RandNext(rx)) = (NumberOf(RandA) * NumberOf(rx) + RandC) % Limb ^ 3
  /\ drawn # 0 => drawn = NumberOf(rx) \div (2 * Limb)
  /\ \A start, end \in -2 .. 2 :
       RandRange(start, end) \in start .. (IF start < end THEN end - 1 ELSE start)
=============================================================================
