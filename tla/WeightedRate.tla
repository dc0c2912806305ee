----------------------------- MODULE WeightedRate -----------------------------
(***************************************************************************)
(* The arithmetic contracts share: products of two words in two words, the *)
(* long division that brings them back, and the averages and scalings made *)
(* of both.  A word is u128, a limb u64, a pair <<hi, lo>> a 256-bit value.*)
(* weighted_average is a loop; here each turn of it is a step, so that the *)
(* accumulator can be compared with the sum it stands for.                 *)
(***************************************************************************)
EXTENDS LedgerClock

CONSTANTS
    Bits,            \* bits of a word
    Limb,            \* values of half a word
    Rates,           \* rates of the intervals, words
    IntervalLengths, \* durations of the intervals, limbs
    Precisions,      \* asset precisions asked for
    ScaleFactor,     \* TOKEN_SCALE_FACTOR
    MaxPrecision,    \* MAX_ASSET_PRECISION
    MaxIntervals     \* bound: intervals averaged

Word == Limb * Limb

\* 2 to the i, what a shift by i bits multiplies or divides by.
TwoTo[i \in 0 .. Bits] == IF i = 0 THEN 1 ELSE 2 * TwoTo[i - 1]

ASSUME RateAssumption ==
    /\ Limb \in Nat \ {0, 1} /\ Bits \in Nat \ {0} /\ Word = TwoTo[Bits]
    /\ Rates \subseteq 0 .. Word - 1 /\ IntervalLengths \subseteq 0 .. Limb - 1
    /\ Precisions \subseteq 0 .. Word - 1
    /\ ScaleFactor \in 0 .. Word - 1 /\ MaxPrecision \in 0 .. Word - 1

VARIABLES
    acc,            \* the accumulated numerator
    failed,         \* weighted_average gave up: a sum did not fit
    totalDuration,  \* total_duration
    intervals,      \* intervals added (history)
    exactSum,       \* sum of rate times duration (history)
    lastInterval    \* the interval added last (history)

rateVars == <<acc, failed, totalDuration, intervals, exactSum, lastInterval>>

None == Absent
Value(pair) == pair[1] * Word + pair[2]

\* mul_full
MulFull(a, b) ==
    LET a0  == a % Limb
        a1  == a \div Limb
        b0  == b % Limb
        b1  == b \div Limb
        p00 == a0 * b0
        p01 == a0 * b1
        p10 == a1 * b0
        p11 == a1 * b1
        mid == (p00 \div Limb) + (p01 % Limb) + (p10 % Limb)
    IN  << p11 + (p01 \div Limb) + (p10 \div Limb) + (mid \div Limb),
           (p00 % Limb) + (mid % Limb) * Limb >>

\* Mutant: the carry out of the low word is lost.
Add256Uncarried(x, y) == << (x[1] + y[1]) % Word, (x[2] + y[2]) % Word >>

\* add_256: the sum of two pairs, wrapped.
Add256(x, y) == << (x[1] + y[1] + (x[2] + y[2]) \div Word) % Word, (x[2] + y[2]) % Word >>

Overflows(x, y) == x[1] + y[1] + (x[2] + y[2]) \div Word >= Word

\* A turn of the long division: the next bit of lo joins the remainder, from
\* which d is taken when it is there, or when a bit left the word.
DivisionTurn(before, bit, d) ==
    LET carryOut == before.rem \div TwoTo[Bits - 1]
        shifted  == ((before.rem * 2) % Word) + bit
    IN  IF carryOut = 1 \/ shifted >= d
        THEN [rem |-> (shifted - d) % Word, quot |-> ((before.quot * 2) % Word) + 1]
        ELSE [rem |-> shifted, quot |-> (before.quot * 2) % Word]

\* div_256_by_128: a bit of lo a turn, the highest first; rem and quot are words.
DivMod(pair, d) ==
    LET division[i \in 0 .. Bits] ==
          IF i = 0 THEN [rem |-> pair[1], quot |-> 0]
          ELSE DivisionTurn(division[i - 1], (pair[2] \div TwoTo[Bits - i]) % 2, d)
    IN  division[Bits]

Divides(pair, d) == d # 0 /\ pair[1] < d

\* round_half_up: twice the remainder may not fit a word, and then rounds up.
RoundHalfUp(q, r, d) ==
    IF 2 * r >= Word \/ 2 * r >= d
    THEN IF q + 1 < Word THEN q + 1 ELSE None
    ELSE q

\* mul_div_floor and mul_div_round
MulDivFloor(a, b, d) ==
    IF Divides(MulFull(a, b), d) THEN DivMod(MulFull(a, b), d).quot ELSE None

MulDivRound(a, b, d) ==
    IF Divides(MulFull(a, b), d)
    THEN LET e == DivMod(MulFull(a, b), d) IN RoundHalfUp(e.quot, e.rem, d)
    ELSE None

\* reconcile_tokens; an invalid precision and an overflow are both refused.
ReconcileTokens(deposit, precision) ==
    IF precision \in 1 .. MaxPrecision THEN MulDivFloor(deposit, ScaleFactor, precision) ELSE None

-----------------------------------------------------------------------------
\* One turn of weighted_average's loop.
AddInterval(rate, duration) ==
    /\ ~failed /\ intervals < MaxIntervals
    /\ failed' = (Overflows(acc, MulFull(rate, duration)) \/ totalDuration + duration >= Word)
    /\ acc' = Add256(acc, MulFull(rate, duration))
    /\ totalDuration' = totalDuration + duration
    /\ intervals' = intervals + 1
    /\ exactSum' = exactSum + rate * duration
    /\ lastInterval' = <<rate, duration>>

\* What weighted_average returns after the intervals added so far.
WeightedAverage ==
    IF failed \/ totalDuration = 0 \/ ~Divides(acc, totalDuration) THEN None
    ELSE LET e == DivMod(acc, totalDuration)
         IN  RoundHalfUp(e.quot, e.rem, totalDuration)

RateInit ==
    /\ acc = <<0, 0>> /\ failed = FALSE /\ totalDuration = 0
    /\ intervals = 0 /\ exactSum = 0 /\ lastInterval = <<0, 0>>

RateNext ==
    /\ \E r \in Rates, d \in IntervalLengths : AddInterval(r, d)
    /\ UNCHANGED now

RateSpec == now = 0 /\ RateInit /\ [][RateNext]_<<now, rateVars>>

-----------------------------------------------------------------------------
\* The quotient of n by d rounded half up, as mathematics has it.
HalfUp(n, d) == (2 * n + d) \div (2 * d)

FitsWord(n) == IF n < Word THEN n ELSE None

\* The accumulator holds the exact sum as long as the durations fit a word: no
\* rates and durations make the sum of two words overflow before.
SumIsExact ==
    /\ failed <=> totalDuration >= Word
    /\ ~failed => Value(acc) = exactSum

\* The average is the exact quotient rounded half up; it always fits a word.
AverageIsExact ==
    ~failed /\ totalDuration > 0 => WeightedAverage = HalfUp(exactSum, totalDuration)

\* A product divided is exact, to the last bit, or refused when it does not fit;
\* no deposit is minted more than it backs: with the rate and the duration of
\* each interval as what is multiplied.
ScalingIsExact ==
    intervals > 0 => \A p \in Precisions :
      LET a == lastInterval[1]
          b == lastInterval[2]
          minted == ReconcileTokens(a, p)
      IN  /\ MulDivFloor(a, b, p) = IF p = 0 THEN None ELSE FitsWord((a * b) \div p)
          /\ MulDivRound(a, b, p) =
               IF p = 0 \/ (a * b) \div p >= Word THEN None ELSE FitsWord(HalfUp(a * b, p))
          /\ minted # None => minted * p <= a * ScaleFactor /\ a * ScaleFactor < (minted + 1) * p

\* Sums, averages and scalings are what exact arithmetic gives.
RateInv == SumIsExact /\ AverageIsExact /\ ScalingIsExact

=============================================================================
