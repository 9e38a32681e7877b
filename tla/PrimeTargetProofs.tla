------------------------- MODULE PrimeTargetProofs -------------------------
(***************************************************************************)
(* Proofs about the target arithmetic and the chain that uses it, for      *)
(* every scale of the target, every spacing and every sequence of          *)
(* timestamps.                                                             *)
(***************************************************************************)
EXTENDS PrimeTarget, TLAPS

-----------------------------------------------------------------------------
(* Integer division and products: what the provers need of them.           *)

(* The quotient of a division by a positive number. *)
LEMMA DivBounds ==
    ASSUME NEW a \in Int, NEW b \in Int, b > 0
    PROVE  /\ a \div b \in Int
           /\ b * (a \div b) <= a
           /\ a < b * (a \div b) + b
BY Z3

(* The remainder belongs to the quotient. *)
LEMMA ModBounds ==
    ASSUME NEW a \in Int, NEW b \in Int, b > 0
    PROVE  /\ a % b = a - b * (a \div b)
           /\ a % b \in 0..(b - 1)
BY Z3

(* The bounds determine the quotient. *)
LEMMA DivUnique ==
    ASSUME NEW a \in Int, NEW b \in Int, b > 0,
           NEW q \in Int, b * q <= a, a < b * q + b
    PROVE  a \div b = q
BY Z3

(* A product with a number that is not negative is monotone. *)
LEMMA TimesMonotone ==
    ASSUME NEW a \in Int, NEW b \in Int, NEW c \in Int, a <= b, c >= 0
    PROVE  c * a <= c * b /\ a * c <= b * c
BY Z3

(* A quotient is at least any number whose product fits. *)
LEMMA DivAtLeast ==
    ASSUME NEW a \in Int, NEW b \in Int, b > 0, NEW q \in Int, b * q <= a
    PROVE  a \div b >= q
<1>1. a \div b \in Int /\ a < b * (a \div b) + b
  BY DivBounds
<1>2. SUFFICES ASSUME a \div b < q PROVE FALSE
  BY <1>1
<1>3. (a \div b) + 1 <= q
  BY <1>1, <1>2
<1>4. b * ((a \div b) + 1) <= b * q
  BY <1>1, <1>3, TimesMonotone
<1>5. b * ((a \div b) + 1) = b * (a \div b) + b
  BY <1>1
<1> QED
  BY <1>1, <1>4, <1>5, Z3

(* A quotient is at most any number whose product is not exceeded. *)
LEMMA DivAtMost ==
    ASSUME NEW a \in Int, NEW b \in Int, b > 0, NEW q \in Int, a <= b * q
    PROVE  a \div b <= q
<1>1. a \div b \in Int /\ b * (a \div b) <= a
  BY DivBounds
<1>2. SUFFICES ASSUME a \div b > q PROVE FALSE
  BY <1>1
<1>3. q + 1 <= a \div b
  BY <1>1, <1>2
<1>4. b * (q + 1) <= b * (a \div b)
  BY <1>1, <1>3, TimesMonotone
<1>5. b * (q + 1) = b * q + b
  OBVIOUS
<1> QED
  BY <1>1, <1>4, <1>5, Z3

(* A larger divisor gives no larger quotient. *)
LEMMA DivAntitone ==
    ASSUME NEW a \in Nat, NEW b \in Int, NEW c \in Int, 0 < b, b <= c
    PROVE  a \div c <= a \div b
<1>1. a \div c \in Int /\ c * (a \div c) <= a
  BY DivBounds
<1>2. a \div c >= 0
  BY DivAtLeast
<1>3. b * (a \div c) <= c * (a \div c)
  BY <1>1, <1>2, TimesMonotone
<1> QED
  BY <1>1, <1>3, DivAtLeast

-----------------------------------------------------------------------------
(* The fractional difficulty of a target lies between the minimum and the  *)
(* maximum, and it is the minimum only for a whole length.                 *)
LEMMA DifficultyBounds ==
    ASSUME NEW nBits \in Nat
    PROVE  LET d == TargetGetFractionalDifficulty(nBits)
           IN  /\ d \in nFractionalDifficultyMin..nFractionalDifficultyMax
               /\ TargetGetFractional(nBits) # 0 => d > nFractionalDifficultyMin
<1> DEFINE x == FractionalOne - TargetGetFractional(nBits)
           M == nFractionalDifficultyMin
<1>1. x \in 1..FractionalOne /\ (TargetGetFractional(nBits) # 0 => x <= FractionalOne - 1)
  BY TargetAssumption, ModBounds DEF TargetGetFractional
<1>2. M \in Nat /\ FractionalOne \in Nat /\ M >= FractionalOne
      /\ nFractionalDifficultyMax = FractionalOne * M /\ nFractionalDifficultyMax \in Nat
  BY TargetAssumption DEF nFractionalDifficultyMax
<1>3. TargetGetFractionalDifficulty(nBits) = nFractionalDifficultyMax \div x
  BY DEF TargetGetFractionalDifficulty
<1> HIDE DEF x, M
<1>4. x * M <= nFractionalDifficultyMax
  BY <1>1, <1>2, TimesMonotone
<1>5. nFractionalDifficultyMax \div x >= M
  BY <1>1, <1>2, <1>4, DivAtLeast
<1>6. nFractionalDifficultyMax <= x * nFractionalDifficultyMax
  <2>1. 1 * nFractionalDifficultyMax <= x * nFractionalDifficultyMax
    BY <1>1, <1>2, TimesMonotone
  <2> QED BY <2>1, <1>2
<1>7. nFractionalDifficultyMax \div x <= nFractionalDifficultyMax
  BY <1>1, <1>2, <1>6, DivAtMost
<1>8. ASSUME x <= FractionalOne - 1 PROVE nFractionalDifficultyMax \div x >= M + 1
  <2>1. x * (M + 1) <= (FractionalOne - 1) * (M + 1)
    BY <1>1, <1>2, <1>8, TimesMonotone
  <2>2. (FractionalOne - 1) * (M + 1) = FractionalOne * M + FractionalOne - M - 1
    BY <1>2
  <2>3. x * (M + 1) <= nFractionalDifficultyMax
    BY <1>1, <1>2, <2>1, <2>2
  <2> QED BY <1>1, <1>2, <2>3, DivAtLeast
<1>9. nFractionalDifficultyMax \div x \in Int
  BY <1>1, <1>2, DivBounds
<1> QED
  BY <1>1, <1>2, <1>3, <1>5, <1>7, <1>8, <1>9 DEF M

(* A difficulty between the minimum and the maximum is never refused, and  *)
(* setting it keeps the length.                                            *)
LEMMA DifficultySets ==
    ASSUME NEW d \in nFractionalDifficultyMin..nFractionalDifficultyMax, NEW nBits \in Nat
    PROVE  LET q == nFractionalDifficultyMax \div d
               t == TargetSetFractionalDifficulty(d, nBits)
           IN  /\ ~DifficultyRefused(d)
               /\ q \in 1..FractionalOne
               /\ t = FractionalOne * TargetGetLength(nBits) + (FractionalOne - q)
               /\ t \in Nat
               /\ TargetGetLength(t) = TargetGetLength(nBits)
               /\ TargetGetFractional(t) = FractionalOne - q
<1> DEFINE q == nFractionalDifficultyMax \div d
           t == TargetSetFractionalDifficulty(d, nBits)
           n == TargetGetLength(nBits)
<1>1. /\ FractionalOne \in Nat \ {0} /\ nFractionalDifficultyMin \in Nat \ {0}
      /\ nFractionalDifficultyMax = FractionalOne * nFractionalDifficultyMin
      /\ nFractionalDifficultyMax \in Nat /\ d \in Nat \ {0}
      /\ nFractionalDifficultyMin <= d /\ d <= nFractionalDifficultyMax
  BY TargetAssumption DEF nFractionalDifficultyMax
<1>2. q \in 1..FractionalOne
  <2>1. q >= 1
    BY <1>1, DivAtLeast
  <2>2. FractionalOne * nFractionalDifficultyMin <= FractionalOne * d
    BY <1>1, TimesMonotone
  <2>3. nFractionalDifficultyMax <= d * FractionalOne
    BY <1>1, <2>2
  <2>4. q <= FractionalOne
    BY <1>1, <2>3, DivAtMost
  <2> QED BY <1>1, <2>1, <2>4, DivBounds
<1>3. ~DifficultyRefused(d)
  BY <1>1, <1>2 DEF DifficultyRefused
<1>4. n \in Nat /\ nBits - TargetGetFractional(nBits) = FractionalOne * n
  <2>1. n \in Int
    BY <1>1, DivBounds DEF TargetGetLength
  <2>2. FractionalOne * 0 <= nBits
    BY <1>1
  <2>3. n >= 0
    BY <1>1, <2>2, DivAtLeast DEF TargetGetLength
  <2>4. nBits % FractionalOne = nBits - FractionalOne * n
    BY <1>1, ModBounds DEF TargetGetLength
  <2>5. FractionalOne * n \in Int
    BY <2>1, <1>1
  <2> QED
    BY <2>1, <2>3, <2>4, <2>5, <1>1 DEF TargetGetFractional
<1>5. t = FractionalOne * n + (FractionalOne - q)
  BY <1>1, <1>2, <1>4 DEF TargetSetFractionalDifficulty
<1> HIDE DEF q, t, n
<1>6. FractionalOne * n \in Nat
  BY <1>1, <1>4
<1>7. t \in Nat
  BY <1>1, <1>2, <1>5, <1>6
<1>8. t \div FractionalOne = n
  BY <1>1, <1>2, <1>4, <1>5, <1>6, <1>7, DivUnique
<1>9. t % FractionalOne = FractionalOne - q
  BY <1>1, <1>2, <1>5, <1>6, <1>7, <1>8, ModBounds
<1> QED
  BY <1>2, <1>3, <1>5, <1>7, <1>8, <1>9 DEF q, t, n, TargetGetLength, TargetGetFractional

(* A difficulty up to the threshold is still up to the threshold when it   *)
(* is read back from the target it was set in.                             *)
LEMMA ThresholdKept ==
    ASSUME NEW d \in nFractionalDifficultyMin..nFractionalDifficultyThreshold, NEW nBits \in Nat
    PROVE  /\ d \in nFractionalDifficultyMin..nFractionalDifficultyMax
           /\ TargetGetFractionalDifficulty(TargetSetFractionalDifficulty(d, nBits))
                <= nFractionalDifficultyThreshold
<1> DEFINE X == nFractionalDifficultyMax
           T == nFractionalDifficultyThreshold
           q == X \div d
<1>1. PICK k \in 1..FractionalOne : X = k * T
  BY TargetAssumption
<1>2. X \in Nat /\ T \in Nat \ {0} /\ d \in Nat \ {0} /\ d <= T /\ k \in Nat \ {0}
      /\ nFractionalDifficultyMin \in Nat /\ FractionalOne \in Nat
  BY TargetAssumption DEF nFractionalDifficultyMax
<1>3. T <= X
  <2>1. 1 * T <= k * T
    BY <1>2, TimesMonotone
  <2> QED BY <1>1, <1>2, <2>1
<1>4. d \in nFractionalDifficultyMin..X
  BY <1>2, <1>3
<1>5. TargetGetFractional(TargetSetFractionalDifficulty(d, nBits)) = FractionalOne - q
      /\ q \in 1..FractionalOne
  BY <1>4, DifficultySets
<1> HIDE DEF X, T, q
<1>6. q >= k
  <2>1. k * d <= k * T
    BY <1>2, TimesMonotone
  <2>2. d * k <= X
    BY <1>1, <1>2, <2>1
  <2> QED BY <1>2, <2>2, DivAtLeast DEF q
<1>7. X <= q * T
  <2>1. k * T <= q * T
    BY <1>2, <1>5, <1>6, TimesMonotone
  <2> QED BY <1>1, <2>1
<1>8. X \div q <= T
  BY <1>2, <1>5, <1>7, DivAtMost
<1>9. FractionalOne - (FractionalOne - q) = q
  BY <1>2, <1>5
<1> QED
  BY <1>4, <1>5, <1>8, <1>9 DEF TargetGetFractionalDifficulty, X, T

-----------------------------------------------------------------------------
(* The difficulty TargetGetNext works with. *)
LEMMA NewDifficultyBounds ==
    ASSUME NEW nBits \in Nat, NEW s \in Int, Divisor(s) # 0
    PROVE  NewDifficulty(nBits, s) \in nFractionalDifficultyMin..nFractionalDifficultyMax
<1> DEFINE N == TargetGetFractionalDifficulty(nBits) * ((nInterval + 1) * nTargetSpacing)
<1>1. nInterval \in Int /\ nTargetSpacing \in Nat
  BY TargetAssumption, DivBounds DEF nInterval
<1>2. Divisor(s) \in Int
  BY <1>1 DEF Divisor
<1>3. nFractionalDifficultyMin \in Nat /\ nFractionalDifficultyMax \in Nat
      /\ nFractionalDifficultyMin <= nFractionalDifficultyMax
  <2>1. nFractionalDifficultyMin \in Nat /\ FractionalOne \in Nat \ {0}
    BY TargetAssumption
  <2>2. 1 * nFractionalDifficultyMin <= FractionalOne * nFractionalDifficultyMin
    BY <2>1, TimesMonotone
  <2> QED BY <2>1, <2>2 DEF nFractionalDifficultyMax
<1>4. N \in Int
  BY <1>1, <1>3, DifficultyBounds
<1> HIDE DEF N
<1>5. BigDiv(N, Divisor(s)) \in Int
  <2>1. CASE Divisor(s) > 0
    BY <1>2, <1>4, <2>1, DivBounds DEF BigDiv
  <2>2. CASE ~(Divisor(s) > 0)
    <3>1. N \div (-Divisor(s)) \in Int
      BY <1>2, <1>4, <2>2, DivBounds
    <3> QED BY <2>2, <3>1 DEF BigDiv
  <2> QED BY <2>1, <2>2
<1> QED
  BY <1>3, <1>5 DEF NewDifficulty, Clamped, N

(* A target is its length and its fraction; lengths of valid targets.      *)
LEMMA TargetParts ==
    ASSUME NEW nBits \in Nat
    PROVE  /\ TargetGetLength(nBits) \in Nat
           /\ TargetGetFractional(nBits) \in 0..(FractionalOne - 1)
           /\ nBits = FractionalOne * TargetGetLength(nBits) + TargetGetFractional(nBits)
<1> DEFINE n == TargetGetLength(nBits)
<1>1. FractionalOne \in Nat \ {0}
  BY TargetAssumption
<1>2. n \in Int /\ n >= 0
  BY <1>1, DivBounds, DivAtLeast DEF TargetGetLength
<1>3. /\ nBits % FractionalOne = nBits - FractionalOne * n
      /\ nBits % FractionalOne \in 0..(FractionalOne - 1)
  BY <1>1, ModBounds DEF TargetGetLength
<1>4. FractionalOne * n \in Int
  BY <1>1, <1>2
<1> HIDE DEF n
<1> QED
  BY <1>1, <1>2, <1>3, <1>4 DEF TargetGetFractional, n

(* A number with a length and a fraction has that length and that          *)
(* fraction.                                                               *)
LEMMA PartsUnique ==
    ASSUME NEW n \in Nat, NEW f \in 0..(FractionalOne - 1)
    PROVE  LET t == FractionalOne * n + f
           IN  t \in Nat /\ TargetGetLength(t) = n /\ TargetGetFractional(t) = f
<1> DEFINE t == FractionalOne * n + f
<1>1. FractionalOne \in Nat \ {0} /\ f \in Nat /\ f < FractionalOne
  BY TargetAssumption
<1>2. FractionalOne * n \in Nat
  BY <1>1
<1>3. t \in Nat /\ FractionalOne * n <= t /\ t < FractionalOne * n + FractionalOne
      /\ t - FractionalOne * n = f
  BY <1>1, <1>2
<1> HIDE DEF t
<1>4. t \div FractionalOne = n
  BY <1>1, <1>3, DivUnique
<1>5. t % FractionalOne = f
  BY <1>1, <1>3, <1>4, ModBounds
<1> QED
  BY <1>3, <1>4, <1>5 DEF t, TargetGetLength, TargetGetFractional

(* Valid targets are those of an allowed length. *)
LEMMA ValidIsAllowed ==
    ASSUME NEW nBits \in Nat
    PROVE  nBits \in ValidTargets <=> TargetGetLength(nBits) \in nTargetMinLength..nTargetMaxLength
<1> DEFINE n == TargetGetLength(nBits)
           f == TargetGetFractional(nBits)
<1>1. /\ FractionalOne \in Nat \ {0} /\ nTargetMinLength \in Nat /\ nTargetMaxLength \in Nat
      /\ n \in Nat /\ f \in 0..(FractionalOne - 1) /\ nBits = FractionalOne * n + f
  BY TargetAssumption, TargetParts
<1> HIDE DEF n, f
<1>2. ASSUME n < nTargetMinLength PROVE nBits < nTargetMinLength * FractionalOne
  <2>1. FractionalOne * (n + 1) <= FractionalOne * nTargetMinLength
    BY <1>1, <1>2, TimesMonotone
  <2> QED BY <1>1, <2>1, Z3
<1>3. ASSUME n >= nTargetMinLength PROVE nBits >= nTargetMinLength * FractionalOne
  <2>1. FractionalOne * nTargetMinLength <= FractionalOne * n
    BY <1>1, <1>3, TimesMonotone
  <2> QED BY <1>1, <2>1, Z3
<1>4. ASSUME n > nTargetMaxLength PROVE nBits >= (nTargetMaxLength + 1) * FractionalOne
  <2>1. FractionalOne * (nTargetMaxLength + 1) <= FractionalOne * n
    BY <1>1, <1>4, TimesMonotone
  <2> QED BY <1>1, <2>1, Z3
<1>5. ASSUME n <= nTargetMaxLength PROVE nBits < (nTargetMaxLength + 1) * FractionalOne
  <2>1. FractionalOne * (n + 1) <= FractionalOne * (nTargetMaxLength + 1)
    BY <1>1, <1>5, TimesMonotone
  <2> QED BY <1>1, <2>1, Z3
<1>6. nTargetMinLength * FractionalOne \in Nat /\ (nTargetMaxLength + 1) * FractionalOne \in Nat
  BY <1>1
<1> QED
  BY <1>1, <1>2, <1>3, <1>4, <1>5, <1>6 DEF n, ValidTargets, TargetGetLimit, TargetFromInt

(* The length after a step: one more, one less but not below the minimum,  *)
(* or the same; the 32 bits are not exceeded.                              *)
LEMMA SteppedLengths ==
    ASSUME NEW nBits \in ValidTargets, NEW d
    PROVE  LET n == TargetGetLength(nBits)
               b == SteppedLength(d, nBits)
           IN  /\ nBits \in Nat /\ b \in Nat
               /\ n \in nTargetMinLength..nTargetMaxLength
               /\ TargetGetLength(b) = IF StepsUp(d) THEN n + 1
                                       ELSE IF StepsDown(d, nBits) THEN n - 1 ELSE n
               /\ TargetGetLength(b) \in nTargetMinLength..(nTargetMaxLength + 1)
<1> DEFINE n == TargetGetLength(nBits)
           f == TargetGetFractional(nBits)
<1>1. FractionalOne \in Nat \ {0} /\ nTargetMinLength \in Nat \ {0} /\ nTargetMaxLength \in Nat
      /\ nTargetMaxLength < 254
  BY TargetAssumption
<1>2. nBits \in Nat
  <2>1. nTargetMinLength * FractionalOne \in Nat
    BY <1>1
  <2> QED BY <2>1 DEF ValidTargets, TargetGetLimit, TargetFromInt
<1>3. n \in nTargetMinLength..nTargetMaxLength
  BY <1>2, ValidIsAllowed
<1>4. f \in 0..(FractionalOne - 1) /\ nBits = FractionalOne * n + f
  BY <1>2, TargetParts
<1>5. CASE StepsUp(d)
  <2>1. n + 1 \in Nat /\ nBits + FractionalOne = FractionalOne * (n + 1) + f
    BY <1>1, <1>3, <1>4
  <2>2. nBits + FractionalOne \in Nat /\ TargetGetLength(nBits + FractionalOne) = n + 1
    BY <1>4, <2>1, PartsUnique
  <2>3. FractionalOne * (n + 2) <= FractionalOne * 256
    BY <1>1, <1>3, TimesMonotone
  <2>4. nBits + FractionalOne < 256 * FractionalOne
    BY <1>1, <1>3, <1>4, <2>1, <2>3, Z3
  <2>5. (nBits + FractionalOne) % (256 * FractionalOne) = nBits + FractionalOne
    <3>1. 256 * FractionalOne \in Int /\ 256 * FractionalOne > 0
      BY <1>1
    <3>2. (nBits + FractionalOne) \div (256 * FractionalOne) = 0
      BY <2>2, <2>4, <3>1, DivUnique
    <3> QED BY <2>2, <3>1, <3>2, ModBounds
  <2> QED
    BY <1>2, <1>3, <1>1, <1>5, <2>2, <2>5 DEF SteppedLength, TargetIncrementLength, UIntMax
<1>6. CASE ~StepsUp(d) /\ StepsDown(d, nBits)
  <2>1. n > nTargetMinLength
    BY <1>6 DEF StepsDown
  <2>2. n - 1 \in Nat /\ nBits - FractionalOne = FractionalOne * (n - 1) + f
    BY <1>1, <1>3, <1>4, <2>1
  <2>3. nBits - FractionalOne \in Nat /\ TargetGetLength(nBits - FractionalOne) = n - 1
    BY <1>4, <2>2, PartsUnique
  <2> QED
    BY <1>1, <1>2, <1>3, <1>6, <2>1, <2>3 DEF SteppedLength, TargetDecrementLength
<1>7. CASE ~StepsUp(d) /\ ~StepsDown(d, nBits)
  BY <1>1, <1>2, <1>3, <1>7 DEF SteppedLength
<1> QED
  BY <1>5, <1>6, <1>7

(* The difficulty after a step lies between the minimum and the threshold, *)
(* and TargetGetNext writes it under the new length.                       *)
LEMMA NextValue ==
    ASSUME NEW nBits \in ValidTargets, NEW s \in Int, Divisor(s) # 0
    PROVE  LET d == NewDifficulty(nBits, s)
               e == SteppedDifficulty(d, nBits)
               b == SteppedLength(d, nBits)
               q == nFractionalDifficultyMax \div e
           IN  /\ d \in nFractionalDifficultyMin..nFractionalDifficultyMax
               /\ e \in nFractionalDifficultyMin..nFractionalDifficultyThreshold
               /\ q \in 1..FractionalOne
               /\ TargetGetNext(nBits, s) = TargetSetFractionalDifficulty(e, b)
               /\ TargetGetNext(nBits, s) = FractionalOne * TargetGetLength(b) + (FractionalOne - q)
<1> DEFINE d == NewDifficulty(nBits, s)
           e == SteppedDifficulty(d, nBits)
           b == SteppedLength(d, nBits)
<1>1. nBits \in Nat /\ b \in Nat
  BY SteppedLengths
<1>2. d \in nFractionalDifficultyMin..nFractionalDifficultyMax
  BY <1>1, NewDifficultyBounds
<1>3. nFractionalDifficultyMin \in Nat /\ nFractionalDifficultyThreshold \in Nat
      /\ nFractionalDifficultyMin < nFractionalDifficultyThreshold
      /\ nFractionalDifficultyMax \in Int
  BY TargetAssumption DEF nFractionalDifficultyMax
<1>4. e \in nFractionalDifficultyMin..nFractionalDifficultyThreshold
  BY <1>2, <1>3 DEF SteppedDifficulty, StepsUp
<1>5. TargetGetNext(nBits, s) =
        IF DifficultyRefused(e) THEN 0 ELSE TargetSetFractionalDifficulty(e, b)
  BY DEF TargetGetNext
<1> HIDE DEF d, e, b
<1>6. e \in nFractionalDifficultyMin..nFractionalDifficultyMax
  BY <1>1, <1>4, ThresholdKept
<1>7. /\ ~DifficultyRefused(e)
      /\ nFractionalDifficultyMax \div e \in 1..FractionalOne
      /\ TargetSetFractionalDifficulty(e, b) =
            FractionalOne * TargetGetLength(b) + (FractionalOne - nFractionalDifficultyMax \div e)
  BY <1>1, <1>6, DifficultySets
<1> QED
  BY <1>2, <1>4, <1>5, <1>7 DEF d, e, b

(* The result of TargetGetNext on a valid target is sound. *)
LEMMA NextIsSound ==
    ASSUME NEW nBits \in ValidTargets, NEW s \in Int, Divisor(s) # 0
    PROVE  TargetGetNext(nBits, s) \in Nat /\ TargetSound(TargetGetNext(nBits, s))
<1> DEFINE d == NewDifficulty(nBits, s)
           e == SteppedDifficulty(d, nBits)
           b == SteppedLength(d, nBits)
           q == nFractionalDifficultyMax \div e
           t == TargetGetNext(nBits, s)
           n == TargetGetLength(b)
<1>1. /\ e \in nFractionalDifficultyMin..nFractionalDifficultyThreshold
      /\ q \in 1..FractionalOne
      /\ t = TargetSetFractionalDifficulty(e, b)
      /\ t = FractionalOne * n + (FractionalOne - q)
  BY NextValue
<1>2. b \in Nat /\ n \in nTargetMinLength..(nTargetMaxLength + 1)
  BY SteppedLengths
<1> HIDE DEF d, e, b, q, t, n
<1>3. TargetGetFractionalDifficulty(t) <= nFractionalDifficultyThreshold
  BY <1>1, <1>2, ThresholdKept, Zenon
<1>4. FractionalOne \in Nat \ {0} /\ nTargetMinLength \in Nat /\ nTargetMaxLength \in Nat
      /\ nTargetMaxLength < 254
  BY TargetAssumption
<1>5. FractionalOne * nTargetMinLength <= FractionalOne * n
      /\ FractionalOne * (n + 1) <= FractionalOne * 255
  BY <1>2, <1>4, TimesMonotone
<1>6. FractionalOne * n \in Nat /\ FractionalOne * (n + 1) = FractionalOne * n + FractionalOne
      /\ nTargetMinLength * FractionalOne = FractionalOne * nTargetMinLength
      /\ FractionalOne * nTargetMinLength \in Nat
  BY <1>2, <1>4
<1>7. t \in Nat /\ nTargetMinLength * FractionalOne <= t /\ t <= 256 * FractionalOne - 1
  BY <1>1, <1>4, <1>5, <1>6
<1>8. nTargetMinLength * FractionalOne \in Int /\ 256 * FractionalOne - 1 \in Int
  BY <1>4
<1> QED
  BY <1>3, <1>7, <1>8 DEF TargetSound, TargetGetLimit, TargetFromInt, UIntMax, t

(* A target of a whole length is sound. *)
LEMMA WholeIsSound ==
    ASSUME NEW n \in nTargetMinLength..nTargetMaxLength
    PROVE  /\ TargetFromInt(n) \in ValidTargets /\ TargetFromInt(n) \in Nat
           /\ TargetSound(TargetFromInt(n))
<1>1. /\ FractionalOne \in Nat \ {0} /\ nTargetMinLength \in Nat /\ nTargetMaxLength \in Nat
      /\ nTargetMaxLength < 254 /\ n \in Nat
      /\ nFractionalDifficultyMin \in Nat /\ nFractionalDifficultyThreshold \in Nat
      /\ nFractionalDifficultyMin < nFractionalDifficultyThreshold
  BY TargetAssumption
<1>2. TargetFromInt(n) = FractionalOne * n + 0 /\ 0 \in 0..(FractionalOne - 1)
  BY <1>1 DEF TargetFromInt
<1>3. /\ TargetFromInt(n) \in Nat /\ TargetGetLength(TargetFromInt(n)) = n
      /\ TargetGetFractional(TargetFromInt(n)) = 0
  BY <1>1, <1>2, PartsUnique
<1>4. TargetFromInt(n) \in ValidTargets
  BY <1>3, ValidIsAllowed
<1>5. TargetGetFractionalDifficulty(TargetFromInt(n)) = nFractionalDifficultyMin
  <2>1. TargetGetFractionalDifficulty(TargetFromInt(n)) =
          (FractionalOne * nFractionalDifficultyMin) \div FractionalOne
    BY <1>1, <1>3 DEF TargetGetFractionalDifficulty, nFractionalDifficultyMax
  <2>2. FractionalOne * nFractionalDifficultyMin \in Int
    BY <1>1
  <2>3. (FractionalOne * nFractionalDifficultyMin) \div FractionalOne = nFractionalDifficultyMin
    BY <1>1, <2>2, DivUnique
  <2> QED BY <2>1, <2>3
<1>6. TargetFromInt(n) \in TargetGetLimit..(UIntMax - 1)
  <2>1. FractionalOne * (nTargetMaxLength + 1) <= FractionalOne * 256
    BY <1>1, TimesMonotone
  <2>2. TargetFromInt(nTargetMaxLength + 1) <= UIntMax
        /\ TargetFromInt(nTargetMaxLength + 1) \in Int /\ UIntMax \in Int /\ TargetGetLimit \in Int
    BY <1>1, <2>1 DEF TargetFromInt, UIntMax, TargetGetLimit
  <2> QED BY <1>3, <1>4, <2>2 DEF ValidTargets
<1> QED
  BY <1>1, <1>3, <1>4, <1>5, <1>6 DEF TargetSound

-----------------------------------------------------------------------------
(* The chain: every target it ever has is valid and sound. *)
LEMMA InitTargets == Init => TargetInv
<1> SUFFICES ASSUME Init PROVE TargetInv
  OBVIOUS
<1>1. vTime = <<0>> /\ vBits = <<TargetFromInt(nGenesisLength)>>
  BY DEF Init
<1>2. nGenesisLength \in nTargetMinLength..nTargetMaxLength
  BY RetargetAssumption
<1>3. TargetFromInt(nGenesisLength) \in ValidTargets /\ TargetFromInt(nGenesisLength) \in Nat
      /\ TargetSound(TargetFromInt(nGenesisLength))
  BY <1>2, WholeIsSound
<1> QED
  BY <1>1, <1>3 DEF TargetInv

(* The target AcceptBlock demands is sound, and valid if it is allowed. *)
LEMMA DemandIsSound ==
    ASSUME TargetInv, ~WorkThrows
    PROVE  GetNextWorkRequired \in Nat /\ TargetSound(GetNextWorkRequired)
<1>1. CASE AdjustsTarget
  <2>1. Len(vBits) \in Nat /\ Len(vBits) > 2 /\ Len(vTime) = Len(vBits)
    BY <1>1 DEF AdjustsTarget, TargetInv
  <2>2. nTip \in ValidTargets
    BY <2>1 DEF TargetInv, nTip
  <2>3. vTime[Len(vTime)] \in Int /\ vTime[Len(vTime) - 1] \in Int
    BY <2>1 DEF TargetInv
  <2>4. nActualSpacing \in Int
    BY <2>3 DEF nActualSpacing
  <2>5. Divisor(nActualSpacing) # 0
    BY <1>1 DEF WorkThrows
  <2> QED BY <1>1, <2>2, <2>4, <2>5, NextIsSound DEF GetNextWorkRequired
<1>2. CASE ~AdjustsTarget
  <2>1. nTargetInitialLength \in nTargetMinLength..nTargetMaxLength
    BY TargetAssumption
  <2> QED BY <1>2, <2>1, WholeIsSound DEF GetNextWorkRequired, TargetGetInitial
<1> QED
  BY <1>1, <1>2

LEMMA TargetStep == TargetInv /\ [Next]_vars => TargetInv'
<1> SUFFICES ASSUME TargetInv, [Next]_vars PROVE TargetInv'
  OBVIOUS
<1>1. ASSUME NEW t \in 0..(MaxTime + nMaxDrift), NEW hash \in Hashes, NEW mult \in Multipliers,
             AcceptBlock(t, hash, mult)
      PROVE  TargetInv'
  <2> DEFINE nBits == GetNextWorkRequired
  <2>1. nBits \in Nat /\ TargetSound(nBits)
    BY <1>1, DemandIsSound DEF AcceptBlock
  <2>2. /\ CheckPrimeProofOfWork(hash, nBits, mult) > 0
        /\ vTime' = Append(vTime, t) /\ vBits' = Append(vBits, nBits)
    BY <1>1 DEF AcceptBlock, AddToBlockIndex
  <2> HIDE DEF nBits
  <2>3. TargetAllowed(nBits)
    <3>1. ~TargetAllowed(nBits) => CheckPrimeProofOfWork(hash, nBits, mult) = 0
      BY Zenon DEF CheckPrimeProofOfWork
    <3> QED BY <2>2, <3>1
  <2>4. nBits \in ValidTargets
    BY <2>1, <2>3, ValidIsAllowed DEF TargetAllowed
  <2>5. t \in Int
    BY <1>1, RetargetAssumption
  <2>6. /\ vTime \in Seq(Int) /\ vBits \in Seq(Nat) /\ Len(vTime) = Len(vBits) /\ Len(vBits) > 0
        /\ \A i \in 1..Len(vBits) : vBits[i] \in ValidTargets /\ TargetSound(vBits[i])
    BY DEF TargetInv
  <2>7. /\ vTime' \in Seq(Int) /\ vBits' \in Seq(Nat) /\ Len(vTime') = Len(vBits')
        /\ Len(vBits') = Len(vBits) + 1 /\ Len(vBits) \in Nat
        /\ vBits'[Len(vBits) + 1] = nBits
        /\ \A i \in 1..Len(vBits) : vBits'[i] = vBits[i]
    BY <2>1, <2>2, <2>5, <2>6
  <2>8. ASSUME NEW i \in 1..Len(vBits') PROVE vBits'[i] \in ValidTargets /\ TargetSound(vBits'[i])
    <3>1. CASE i \in 1..Len(vBits)  BY <2>6, <2>7, <3>1
    <3>2. CASE i = Len(vBits) + 1  BY <2>1, <2>4, <2>7, <3>2
    <3> QED BY <2>7, <3>1, <3>2
  <2> QED BY <2>6, <2>7, <2>8 DEF TargetInv
<1>2. CASE Tick
  BY <1>2 DEF Tick, TargetInv
<1>3. CASE UNCHANGED vars
  BY <1>3 DEF vars, TargetInv
<1> QED
  BY <1>1, <1>2, <1>3 DEF Next

(* Every target a chain ever has is at least the minimum, fits in 32 bits  *)
(* and has a fractional difficulty up to the threshold (TargetGetNext,     *)
(* CheckPrimeProofOfWork), for every scale and every timestamps.           *)
THEOREM TargetsAlwaysSound == Spec => []TargetInv
BY InitTargets, TargetStep, PTL DEF Spec

LEMMA TipIsValid == TargetInv => nTip \in ValidTargets /\ nTip \in Nat /\ TargetSound(nTip)
BY DEF TargetInv, nTip

LEMMA SpacingsAreInts == Spacings \subseteq Int
BY RetargetAssumption DEF Spacings

(* TargetGetNext never fails, and always returns a sound target, on the    *)
(* targets a chain can have, except for the spacing that makes it divide   *)
(* by zero.                                                                *)
THEOREM NextTargetAlwaysSound == Spec => []NextTargetSound
<1>1. TargetInv => NextTargetSound
  BY TipIsValid, SpacingsAreInts, NextIsSound DEF NextTargetSound
<1> QED
  BY <1>1, TargetsAlwaysSound, PTL

-----------------------------------------------------------------------------
(* What the adjustment computes. *)

(* The numbers the adjustment multiplies and divides by. *)
LEMMA AdjustmentTypes ==
    /\ nInterval \in Int /\ nInterval >= 1 /\ nTargetSpacing \in Nat \ {0}
    /\ (nInterval + 1) * nTargetSpacing \in Nat \ {0}
    /\ \A s \in Int : Divisor(s) \in Int
    /\ Divisor(nTargetSpacing) = (nInterval + 1) * nTargetSpacing
<1>1. nTargetSpacing \in Nat \ {0} /\ nTargetTimespan \in Nat /\ 2 * nTargetSpacing <= nTargetTimespan
  BY TargetAssumption
<1>2. nTargetSpacing * 1 <= nTargetTimespan
  BY <1>1
<1>3. nInterval \in Int /\ nInterval >= 1
  BY <1>1, <1>2, DivBounds, DivAtLeast DEF nInterval
<1>4. (nInterval + 1) * nTargetSpacing \in Nat \ {0}
  BY <1>1, <1>3, TimesMonotone
<1>5. \A s \in Int : Divisor(s) \in Int
  BY <1>1, <1>3 DEF Divisor
<1>6. Divisor(nTargetSpacing) = (nInterval + 1) * nTargetSpacing
  BY <1>1, <1>3 DEF Divisor
<1> QED
  BY <1>1, <1>3, <1>4, <1>5, <1>6

(* A longer interval does not give a larger difficulty. *)
LEMMA DifficultyFalls ==
    ASSUME NEW nBits \in Nat, NEW s \in Int, Divisor(s) > 0
    PROVE  /\ Divisor(s + 1) > 0
           /\ NewDifficulty(nBits, s + 1) <= NewDifficulty(nBits, s)
<1> DEFINE N == TargetGetFractionalDifficulty(nBits) * ((nInterval + 1) * nTargetSpacing)
           x == N \div Divisor(s)
           y == N \div Divisor(s + 1)
<1>1. Divisor(s) \in Int /\ Divisor(s + 1) \in Int /\ Divisor(s + 1) = Divisor(s) + 2
  <2>1. nInterval \in Int /\ nTargetSpacing \in Int /\ (nInterval - 1) * nTargetSpacing \in Int
    BY AdjustmentTypes
  <2> QED BY <2>1 DEF Divisor
<1>2. N \in Nat
  <2>1. TargetGetFractionalDifficulty(nBits) \in nFractionalDifficultyMin..nFractionalDifficultyMax
    BY DifficultyBounds
  <2>2. TargetGetFractionalDifficulty(nBits) \in Nat
    BY <2>1, TargetAssumption DEF nFractionalDifficultyMax
  <2>3. (nInterval + 1) * nTargetSpacing \in Nat
    BY AdjustmentTypes
  <2> HIDE DEF N
  <2>4. \A u, v \in Nat : u * v \in Nat
    OBVIOUS
  <2> QED BY <2>2, <2>3, <2>4 DEF N
<1> HIDE DEF N
<1>3. x \in Int /\ y \in Int /\ y <= x
  BY <1>1, <1>2, DivBounds, DivAntitone
<1>4. NewDifficulty(nBits, s) = Clamped(x) /\ NewDifficulty(nBits, s + 1) = Clamped(y)
  BY <1>1 DEF NewDifficulty, BigDiv, N
<1> HIDE DEF x, y
<1>5. nFractionalDifficultyMin \in Int /\ nFractionalDifficultyMax \in Int
      /\ nFractionalDifficultyMin <= nFractionalDifficultyMax
  <2>1. nFractionalDifficultyMin \in Nat /\ FractionalOne \in Nat \ {0}
    BY TargetAssumption
  <2>2. 1 * nFractionalDifficultyMin <= FractionalOne * nFractionalDifficultyMin
    BY <2>1, TimesMonotone
  <2> QED BY <2>1, <2>2 DEF nFractionalDifficultyMax
<1>6. Clamped(y) <= Clamped(x)
  BY <1>3, <1>5 DEF Clamped
<1> QED
  BY <1>1, <1>4, <1>6

(* A larger difficulty, stepped and written into the target, is no smaller *)
(* a target.                                                               *)
LEMMA HarderTarget ==
    ASSUME NEW nBits \in ValidTargets, NEW s \in Int, NEW r \in Int,
           Divisor(s) # 0, Divisor(r) # 0,
           NewDifficulty(nBits, r) <= NewDifficulty(nBits, s)
    PROVE  TargetGetNext(nBits, r) <= TargetGetNext(nBits, s)
<1> DEFINE L == TargetGetLength(nBits)
           ds == NewDifficulty(nBits, s)
           dr == NewDifficulty(nBits, r)
           es == SteppedDifficulty(ds, nBits)
           er == SteppedDifficulty(dr, nBits)
           ns == TargetGetLength(SteppedLength(ds, nBits))
           nr == TargetGetLength(SteppedLength(dr, nBits))
           qs == nFractionalDifficultyMax \div es
           qr == nFractionalDifficultyMax \div er
<1>1. /\ FractionalOne \in Nat \ {0} /\ L \in Nat /\ ns \in Nat /\ nr \in Nat
      /\ nFractionalDifficultyMin \in Nat \ {0} /\ nFractionalDifficultyThreshold \in Nat
      /\ nFractionalDifficultyMin < nFractionalDifficultyThreshold
  <2>1. nTargetMinLength \in Nat /\ nTargetMaxLength \in Nat
    BY TargetAssumption
  <2>2. L \in nTargetMinLength..nTargetMaxLength
        /\ ns \in nTargetMinLength..(nTargetMaxLength + 1)
        /\ nr \in nTargetMinLength..(nTargetMaxLength + 1)
    BY SteppedLengths
  <2> QED BY <2>1, <2>2, TargetAssumption
<1>2. /\ ds \in Int /\ dr \in Int /\ dr <= ds
      /\ nFractionalDifficultyMin <= ds /\ nFractionalDifficultyMin <= dr
      /\ es \in Nat \ {0} /\ er \in Nat \ {0} /\ qs \in 1..FractionalOne /\ qr \in 1..FractionalOne
      /\ TargetGetNext(nBits, s) = FractionalOne * ns + (FractionalOne - qs)
      /\ TargetGetNext(nBits, r) = FractionalOne * nr + (FractionalOne - qr)
  <2>1. /\ ds \in nFractionalDifficultyMin..nFractionalDifficultyMax
        /\ es \in nFractionalDifficultyMin..nFractionalDifficultyThreshold
        /\ qs \in 1..FractionalOne
        /\ TargetGetNext(nBits, s) = FractionalOne * ns + (FractionalOne - qs)
    BY NextValue
  <2>2. /\ dr \in nFractionalDifficultyMin..nFractionalDifficultyMax
        /\ er \in nFractionalDifficultyMin..nFractionalDifficultyThreshold
        /\ qr \in 1..FractionalOne
        /\ TargetGetNext(nBits, r) = FractionalOne * nr + (FractionalOne - qr)
    BY NextValue
  <2> HIDE DEF ds, dr, es, er, ns, nr, qs, qr
  <2> QED BY <1>1, <2>1, <2>2 DEF ds, dr
<1>3. /\ ns = IF StepsUp(ds) THEN L + 1 ELSE IF StepsDown(ds, nBits) THEN L - 1 ELSE L
      /\ nr = IF StepsUp(dr) THEN L + 1 ELSE IF StepsDown(dr, nBits) THEN L - 1 ELSE L
  BY SteppedLengths
<1>4. /\ StepsUp(dr) => StepsUp(ds)
      /\ StepsDown(ds, nBits) => StepsDown(dr, nBits)
      /\ StepsUp(ds) => ~StepsDown(ds, nBits)
      /\ StepsUp(dr) => ~StepsDown(dr, nBits)
  <2> HIDE DEF ds, dr
  <2> QED BY <1>1, <1>2 DEF StepsUp, StepsDown
<1>5. CASE nr < ns
  <2> HIDE DEF ns, nr, qs, qr
  <2>1. FractionalOne * (nr + 1) <= FractionalOne * ns
    BY <1>1, <1>5, TimesMonotone
  <2> QED BY <1>1, <1>2, <2>1, Z3
<1>6. CASE nr >= ns
  <2>1. nr = ns /\ (StepsUp(ds) <=> StepsUp(dr)) /\ (StepsDown(ds, nBits) <=> StepsDown(dr, nBits))
    <3> HIDE DEF ns, nr, L
    <3> QED BY <1>1, <1>3, <1>4, <1>6
  <2>2. er <= es
    <3> HIDE DEF ds, dr
    <3> QED BY <1>1, <1>2, <2>1 DEF SteppedDifficulty
  <2>3. qs <= qr
    <3>1. nFractionalDifficultyMax \in Nat
      BY <1>1 DEF nFractionalDifficultyMax
    <3> HIDE DEF es, er
    <3> QED BY <1>2, <2>2, <3>1, DivAntitone
  <2> HIDE DEF ns, nr, qs, qr
  <2>4. FractionalOne * ns \in Int
    BY <1>1
  <2> QED BY <1>1, <1>2, <2>1, <2>3, <2>4
<1> QED
  BY <1>1, <1>5, <1>6

(* A longer interval never leads to a harder target while the divisor of   *)
(* TargetGetNext is positive, also where the length steps up or down.      *)
THEOREM SlowerAlwaysEasier == Spec => []SlowerIsEasier
<1>1. TargetInv => SlowerIsEasier
  <2> SUFFICES ASSUME TargetInv, NEW s \in Spacings, Divisor(s) > 0
               PROVE  TargetGetNext(nTip, s) >= TargetGetNext(nTip, s + 1)
    BY DEF SlowerIsEasier
  <2>1. s \in Int /\ s + 1 \in Int /\ nTip \in ValidTargets /\ nTip \in Nat
    BY SpacingsAreInts, TipIsValid
  <2>2. Divisor(s + 1) > 0 /\ NewDifficulty(nTip, s + 1) <= NewDifficulty(nTip, s)
    BY <2>1, DifficultyFalls
  <2>3. Divisor(s) # 0 /\ Divisor(s + 1) # 0
    BY <2>1, <2>2, AdjustmentTypes
  <2>4. TargetGetNext(nTip, s + 1) <= TargetGetNext(nTip, s)
    BY <2>1, <2>2, <2>3, HarderTarget
  <2>5. TargetGetNext(nTip, s) \in Nat /\ TargetGetNext(nTip, s + 1) \in Nat
    BY <2>1, <2>3, NextIsSound
  <2> QED BY <2>4, <2>5
<1> QED
  BY <1>1, TargetsAlwaysSound, PTL

(* Reading a difficulty and writing it back is exact. *)
LEMMA DifficultyRoundTrip ==
    ASSUME NEW nBits \in Nat
    PROVE  TargetSetFractionalDifficulty(TargetGetFractionalDifficulty(nBits), nBits) = nBits
<1> DEFINE x == FractionalOne - TargetGetFractional(nBits)
           X == nFractionalDifficultyMax
           d == TargetGetFractionalDifficulty(nBits)
<1>1. /\ FractionalOne \in Nat \ {0} /\ nFractionalDifficultyMin \in Nat
      /\ FractionalOne <= nFractionalDifficultyMin /\ X \in Nat
  BY TargetAssumption DEF nFractionalDifficultyMax
<1>2. TargetGetFractional(nBits) \in 0..(FractionalOne - 1)
  BY TargetParts
<1>3. x \in Nat \ {0} /\ x <= FractionalOne
  BY <1>1, <1>2
<1>4. d = X \div x
  BY DEF TargetGetFractionalDifficulty
<1>5. d \in nFractionalDifficultyMin..X
  BY DifficultyBounds
<1> HIDE DEF d, X, x
<1>6. d \in Nat \ {0} /\ x <= d
  BY <1>1, <1>3, <1>5
<1>7. x * d <= X /\ X < x * d + x
  BY <1>1, <1>3, <1>4, DivBounds
<1>8. x * d = d * x /\ d * x \in Int
  BY <1>3, <1>6
<1>9. d * x <= X /\ X < d * x + d
  BY <1>1, <1>3, <1>6, <1>7, <1>8
<1>10. X \div d = x
  BY <1>1, <1>3, <1>6, <1>9, DivUnique
<1>11. nBits - TargetGetFractional(nBits) + (FractionalOne - x) = nBits
  BY <1>1, <1>2 DEF x
<1> QED
  BY <1>10, <1>11 DEF TargetSetFractionalDifficulty, d, X

(* Blocks exactly nTargetSpacing apart keep the target, for every scale:   *)
(* the conversions of TargetGetNext lose nothing.                          *)
THEOREM NominalAlwaysKeepsTarget == Spec => []NominalKeepsTarget
<1>1. TargetInv => NominalKeepsTarget
  <2> SUFFICES ASSUME TargetInv,
                      TargetGetFractional(nTip) # 0 \/ TargetGetLength(nTip) = nTargetMinLength
               PROVE  TargetGetNext(nTip, nTargetSpacing) = nTip
    BY DEF NominalKeepsTarget
  <2> DEFINE D == TargetGetFractionalDifficulty(nTip)
             K == (nInterval + 1) * nTargetSpacing
  <2>1. nTip \in Nat /\ nTip \in ValidTargets /\ D <= nFractionalDifficultyThreshold
    BY TipIsValid DEF TargetSound
  <2>2. K \in Nat \ {0} /\ Divisor(nTargetSpacing) = K /\ nTargetSpacing \in Int
    BY AdjustmentTypes
  <2>3. D \in nFractionalDifficultyMin..nFractionalDifficultyMax
        /\ (TargetGetFractional(nTip) # 0 => D > nFractionalDifficultyMin)
    BY <2>1, DifficultyBounds
  <2>4. nFractionalDifficultyMin \in Nat /\ nFractionalDifficultyMax \in Nat
        /\ nFractionalDifficultyThreshold \in Nat /\ nTargetMinLength \in Nat
    BY TargetAssumption DEF nFractionalDifficultyMax
  <2>5. NewDifficulty(nTip, nTargetSpacing) = Clamped(BigDiv(D * K, K))
    BY <2>2 DEF NewDifficulty
  <2> HIDE DEF D, K
  <2>6. D \in Nat
    BY <2>3, <2>4
  <2>7. BigDiv(D * K, K) = D
    <3>1. D * K \in Int /\ K * D <= D * K /\ D * K < K * D + K
      BY <2>2, <2>6
    <3>2. (D * K) \div K = D
      BY <2>2, <2>6, <3>1, DivUnique
    <3> QED BY <2>2, <3>2 DEF BigDiv
  <2>8. NewDifficulty(nTip, nTargetSpacing) = D
    BY <2>3, <2>4, <2>5, <2>6, <2>7 DEF Clamped
  <2>9. ~StepsUp(D) /\ ~StepsDown(D, nTip)
    BY <2>1, <2>3, <2>4, <2>6 DEF StepsUp, StepsDown
  <2>10. SteppedDifficulty(D, nTip) = D /\ SteppedLength(D, nTip) = nTip
    BY <2>9 DEF SteppedDifficulty, SteppedLength
  <2>11. Divisor(nTargetSpacing) # 0
    BY <2>2
  <2>12. TargetGetNext(nTip, nTargetSpacing) = TargetSetFractionalDifficulty(D, nTip)
    BY <2>1, <2>2, <2>8, <2>10, <2>11, NextValue
  <2> QED
    BY <2>1, <2>12, DifficultyRoundTrip DEF D
<1> QED
  BY <1>1, TargetsAlwaysSound, PTL

-----------------------------------------------------------------------------
(* The reward. *)

(* Dividing by something at least as large does not make a number larger.  *)
LEMMA ScaledDown ==
    ASSUME NEW a \in Nat, NEW One \in Nat \ {0}, NEW b \in Nat, One <= b
    PROVE  LET u == (a * One) \div b
           IN  u \in Nat /\ u <= a /\ b * u <= a * One /\ a * One < b * u + b
<1>1. a * One \in Nat /\ b * 0 <= a * One /\ b > 0
  OBVIOUS
<1>2. a * One <= b * a
  BY TimesMonotone, Z3
<1>3. (a * One) \div b \in Int /\ b * ((a * One) \div b) <= a * One
      /\ a * One < b * ((a * One) \div b) + b
  BY <1>1, DivBounds
<1>4. (a * One) \div b >= 0 /\ (a * One) \div b <= a
  BY <1>1, <1>2, DivAtLeast, DivAtMost
<1> QED
  BY <1>3, <1>4

(* The arithmetic of two truncating divisions and a rounding. *)
LEMMA InverseSquare ==
    ASSUME NEW M \in Nat, NEW One \in Nat \ {0}, NEW b \in Nat, One <= b, NEW cent \in Nat \ {0},
           NEW u \in Nat, b * u <= M * One, M * One < b * u + b,
           NEW v \in Nat, b * v <= u * One, u * One < b * v + b,
           NEW m \in Nat, m <= v, v < m + cent
    PROVE  /\ m * b * b <= M * (One * One)
           /\ M * (One * One) < (m + cent + 1) * b * b
<1>1. m * b * b <= M * (One * One)
  <2>1. m * b <= v * b
    BY TimesMonotone
  <2>2. m * b <= u * One
    BY <2>1, Z3
  <2>3. (m * b) * b <= (u * One) * b
    BY <2>2, TimesMonotone
  <2>4. (u * One) * b = (b * u) * One
    BY Z3
  <2>5. (b * u) * One <= (M * One) * One
    BY TimesMonotone
  <2>6. (M * One) * One = M * (One * One)
    BY Z3
  <2> QED BY <2>3, <2>4, <2>5, <2>6, Z3
<1>2. M * (One * One) < (m + cent + 1) * b * b
  <2>1. (M * One) * One < (b * u + b) * One
    BY Z3
  <2>2. (b * u + b) * One = b * (u * One + One)
    BY Z3
  <2>3. u * One + One <= (v + 2) * b
    BY Z3
  <2>4. (v + 2) * b <= (m + cent + 1) * b
    BY TimesMonotone
  <2>5. u * One + One <= (m + cent + 1) * b
    BY <2>3, <2>4, Z3
  <2>6. b * (u * One + One) <= b * ((m + cent + 1) * b)
    BY <2>5, TimesMonotone
  <2>7. b * ((m + cent + 1) * b) = (m + cent + 1) * b * b
    BY Z3
  <2>8. (M * One) * One = M * (One * One)
    BY Z3
  <2> QED BY <2>1, <2>2, <2>6, <2>7, <2>8, Z3
<1> QED
  BY <1>1, <1>2

(* The reward is the limit over the square of the target, to the cent      *)
(* (TargetGetMint), for every scale and every target a chain can have.     *)
THEOREM MintAlwaysInverseSquare == Spec => []MintIsInverseSquare
<1>1. TargetInv => MintIsInverseSquare
  <2> SUFFICES ASSUME TargetInv PROVE MintIsInverseSquare
    OBVIOUS
  <2> DEFINE b == nTip
             u == (nMintLimit * FractionalOne) \div b
             v == (u * FractionalOne) \div b
             m == (v \div CENT) * CENT
  <2>1. nTip \in Nat /\ TargetGetLength(nTip) \in nTargetMinLength..nTargetMaxLength
    BY TipIsValid, ValidIsAllowed
  <2>2. FractionalOne \in Nat \ {0} /\ nMintLimit \in Nat /\ CENT \in Nat \ {0}
        /\ nTargetMinLength \in Nat \ {0} /\ nTargetMaxLength \in Nat
    BY TargetAssumption
  <2>3. FractionalOne <= b
    <3>1. TargetGetFractional(nTip) \in 0..(FractionalOne - 1)
          /\ nTip = FractionalOne * TargetGetLength(nTip) + TargetGetFractional(nTip)
          /\ TargetGetLength(nTip) \in Nat
      BY <2>1, TargetParts
    <3>2. FractionalOne * 1 <= FractionalOne * TargetGetLength(nTip)
      BY <2>1, <2>2, <3>1, TimesMonotone
    <3> QED BY <2>2, <3>1, <3>2
  <2>4. u \in Nat /\ u <= nMintLimit /\ b * u <= nMintLimit * FractionalOne
        /\ nMintLimit * FractionalOne < b * u + b
    BY <2>1, <2>2, <2>3, ScaledDown
  <2>5. TargetGetMint(nTip) = IF m > nMintLimit THEN 0 ELSE m
    BY <2>1, <2>2 DEF TargetGetMint, MintUnrounded
  <2> HIDE DEF u, b
  <2>6. v \in Nat /\ v <= u /\ b * v <= u * FractionalOne /\ u * FractionalOne < b * v + b
    BY <2>1, <2>2, <2>3, <2>4, ScaledDown DEF b
  <2> HIDE DEF v
  <2>7. m \in Nat /\ m <= v /\ v < m + CENT
    <3>1. v \div CENT \in Int /\ CENT * (v \div CENT) <= v /\ v < CENT * (v \div CENT) + CENT
      BY <2>2, <2>6, DivBounds
    <3>2. v \div CENT >= 0
      BY <2>2, <2>6, DivAtLeast
    <3>3. m = CENT * (v \div CENT) /\ m \in Nat
      BY <2>2, <3>1, <3>2
    <3> QED BY <3>1, <3>3
  <2> HIDE DEF m
  <2>8. TargetGetMint(nTip) = m
    BY <2>2, <2>4, <2>5, <2>6, <2>7
  <2>9. m * b * b <= nMintLimit * (FractionalOne * FractionalOne)
        /\ nMintLimit * (FractionalOne * FractionalOne) < (m + CENT + 1) * b * b
    BY <2>1, <2>2, <2>3, <2>4, <2>6, <2>7, InverseSquare DEF b
  <2> QED
    BY <2>8, <2>9 DEF MintIsInverseSquare, b
<1> QED
  BY <1>1, TargetsAlwaysSound, PTL
-----------------------------------------------------------------------------
(* The estimate of the work transition.                                    *)

LEMMA AverageBetween ==
    ASSUME NEW p \in Nat, NEW w \in Nat, NEW t \in Nat, NEW lo \in Nat, NEW hi \in Nat,
           lo <= p, p <= hi, lo <= t, t <= hi
    PROVE  Average(p, w, t) \in lo..hi
<1>1. lo * w <= p * w /\ p * w <= hi * w /\ lo * w \in Int /\ p * w \in Int /\ hi * w \in Int
  BY TimesMonotone
<1>2. (w + 2) * lo = lo * w + 2 * lo /\ (w + 2) * hi = hi * w + 2 * hi
  BY Z3
<1>3. (w + 2) * lo <= p * w + 2 * t /\ p * w + 2 * t <= (w + 2) * hi
  BY <1>1, <1>2
<1>4. p * w + 2 * t \in Int /\ w + 2 \in Int /\ w + 2 > 0
  BY <1>1
<1>5. (p * w + 2 * t) \div (w + 2) \in Int
  BY <1>4, DivBounds
<1>6. (p * w + 2 * t) \div (w + 2) >= lo
  BY <1>3, <1>4, DivAtLeast
<1>7. (p * w + 2 * t) \div (w + 2) <= hi
  BY <1>3, <1>4, DivAtMost
<1> QED BY <1>5, <1>6, <1>7 DEF Average

(* The estimate moves towards the block's length or the next one. *)
LEMMA EstimateBetween ==
    ASSUME NEW p \in Nat, NEW b \in ValidTargets, b \in Nat, NEW len, NEW hi \in Nat,
           TargetGetLimit <= p, p <= hi, TargetFromInt(TargetGetLength(b) + 1) <= hi
    PROVE  EstimateWorkTransition(p, b, len) \in TargetGetLimit..hi
<1> DEFINE n == TargetGetLength(b)
           d == TargetGetFractionalDifficulty(b)
           w == ((nEstimateInterval - 1) * d) \div nFractionalDifficultyMin
<1>1. n \in Nat /\ n >= nTargetMinLength /\ nTargetMinLength \in Nat /\ FractionalOne \in Nat
  BY ValidIsAllowed, TargetParts, TargetAssumption
<1>2. d \in Nat /\ nFractionalDifficultyMin \in Nat /\ nFractionalDifficultyMin > 0
      /\ nEstimateInterval - 1 \in Nat
  BY DifficultyBounds, TargetAssumption DEF nFractionalDifficultyMax
<1>3. w \in Nat
  <2>1. (nEstimateInterval - 1) * d \in Nat
    BY <1>2, Z3
  <2>2. w \in Int
    BY <1>2, <2>1, DivBounds
  <2>3. w >= 0
    BY <1>2, <2>1, DivAtLeast
  <2> QED BY <2>2, <2>3
<1>4. /\ TargetGetLimit \in Nat /\ TargetFromInt(n) \in Nat /\ TargetFromInt(n + 1) \in Nat
      /\ TargetGetLimit <= TargetFromInt(n) /\ TargetFromInt(n) <= hi
      /\ TargetGetLimit <= TargetFromInt(n + 1) /\ TargetFromInt(n + 1) <= hi
  <2>1. /\ nTargetMinLength * FractionalOne <= n * FractionalOne
        /\ n * FractionalOne <= (n + 1) * FractionalOne
    BY <1>1, TimesMonotone
  <2>2. nTargetMinLength * FractionalOne \in Nat /\ n * FractionalOne \in Nat
        /\ (n + 1) * FractionalOne \in Nat
    BY <1>1, Z3
  <2> QED BY <2>1, <2>2 DEF TargetGetLimit, TargetFromInt
<1> HIDE DEF w, d, n
<1>5. Average(p, w, TargetFromInt(n)) \in TargetGetLimit..hi
  BY <1>3, <1>4, AverageBetween, Zenon
<1>6. Average(p, nEstimateInterval - 1, TargetFromInt(n + 1)) \in TargetGetLimit..hi
  BY <1>2, <1>4, AverageBetween, Zenon
<1>7. \/ EstimateWorkTransition(p, b, len) = Average(p, w, TargetFromInt(n))
      \/ EstimateWorkTransition(p, b, len) = Average(p, nEstimateInterval - 1, TargetFromInt(n + 1))
  BY Zenon DEF EstimateWorkTransition, w, d, n
<1> QED BY <1>5, <1>6, <1>7

TransitionInv == nWorkTransition \in Nat /\ TransitionInRange

LEMMA InitTransition == Init => TransitionInv
<1> SUFFICES ASSUME Init PROVE TransitionInv
  OBVIOUS
<1> DEFINE b == TargetFromInt(nGenesisLength)
           top == TargetFromInt(TargetGetLength(b) + 1)
<1>1. vBits = <<b>> /\ nWorkTransition = EstimateWorkTransition(TargetGetInitial, b, b)
  BY DEF Init
<1>2. b \in ValidTargets /\ b \in Nat
  BY RetargetAssumption, WholeIsSound
<1>3. TargetGetInitial \in ValidTargets /\ TargetGetInitial \in Nat
  BY TargetAssumption, WholeIsSound DEF TargetGetInitial
<1>4. TargetGetLimit <= TargetGetInitial /\ TargetGetLimit \in Nat
  <2>1. TargetGetLimit \in Nat
    BY TargetAssumption, WholeIsSound DEF TargetGetLimit
  <2> QED BY <1>3, <2>1 DEF ValidTargets
<1>5. top \in Nat
  <2>1. TargetGetLength(b) \in Nat /\ FractionalOne \in Nat
    BY <1>2, TargetParts, TargetAssumption
  <2> QED BY <2>1, Z3 DEF TargetFromInt
<1> HIDE DEF b
<1>6. CASE top <= TargetGetInitial
  <2>1. nWorkTransition \in TargetGetLimit..TargetGetInitial
    BY <1>1, <1>2, <1>3, <1>4, <1>6, EstimateBetween
  <2> QED BY <1>3, <1>4, <2>1 DEF TransitionInv, TransitionInRange
<1>7. CASE TargetGetInitial <= top
  <2>1. nWorkTransition \in TargetGetLimit..top
    BY <1>1, <1>2, <1>3, <1>4, <1>5, <1>7, EstimateBetween
  <2>2. 1 \in DOMAIN vBits /\ vBits[1] = b
    BY <1>1
  <2> QED BY <1>4, <1>5, <2>1, <2>2 DEF TransitionInv, TransitionInRange
<1> QED BY <1>3, <1>5, <1>6, <1>7

LEMMA TransitionStep == TargetInv /\ TargetInv' /\ TransitionInv /\ [Next]_vars => TransitionInv'
<1> SUFFICES ASSUME TargetInv, TargetInv', TransitionInv, [Next]_vars PROVE TransitionInv'
  OBVIOUS
<1>1. ASSUME NEW t, NEW hash, NEW mult, AcceptBlock(t, hash, mult)
      PROVE  TransitionInv'
  <2>1. PICK nBits, len : /\ vBits' = Append(vBits, nBits)
                          /\ nWorkTransition' = EstimateWorkTransition(nWorkTransition, nBits, len)
    BY <1>1 DEF AcceptBlock, AddToBlockIndex
  <2>2. /\ vBits \in Seq(Nat) /\ vBits' \in Seq(Nat)
        /\ \A i \in 1..Len(vBits') : vBits'[i] \in ValidTargets
    BY DEF TargetInv
  <2>3. /\ Len(vBits') = Len(vBits) + 1 /\ Len(vBits) \in Nat
        /\ vBits'[Len(vBits) + 1] = nBits
        /\ \A i \in 1..Len(vBits) : vBits'[i] = vBits[i]
    BY <2>1, <2>2
  <2>4. nBits \in ValidTargets /\ nBits \in Nat
    <3>1. Len(vBits) + 1 \in 1..Len(vBits')
      BY <2>3
    <3> QED BY <2>2, <2>3, <3>1
  <2> DEFINE top == TargetFromInt(TargetGetLength(nBits) + 1)
  <2>5. top \in Nat /\ TargetGetLimit \in Nat
    <3>1. TargetGetLength(nBits) \in Nat /\ FractionalOne \in Nat
      BY <2>4, TargetParts, TargetAssumption
    <3>2. TargetGetLimit \in Nat
      BY TargetAssumption, WholeIsSound DEF TargetGetLimit
    <3> QED BY <3>1, <3>2, Z3 DEF TargetFromInt
  <2>6. nWorkTransition \in Nat /\ TargetGetLimit <= nWorkTransition
    BY <2>5 DEF TransitionInv, TransitionInRange
  <2>7. CASE nWorkTransition <= top
    <3>1. nWorkTransition' \in TargetGetLimit..top
      BY <2>1, <2>4, <2>5, <2>6, <2>7, EstimateBetween
    <3>2. Len(vBits) + 1 \in DOMAIN vBits' /\ top = TargetFromInt(TargetGetLength(vBits'[Len(vBits) + 1]) + 1)
      BY <2>2, <2>3
    <3> HIDE DEF top
    <3> QED BY <2>5, <3>1, <3>2 DEF TransitionInv, TransitionInRange
  <2>8. CASE top <= nWorkTransition
    <3>1. nWorkTransition' \in TargetGetLimit..nWorkTransition
      BY <2>1, <2>4, <2>5, <2>6, <2>8, EstimateBetween
    <3>2. nWorkTransition' \in Nat /\ TargetGetLimit <= nWorkTransition' /\ nWorkTransition' <= nWorkTransition
      BY <2>5, <2>6, <3>1
    <3>3. CASE nWorkTransition <= TargetGetInitial
      <4>1. TargetGetInitial \in Nat
        BY TargetAssumption, WholeIsSound DEF TargetGetInitial
      <4> QED BY <2>6, <3>2, <3>3, <4>1 DEF TransitionInv, TransitionInRange
    <3>4. ASSUME NEW i \in DOMAIN vBits,
                 nWorkTransition <= TargetFromInt(TargetGetLength(vBits[i]) + 1)
          PROVE  TransitionInv'
      <4>1. i \in 1..Len(vBits) /\ i \in DOMAIN vBits' /\ vBits'[i] = vBits[i] /\ vBits[i] \in Nat
        BY <2>2, <2>3, <3>4
      <4>2. TargetFromInt(TargetGetLength(vBits[i]) + 1) \in Nat
        <5>1. TargetGetLength(vBits[i]) \in Nat /\ FractionalOne \in Nat
          BY <4>1, TargetParts, TargetAssumption
        <5> QED BY <5>1, Z3 DEF TargetFromInt
      <4>3. nWorkTransition' <= TargetFromInt(TargetGetLength(vBits'[i]) + 1)
        BY <2>6, <3>2, <3>4, <4>1, <4>2
      <4> QED BY <3>2, <4>1, <4>3 DEF TransitionInv, TransitionInRange
    <3> QED BY <3>3, <3>4 DEF TransitionInv, TransitionInRange
  <2> QED BY <2>5, <2>6, <2>7, <2>8
<1>2. CASE Tick \/ UNCHANGED vars
  BY <1>2 DEF Tick, vars, TransitionInv, TransitionInRange
<1> QED BY <1>1, <1>2 DEF Next

(* Whatever the timestamps and the proofs of work: the targets of a chain  *)
(* and the next one demanded are sound, a longer interval makes it easier, *)
(* the nominal interval keeps it, the reward is the inverse square of the  *)
(* target, and EstimateWorkTransition stays within the targets there are;  *)
(* for every scale of the target.                                          *)
THEOREM TargetsAndRewardSound == Spec => []TargetsSound
<1>1. Spec => []TransitionInv
  BY InitTransition, TransitionStep, TargetsAlwaysSound, PTL DEF Spec
<1>2. TransitionInv => TransitionInRange
  BY DEF TransitionInv
<1> QED
  BY <1>1, <1>2, TargetsAlwaysSound, NextTargetAlwaysSound, SlowerAlwaysEasier,
     NominalAlwaysKeepsTarget, MintAlwaysInverseSquare, PTL DEF TargetsSound

=============================================================================
