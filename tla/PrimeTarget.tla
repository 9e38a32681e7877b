---------------------------- MODULE PrimeTarget -----------------------------
(***************************************************************************)
(* The target arithmetic of src/prime.cpp.  A target (nBits) is a 32 bit   *)
(* number: a chain length and, in the low nFractionalBits, a fraction.     *)
(* The fraction is kept as a "fractional difficulty" while it is adjusted. *)
(* The scale of both is a constant, so that TLC can use a small one.       *)
(***************************************************************************)
EXTENDS Integers, Sequences, FiniteSets, FiniteSetsExt

CONSTANTS
    FractionalOne,                    \* 1 << nFractionalBits
    nFractionalDifficultyMin,         \* 1 << 32
    nFractionalDifficultyThreshold,   \* 1 << (8 + 32)
    nTargetMinLength, nTargetInitialLength,
    nTargetMaxLength,                 \* 99
    nTargetSpacing, nTargetTimespan,
    nWorkTransitionRatio,
    nMintLimit, CENT,
    nEstimateInterval                 \* 500 in EstimateWorkTransition

nFractionalDifficultyMax == FractionalOne * nFractionalDifficultyMin

(* What the constants of prime.h and main.cpp satisfy: the threshold       *)
(* divides the maximum, and lengths stay below the 8 bits they have.       *)
ASSUME TargetAssumption ==
    /\ FractionalOne \in Nat \ {0}
    /\ nFractionalDifficultyMin \in Nat /\ nFractionalDifficultyMin >= FractionalOne
    /\ nFractionalDifficultyThreshold \in Nat
    /\ nFractionalDifficultyMin < nFractionalDifficultyThreshold
    /\ \E k \in 1..FractionalOne : nFractionalDifficultyMax = k * nFractionalDifficultyThreshold
    /\ nTargetMinLength \in Nat \ {0}
    /\ nTargetInitialLength \in nTargetMinLength..nTargetMaxLength
    /\ nTargetMaxLength \in Nat /\ nTargetMaxLength < 254
    /\ nTargetSpacing \in Nat \ {0}
    /\ nTargetTimespan \in Nat /\ nTargetTimespan >= 2 * nTargetSpacing
    /\ nEstimateInterval \in Nat \ {0}
    /\ nMintLimit \in Nat /\ CENT \in Nat \ {0}

-----------------------------------------------------------------------------
UIntMax == 256 * FractionalOne

TargetFromInt(nLength) == nLength * FractionalOne
TargetGetLimit == TargetFromInt(nTargetMinLength)
TargetGetInitial == TargetFromInt(nTargetInitialLength)
TargetGetLength(nBits) == nBits \div FractionalOne
TargetGetFractional(nBits) == nBits % FractionalOne
TargetIncrementLength(nBits) == (nBits + FractionalOne) % UIntMax
TargetDecrementLength(nBits) ==
    IF TargetGetLength(nBits) > nTargetMinLength THEN nBits - FractionalOne ELSE nBits

TargetGetFractionalDifficulty(nBits) ==
    nFractionalDifficultyMax \div (FractionalOne - TargetGetFractional(nBits))

(* The two ways in which a difficulty is refused. *)
DifficultyRefused(d) ==
    d < nFractionalDifficultyMin \/ nFractionalDifficultyMax \div d > FractionalOne
TargetSetFractionalDifficulty(d, nBits) ==
    nBits - TargetGetFractional(nBits) + (FractionalOne - nFractionalDifficultyMax \div d)

-----------------------------------------------------------------------------
(* TargetGetNext.  CBigNum's division truncates, and throws for a zero     *)
(* divisor; timestamps may go back, so that the divisor may be negative.   *)
nInterval == nTargetTimespan \div nTargetSpacing
Divisor(nActualSpacing) ==
    (nInterval - 1) * nTargetSpacing + nActualSpacing + nActualSpacing
BigDiv(a, b) == IF b > 0 THEN a \div b ELSE -(a \div (-b))

(* The variant forgets the lower limit. *)
ClampedAbove(d) == IF d > nFractionalDifficultyMax THEN nFractionalDifficultyMax ELSE d
Clamped(d) ==
    IF d > nFractionalDifficultyMax THEN nFractionalDifficultyMax
    ELSE IF d < nFractionalDifficultyMin THEN nFractionalDifficultyMin ELSE d
NewDifficulty(nBits, nActualSpacing) ==
    Clamped(BigDiv(TargetGetFractionalDifficulty(nBits) * ((nInterval + 1) * nTargetSpacing),
                   Divisor(nActualSpacing)))

(* The variants read the threshold as a value that may not be reached, and *)
(* never step up.                                                          *)
NeverStepsUp(d) == FALSE
NotBelowThreshold(d) == d >= nFractionalDifficultyThreshold
StepsUp(d) == d > nFractionalDifficultyThreshold
(* The variant steps down to any length. *)
AtMinimum(d, nBits) == d = nFractionalDifficultyMin
StepsDown(d, nBits) ==
    d = nFractionalDifficultyMin /\ TargetGetLength(nBits) > nTargetMinLength

(* The difficulty and the length after the step, and the new target; 0 is  *)
(* what GetNextWorkRequired returns if TargetGetNext fails.                *)
SteppedDifficulty(d, nBits) ==
    IF StepsUp(d) THEN nFractionalDifficultyMin
    ELSE IF StepsDown(d, nBits) THEN nFractionalDifficultyThreshold ELSE d
SteppedLength(d, nBits) ==
    IF StepsUp(d) THEN TargetIncrementLength(nBits)
    ELSE IF StepsDown(d, nBits) THEN TargetDecrementLength(nBits) ELSE nBits
TargetGetNext(nBits, nActualSpacing) ==
    LET d == NewDifficulty(nBits, nActualSpacing)
        e == SteppedDifficulty(d, nBits)
    IN  IF DifficultyRefused(e) THEN 0
        ELSE TargetSetFractionalDifficulty(e, SteppedLength(d, nBits))

-----------------------------------------------------------------------------
(* The block reward for a target, and the work a block is counted as.      *)
(* The variants divide by the target once only, and begin to count lengths *)
(* one too late.                                                           *)
MintLinear(nBits) == (nMintLimit * FractionalOne) \div nBits
MintUnrounded(nBits) == (((nMintLimit * FractionalOne) \div nBits) * FractionalOne) \div nBits
TargetGetMint(nBits) ==
    LET nMint == (MintUnrounded(nBits) \div CENT) * CENT
    IN  IF TargetGetLength(nBits) < nTargetMinLength \/ nMint > nMintLimit THEN 0 ELSE nMint

LengthWorkLate(n) == IF n = 0 THEN 1 ELSE nWorkTransitionRatio^(n - 1)
LengthWork(n) == nWorkTransitionRatio^n
GetBlockWork(nBits) ==
    LET d == TargetGetFractionalDifficulty(nBits)
    IN  (256 * LengthWork(TargetGetLength(nBits) - nTargetMinLength) * nWorkTransitionRatio * d)
        \div ((nWorkTransitionRatio - 1) * nFractionalDifficultyMin + d)

(* The moving estimate of where the work for a longer chain begins.  The   *)
(* variant divides by one less than the weights.                           *)
AverageOffByOne(nPrev, w, nTarget) == (nPrev * w + 2 * nTarget) \div (w + 1)
Average(nPrev, w, nTarget) == (nPrev * w + 2 * nTarget) \div (w + 2)
EstimateWorkTransition(nPrev, nBits, nChainLength) ==
    LET nCeiling == TargetFromInt(TargetGetLength(nBits) + 1)
        nFloor == TargetFromInt(TargetGetLength(nBits))
        w == ((nEstimateInterval - 1) * TargetGetFractionalDifficulty(nBits))
             \div nFractionalDifficultyMin
    IN  IF TargetGetLength(nChainLength) > TargetGetLength(nBits)
        THEN Average(nPrev, w, nFloor)
        ELSE Average(nPrev, nEstimateInterval - 1, nCeiling)

-----------------------------------------------------------------------------
(* The prime proof of work of src/prime.cpp.  A block's header hash times  *)
(* the multiplier it carries (its certificate) is the origin of a chain of *)
(* probable primes: of the first kind (origin * 2^i - 1), of the second    *)
(* kind (origin * 2^i + 1) or of pairs of both (BiTwin).  A chain length   *)
(* is a target: its fraction says how far the first composite is from      *)
(* passing.                                                                *)

CONSTANTS
    hashBlockHeaderLimit, bnPrimeMin, bnPrimeMax,
    Hashes, Multipliers,    \* header hashes and certificates of blocks
    MaxChain                \* bound: no chain of the instance is longer

(* BN_mod_exp with base 2. *)
TwoToThe(e, n) ==
    LET power[k \in 0..e] ==
          IF k = 0 THEN 1 % n
          ELSE LET half == power[k \div 2]
               IN  (((half * half) % n) * (1 + (k % 2))) % n
    IN  power[e]

(* The outcome of a test that n failed with remainder r: the fraction is   *)
(* not set if it does not fit ("fractional assert").                       *)
WithFraction(n, r, nLength) ==
    LET f == ((n - r) * FractionalOne) \div n
    IN  IF f >= FractionalOne THEN nLength ELSE nLength - (nLength % FractionalOne) + f

FermatPasses(n) == TwoToThe(n - 1, n) = 1

(* Euler, Lagrange and Lifchitz: what the remainder has to be. *)
PassingRemainder(n, fSophieGermain) == IF n % 8 \in {7, 1} THEN 1 ELSE n - 1
FitsKind(n, fSophieGermain) == n % 8 \in IF fSophieGermain THEN {7, 3} ELSE {5, 1}
EulerLagrangeLifchitzPasses(n, fSophieGermain) ==
    /\ FitsKind(n, fSophieGermain)
    /\ TwoToThe((n - 1) \div 2, n) = PassingRemainder(n, fSophieGermain)

(* The length in nLength after n failed; an n that fits neither kind       *)
(* leaves it as it is.                                                     *)
FailedFermat(n, nLength) == WithFraction(n, TwoToThe(n - 1, n), nLength)
FailedEulerLagrangeLifchitz(n, fSophieGermain, nLength) ==
    LET r == TwoToThe((n - 1) \div 2, n)
    IN  IF FitsKind(n, fSophieGermain) THEN WithFraction(n, (r * r) % n, nLength) ELSE nLength

(* The length of the chain from n: the first member is tested with Fermat, *)
(* the others with the test chosen.                                        *)
Member(n, fSophieGermain, i) ==
    IF fSophieGermain THEN 2^i * (n + 1) - 1 ELSE 2^i * (n - 1) + 1
Passes(n, i, fSophieGermain, fFermatTest) ==
    IF i = 0 \/ fFermatTest THEN FermatPasses(n)
    ELSE EulerLagrangeLifchitzPasses(n, fSophieGermain)
CunninghamChainLength(n, fSophieGermain, fFermatTest) ==
    LET m(i) == Member(n, fSophieGermain, i)
        first[i \in 0..MaxChain] ==
            IF Passes(m(i), i, fSophieGermain, fFermatTest) THEN first[i + 1] ELSE i
        len == first[0]
    IN  IF len = 0 \/ fFermatTest THEN FailedFermat(m(len), TargetFromInt(len))
        ELSE FailedEulerLagrangeLifchitz(m(len), fSophieGermain, TargetFromInt(len))

(* ProbablePrimeChainTest: the three lengths.  "BiTwin Chain allows a      *)
(* single prime at the end for odd length chain"; the variant does not.    *)
BiTwinEven(c1, c2) ==
    LET c == IF TargetGetLength(c1) > TargetGetLength(c2) THEN c2 ELSE c1
    IN  c + TargetFromInt(TargetGetLength(c))
BiTwinLength(c1, c2) ==
    IF TargetGetLength(c1) > TargetGetLength(c2)
    THEN c2 + TargetFromInt(TargetGetLength(c2) + 1)
    ELSE c1 + TargetFromInt(TargetGetLength(c1))
LengthsAt(bnOrigin, fFermatTest) ==
    LET c1 == CunninghamChainLength(bnOrigin - 1, TRUE, fFermatTest)
        c2 == CunninghamChainLength(bnOrigin + 1, FALSE, fFermatTest)
    IN  <<c1, c2, BiTwinLength(c1, c2)>>
Origins == LET products == {h * m : h \in Hashes, m \in Multipliers}
           IN  products \cup {o \div 2 : o \in {o \in products : o % 4 = 0}}
ChainLengths == [o \in Origins |-> [fFermatTest \in BOOLEAN |-> LengthsAt(o, fFermatTest)]]
MeetsTarget(lengths, nBits) == \E k \in 1..3 : lengths[k] >= nBits
Longest(lengths) == Max({lengths[k] : k \in 1..3})

(* Halving the multiplier must not make the chain longer; the variant asks *)
(* only if the origin can be halved twice more.                            *)
NormalizedIfEighth(bnOrigin, bnMultiplier, nBits, nChainLength) ==
    (bnMultiplier % 2 = 0 /\ bnOrigin % 8 = 0) =>
        LET extended == ChainLengths[bnOrigin \div 2][FALSE]
        IN  ~(MeetsTarget(extended, nBits) /\ Longest(extended) > nChainLength)
Normalized(bnOrigin, bnMultiplier, nBits, nChainLength) ==
    (bnMultiplier % 2 = 0 /\ bnOrigin % 4 = 0) =>
        LET extended == ChainLengths[bnOrigin \div 2][FALSE]
        IN  ~(MeetsTarget(extended, nBits) /\ Longest(extended) > nChainLength)

TargetAllowed(nBits) == TargetGetLength(nBits) \in nTargetMinLength..nTargetMaxLength

(* The chain length that CheckPrimeProofOfWork reports, 0 if it refuses,   *)
(* and its type: the first of those with that length.                      *)
ChainType(lengths) == Min({k \in 1..3 : lengths[k] = Longest(lengths)})
CheckPrimeProofOfWork(hash, nBits, bnMultiplier) ==
    LET bnOrigin == hash * bnMultiplier
        lengths == ChainLengths[bnOrigin][FALSE]
    IN  IF /\ TargetAllowed(nBits)
           /\ hash >= hashBlockHeaderLimit
           /\ bnOrigin >= bnPrimeMin /\ bnOrigin <= bnPrimeMax
           /\ MeetsTarget(lengths, nBits)
           /\ ChainLengths[bnOrigin][TRUE] = lengths
           /\ Normalized(bnOrigin, bnMultiplier, nBits, Longest(lengths))
        THEN Longest(lengths) ELSE 0

-----------------------------------------------------------------------------
(* The target of a chain as it grows: AcceptBlock with the rules about     *)
(* target, proof of work and timestamps, and the values AddToBlockIndex    *)
(* derives from them.  One branch is enough: a target depends only on the  *)
(* block's own ancestors.                                                  *)
CONSTANTS
    nGenesisLength,         \* TargetFromInt(6)
    nMedianTimeSpan, nMaxDrift,
    MaxHeight, MaxTime      \* bounds of the model

ASSUME RetargetAssumption ==
    /\ nGenesisLength \in nTargetMinLength..nTargetMaxLength
    /\ nMedianTimeSpan \in Nat \ {0}
    /\ MaxTime \in Nat /\ nMaxDrift \in Nat

VARIABLES
    vTime, vBits,       \* nTime and nBits of the blocks of the branch
    nChainWork, nWorkTransition,    \* of the last block
    tip,                \* hash, multiplier, type and length of its prime chain
    nNow                \* adjusted time
vars == <<vTime, vBits, nChainWork, nWorkTransition, tip, nNow>>

nTip == vBits[Len(vBits)]

-----------------------------------------------------------------------------
(* The median of the last nMedianTimeSpan timestamps (of an even number,   *)
(* the upper one).                                                         *)
GetMedianTimePast ==
    LET n == Min({nMedianTimeSpan, Len(vTime)})
        window == (Len(vTime) - n + 1)..Len(vTime)
    IN  CHOOSE t \in {vTime[i] : i \in window} :
            /\ Cardinality({i \in window : vTime[i] < t}) <= n \div 2
            /\ Cardinality({i \in window : vTime[i] <= t}) > n \div 2

nActualSpacing == vTime[Len(vTime)] - vTime[Len(vTime) - 1]

(* GetNextWorkRequired, and whether it throws. *)
AdjustsTarget == Len(vBits) > 2
WorkThrows == AdjustsTarget /\ Divisor(nActualSpacing) = 0
GetNextWorkRequired ==
    IF AdjustsTarget THEN TargetGetNext(nTip, nActualSpacing) ELSE TargetGetInitial

(* The variant leaves the check out. *)
LaterThanNothing(t) == TRUE
LaterThanMedian(t) == t > GetMedianTimePast

(* What AddToBlockIndex computes. *)
AddToBlockIndex(t, nBits, nChainLength) ==
    /\ vTime' = Append(vTime, t)
    /\ vBits' = Append(vBits, nBits)
    /\ nChainWork' = nChainWork + GetBlockWork(nBits)
    /\ nWorkTransition' = EstimateWorkTransition(nWorkTransition, nBits, nChainLength)

(* ProcessBlock, with the checks of CheckBlock and AcceptBlock. *)
AcceptBlock(t, hash, mult) ==
    /\ Len(vBits) <= MaxHeight
    /\ t <= nNow + nMaxDrift
    /\ ~WorkThrows
    /\ LET nBits == GetNextWorkRequired
           nChainLength == CheckPrimeProofOfWork(hash, nBits, mult)
       IN  /\ LaterThanMedian(t)
           /\ nChainLength > 0
           /\ AddToBlockIndex(t, nBits, nChainLength)
           /\ tip' = [hash |-> hash, mult |-> mult, length |-> nChainLength,
                      type |-> ChainType(ChainLengths[hash * mult][FALSE])]
    /\ UNCHANGED nNow

Tick ==
    /\ nNow < MaxTime
    /\ nNow' = nNow + 1
    /\ UNCHANGED <<vTime, vBits, nChainWork, nWorkTransition, tip>>

Init ==
    LET nBits == TargetFromInt(nGenesisLength)
    IN  /\ vTime = <<0>>
        /\ vBits = <<nBits>>
        /\ nChainWork = GetBlockWork(nBits)
        /\ nWorkTransition = EstimateWorkTransition(TargetGetInitial, nBits, nBits)
        /\ tip = [hash |-> 0, mult |-> 0, length |-> nBits, type |-> 1]
        /\ nNow = 0

Next ==
    \/ \E t \in 0..(MaxTime + nMaxDrift), hash \in Hashes, mult \in Multipliers :
          AcceptBlock(t, hash, mult)
    \/ Tick

Spec == Init /\ [][Next]_vars

-----------------------------------------------------------------------------
ValidTargets == TargetGetLimit..(TargetFromInt(nTargetMaxLength + 1) - 1)
Spacings == -(MaxTime + nMaxDrift)..(MaxTime + nMaxDrift)

(* A target at least the minimum, in 32 bits, whose fractional difficulty  *)
(* is at most the threshold (which keeps the 64 bit product of             *)
(* EstimateWorkTransition from overflowing).                               *)
TargetSound(nBits) ==
    /\ nBits \in TargetGetLimit..(UIntMax - 1)
    /\ TargetGetFractionalDifficulty(nBits) <= nFractionalDifficultyThreshold

(* The type invariant; every target of the chain is sound. *)
TargetInv ==
    /\ vTime \in Seq(Int) /\ vBits \in Seq(Nat)
    /\ Len(vTime) = Len(vBits) /\ Len(vBits) > 0
    /\ \A i \in 1..Len(vBits) : vBits[i] \in ValidTargets /\ TargetSound(vBits[i])

(* Whatever the timestamps, TargetGetNext does not fail on the last target *)
(* (a failure would make GetNextWorkRequired demand the target 0) and its  *)
(* result is sound, except for the one spacing that makes it divide by     *)
(* zero.                                                                   *)
NextTargetSound ==
    \A s \in Spacings : Divisor(s) # 0 => TargetSound(TargetGetNext(nTip, s))

(* A longer interval never leads to a harder target, as long as the        *)
(* divisor is positive (nActualSpacing may be negative, for timestamps     *)
(* only have to exceed the median).                                        *)
SlowerIsEasier ==
    \A s \in Spacings :
        Divisor(s) > 0 => TargetGetNext(nTip, s) >= TargetGetNext(nTip, s + 1)

(* An interval of exactly nTargetSpacing leaves the target as it is,       *)
(* although it is converted to a difficulty and back (a whole length above *)
(* the minimum is taken for a difficulty that reached the minimum, and     *)
(* steps down to the threshold).                                           *)
NominalKeepsTarget ==
    TargetGetFractional(nTip) # 0 \/ TargetGetLength(nTip) = nTargetMinLength
        => TargetGetNext(nTip, nTargetSpacing) = nTip

(* A harder target is never worth less work than an easier one, also       *)
(* across a step of the length: the chain with the most work is not one    *)
(* with easier blocks.                                                     *)
HarderIsMoreWork ==
    \A b \in ValidTargets : b >= nTip => GetBlockWork(b) >= GetBlockWork(nTip)

(* "mint = 999 / (target length ** 2)", rounded to cents: the two          *)
(* truncating divisions lose less than two further units.                  *)
MintIsInverseSquare ==
    LET m == TargetGetMint(nTip)
        one == FractionalOne * FractionalOne
    IN  /\ m * nTip * nTip <= nMintLimit * one
        /\ nMintLimit * one < (m + CENT + 1) * nTip * nTip

(* The estimated work transition stays within the targets there are: at    *)
(* least the minimum, and at most one above the longest length used.       *)
TransitionInRange ==
    /\ nWorkTransition >= TargetGetLimit
    /\ \/ nWorkTransition <= TargetGetInitial
       \/ \E i \in DOMAIN vBits : nWorkTransition <= TargetFromInt(TargetGetLength(vBits[i]) + 1)

(* Whatever the timestamps, the targets of a chain and the one demanded    *)
(* next are sound, a longer interval makes the next one easier, the        *)
(* nominal interval keeps it, and the reward follows from it (prime.cpp,   *)
(* GetNextWorkRequired).                                                   *)
TargetsSound ==
    /\ TargetInv /\ NextTargetSound /\ SlowerIsEasier /\ NominalKeepsTarget
    /\ MintIsInverseSquare /\ TransitionInRange

(* The number of members, from the first, that pass the Fermat test. *)
Prefix(member(_)) ==
    Max({n \in 0..(2 * MaxChain) : \A i \in 1..n : FermatPasses(member(i))})

(* The chain type and length reported for an accepted block are those of   *)
(* the longest chain of Fermat probable primes at its origin: of the first *)
(* kind, of the second kind, or of alternating pairs; and the length meets *)
(* the target.                                                             *)
ChainIsGenuine ==
    LET o == tip.hash * tip.mult
        first(i) == 2^(i - 1) * o - 1
        second(i) == 2^(i - 1) * o + 1
        twin(i) == IF i % 2 = 1 THEN 2^((i - 1) \div 2) * o - 1 ELSE 2^(i \div 2 - 1) * o + 1
        found == <<Prefix(first), Prefix(second), Prefix(twin)>>
    IN  o # 0 =>
          /\ TargetGetLength(tip.length) = found[tip.type]
          /\ \A k \in 1..3 : found[k] <= found[tip.type]
          /\ tip.length >= nTip

(* No accepted certificate could have been replaced by half of it with a   *)
(* longer chain, although CheckPrimeProofOfWork looks only at origins that *)
(* are divisible by four.                                                  *)
CertificateNormalized ==
    tip.mult % 2 = 0 /\ tip.mult \div 2 \in Multipliers =>
        CheckPrimeProofOfWork(tip.hash, nTip, tip.mult \div 2) <= tip.length

(* The median time past never goes back, so that the earliest time a block *)
(* may have only grows.                                                    *)
MedianAdvances == [][GetMedianTimePast' >= GetMedianTimePast]_vars
=============================================================================
