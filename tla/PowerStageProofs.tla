--------------------------- MODULE PowerStageProofs ---------------------------
(***************************************************************************)
(* Proofs about what the ADC handler does with the power stage besides     *)
(* running the motor: OffsetCheck, for every delay, number of readings,    *)
(* bounds and converter; CalibrationSeq, for every length of its loops and *)
(* either kind of motor; Svpwm, for every peak, limit and bus voltage.     *)
(***************************************************************************)
EXTENDS OffsetCheck, CalibrationSeq, Svpwm, TLAPS

-----------------------------------------------------------------------------
(***************************************************************************)
(* OffsetCheck                                                             *)
(***************************************************************************)

\* The lower bound of an offset, and the largest reading.
LowestBias == RefOffset - MaxBias
Highest    == DetectTime * LowestBias - 1

LEMMA Constants ==
    /\ LowestBias \in Nat /\ LowestBias >= 1
    /\ DetectTime \in Nat /\ DetectTime >= 2 /\ DetectTime <= DenMax /\ DenMax \in Nat
    /\ DetectTime * LowestBias \in Nat /\ DetectTime * LowestBias >= 1
    /\ Highest \in Nat /\ \A r \in Readings : r \in Nat /\ r <= Highest
<1>1. /\ LowestBias \in Nat /\ LowestBias >= 1
      /\ DetectTime \in Nat /\ DetectTime >= 2 /\ DetectTime <= DenMax /\ DenMax \in Nat
  BY OffsetAssumption DEF LowestBias
<1>2. DetectTime * LowestBias \in Nat /\ DetectTime * LowestBias >= 1
  BY <1>1
<1>3. \A r \in Readings : r \in Nat /\ r < DetectTime * LowestBias
  BY OffsetAssumption DEF LowestBias
<1> QED
  BY <1>1, <1>2, <1>3 DEF Highest

\* Products of positive numbers, as the prover needs them.
LEMMA Product ==
    ASSUME NEW a \in Nat, NEW b \in Nat, b >= 1
    PROVE  a * b \in Nat /\ a * b >= a /\ (a >= 1 => a * b >= 1)
<1>1. a * b = a * (b - 1) + a
  OBVIOUS
<1>2. a * (b - 1) \in Nat
  OBVIOUS
<1> QED
  BY <1>1, <1>2

LEMMA OneMore ==
    ASSUME NEW a \in Nat, NEW b \in Nat
    PROVE  (a + 1) * b = a * b + b /\ a * b \in Nat
  OBVIOUS

-----------------------------------------------------------------------------
\* The offsets before, after a good and after a bad measurement.  In the last
\* case they are so small that one more division takes them out of the bounds.
Measured ==
    /\ ~fault /\ ~ready => den = 1 /\ \A p \in Phases : off[p] <= detectCnt * Highest
    /\ ready => ~fault /\ den = DetectTime /\ detectCnt = DetectTime
                /\ InBounds(off["U"], DetectTime) /\ InBounds(off["V"], DetectTime)
    /\ fault => /\ delay = 0 /\ detectCnt = DetectTime
                /\ \A p \in Phases : off[p] < (LowestBias * den) * DetectTime

\* A sum of readings is a natural number, and the highest is one below what
\* DetectTime * LowestBias times the number of readings gives.
LEMMA FirstSum ==
    ASSUME NEW s \in Nat, s <= DetectTime * Highest
    PROVE  s < (LowestBias * DetectTime) * DetectTime
<1>1. DetectTime * Highest = DetectTime * (DetectTime * LowestBias) - DetectTime
  BY Constants DEF Highest
<1>2. DetectTime * (DetectTime * LowestBias) = (LowestBias * DetectTime) * DetectTime
  BY Constants
<1>3. DetectTime * (DetectTime * LowestBias) \in Nat
  BY Constants, Product
<1> QED
  BY <1>1, <1>2, <1>3, Constants

\* Every variable keeps its type: no sum is negative, no denominator passes its
\* bound.
THEOREM OffsetTypeCorrect == OffsetSpec => []OffsetTypeOK
<1>1. OffsetInit => OffsetTypeOK
  <2> SUFFICES ASSUME OffsetInit PROVE OffsetTypeOK
    OBVIOUS
  <2>1. DelayTime \in Nat
    BY OffsetAssumption
  <2>2. delay \in 0..DelayTime /\ detectCnt \in 0..DetectTime /\ den \in 1..DenMax
    BY <2>1, Constants DEF OffsetInit
  <2>3. off \in [Phases -> Nat]
    BY DEF OffsetInit
  <2>4. fault \in BOOLEAN /\ ready \in BOOLEAN
    BY DEF OffsetInit
  <2> QED
    BY <2>2, <2>3, <2>4 DEF OffsetTypeOK
<1>2. OffsetTypeOK /\ [OffsetNext]_offsetVars => OffsetTypeOK'
  <2> SUFFICES ASSUME OffsetTypeOK, [OffsetNext]_offsetVars PROVE OffsetTypeOK'
    OBVIOUS
  <2> USE DEF OffsetTypeOK
  <2>1. CASE Wait
    <3>1. DelayTime \in Nat
      BY OffsetAssumption
    <3>2. delay' \in 0..DelayTime
      BY <2>1, <3>1 DEF Wait
    <3> QED
      BY <2>1, <3>2 DEF Wait
  <2>2. CASE Accumulate
    <3>1. PICK r \in [Phases -> Readings] : off' = [p \in Phases |-> off[p] + r[p]]
      BY <2>2 DEF Accumulate
    <3>2. \A p \in Phases : off[p] + r[p] \in Nat
      <4> TAKE p \in Phases
      <4>1. off[p] \in Nat /\ r[p] \in Readings
        OBVIOUS
      <4>2. r[p] \in Nat
        BY <4>1, Constants
      <4> QED
        BY <4>1, <4>2
    <3>3. off' \in [Phases -> Nat]
      BY <3>1, <3>2
    <3>4. detectCnt' \in 0..DetectTime
      BY <2>2, Constants DEF Accumulate
    <3> QED
      BY <2>2, <3>3, <3>4 DEF Accumulate
  <2>3. CASE Check
    <3>1. off' \in [Phases -> Nat]
      <4>1. off' = off \/ off' = [p \in Phases |-> 0]
        BY <2>3 DEF Check, Divided
      <4>2. off \in [Phases -> Nat] /\ [p \in Phases |-> 0] \in [Phases -> Nat]
        OBVIOUS
      <4> QED
        BY <4>1, <4>2
    <3>2. den' \in 1..DenMax
      <4>1. den * detectCnt \in Nat /\ den * detectCnt >= 1
        <5>1. den \in Nat /\ den >= 1 /\ detectCnt \in Nat /\ detectCnt >= 1
          BY <2>3, Constants DEF Check
        <5> QED
          BY <5>1, Product
      <4>2. den' = den \/ (den' = den * detectCnt /\ den * detectCnt <= DenMax)
        BY <2>3 DEF Check, Divided
      <4> QED
        BY <4>1, <4>2, Constants
    <3>3. ready' \in BOOLEAN /\ fault' \in BOOLEAN
      BY <2>3 DEF Check
    <3> QED
      BY <2>3, <3>1, <3>2, <3>3 DEF Check
  <2>4. CASE Sampling \/ UNCHANGED offsetVars
    BY <2>4 DEF Sampling, offsetVars
  <2> QED
    BY <2>1, <2>2, <2>3, <2>4 DEF OffsetNext, CheckOffset
<1> QED
  BY <1>1, <1>2, PTL DEF OffsetSpec

-----------------------------------------------------------------------------
LEMMA MeasuredInit == OffsetInit => Measured
<1> SUFFICES ASSUME OffsetInit PROVE Measured
  OBVIOUS
<1>1. 0 * Highest = 0
  BY Constants
<1> QED
  BY <1>1 DEF OffsetInit, Measured

LEMMA MeasuredAccumulate ==
    ASSUME OffsetTypeOK, Measured, Accumulate
    PROVE  Measured'
<1>1. PICK r \in [Phases -> Readings] : off' = [p \in Phases |-> off[p] + r[p]]
  BY DEF Accumulate
<1>2. UNCHANGED <<den, fault, ready>> /\ detectCnt' = detectCnt + 1 /\ detectCnt < DetectTime /\ ~ready
  BY DEF Accumulate
<1>3. ~fault
  BY <1>2, Constants DEF Measured, OffsetTypeOK
<1>4. \A p \in Phases : off'[p] <= detectCnt' * Highest
  <2> TAKE p \in Phases
  <2>1. off'[p] = off[p] + r[p] /\ off[p] \in Nat /\ r[p] \in Nat /\ r[p] <= Highest
    BY <1>1, Constants DEF OffsetTypeOK
  <2>2. off[p] <= detectCnt * Highest
    BY <1>2, <1>3 DEF Measured
  <2>3. (detectCnt + 1) * Highest = detectCnt * Highest + Highest /\ detectCnt * Highest \in Nat
    BY Constants, OneMore DEF OffsetTypeOK
  <2> QED
    BY <1>2, <2>1, <2>2, <2>3, Constants
<1> QED
  BY <1>2, <1>3, <1>4 DEF Measured

\* One more division of offsets already small.
LEMMA DividedAgain ==
    ASSUME OffsetTypeOK, Measured, Check, fault
    PROVE  /\ \A p \in Phases : off'[p] < LowestBias * den'
           /\ \A p \in Phases : off'[p] < (LowestBias * den') * DetectTime
<1>1. detectCnt = DetectTime /\ \A p \in Phases : off[p] < (LowestBias * den) * DetectTime
  BY DEF Measured
<1>2. den \in Nat /\ den >= 1 /\ \A p \in Phases : off[p] \in Nat
  BY DEF OffsetTypeOK
<1>3. LowestBias * den \in Nat /\ LowestBias * den >= 1
  BY <1>2, Constants, Product
<1>4. \A p \in Phases : off'[p] \in Nat /\ off'[p] < LowestBias * den'
  <2> TAKE p \in Phases
  <2>1. CASE den * detectCnt <= DenMax
    <3>1. den' = den * DetectTime /\ off' = off
      BY <1>1, <2>1 DEF Check, Divided
    <3>2. LowestBias * (den * DetectTime) = (LowestBias * den) * DetectTime
      BY <1>2, Constants
    <3> QED
      BY <1>1, <1>2, <3>1, <3>2
  <2>2. CASE ~(den * detectCnt <= DenMax)
    <3>1. den' = den /\ off'[p] = 0
      BY <2>2 DEF Check, Divided
    <3> QED
      BY <1>3, <3>1
  <2> QED
    BY <2>1, <2>2
<1>5. den' \in Nat /\ den' >= 1
  <2>1. den * DetectTime \in Nat /\ den * DetectTime >= 1
    BY <1>2, Constants, Product
  <2> QED
    BY <1>1, <1>2, <2>1 DEF Check, Divided
<1>6. LowestBias * den' \in Nat /\ (LowestBias * den') * DetectTime \in Nat
      /\ (LowestBias * den') * DetectTime >= LowestBias * den'
  <2>1. LowestBias * den' \in Nat
    BY <1>5, Constants, Product
  <2>2. \A a \in Nat : a * DetectTime \in Nat /\ a * DetectTime >= a
    BY Constants, Product
  <2> QED
    BY <2>1, <2>2
<1>7. \A p \in Phases : off'[p] < (LowestBias * den') * DetectTime
  <2> TAKE p \in Phases
  <2>1. off'[p] \in Nat /\ off'[p] < LowestBias * den'
    BY <1>4
  <2> QED
    BY <1>6, <2>1
<1> QED
  BY <1>4, <1>7

\* The first division.
LEMMA DividedOnce ==
    ASSUME OffsetTypeOK, Measured, Check, ~fault
    PROVE  /\ delay' = 0 /\ detectCnt' = DetectTime /\ den' = DetectTime /\ off' = off
           /\ \A p \in Phases : off'[p] < (LowestBias * den') * DetectTime
<1>1. ~ready /\ delay = 0 /\ detectCnt = DetectTime /\ den = 1
  BY Constants DEF Check, Measured, OffsetTypeOK
<1>2. den * detectCnt = DetectTime /\ DetectTime <= DenMax
  BY <1>1, Constants
<1>3. UNCHANGED <<delay, detectCnt>> /\ den' = DetectTime /\ off' = off
  BY <1>2 DEF Check, Divided
<1>4. \A p \in Phases : off[p] \in Nat /\ off[p] <= DetectTime * Highest
  BY <1>1 DEF Measured, OffsetTypeOK
<1> QED
  BY <1>1, <1>3, <1>4, FirstSum

LEMMA MeasuredCheck ==
    ASSUME OffsetTypeOK, Measured, Check
    PROVE  Measured'
<1>1. CASE fault
  <2>1. \A p \in Phases : off'[p] < LowestBias * den'
    BY <1>1, DividedAgain
  <2>2. ~InBounds(off'["U"], den')
    <3>1. off'["U"] < LowestBias * den' /\ off'["U"] \in Int /\ LowestBias * den' \in Int
      <4>1. off'["U"] \in Nat /\ den' \in Nat
        BY OffsetTypeOK DEF Check, Divided, OffsetTypeOK, Phases
      <4> QED
        BY <2>1, <4>1, Constants DEF Phases
    <3> QED
      BY <3>1 DEF InBounds, LowestBias
  <2>3. fault' = TRUE /\ ready' = ready
    BY <2>2 DEF Check
  <2>4. ~ready /\ delay' = 0 /\ detectCnt' = DetectTime
    BY <1>1 DEF Check, Measured
  <2> QED
    BY <1>1, <2>3, <2>4, DividedAgain DEF Measured
<1>2. CASE ~fault
  <2>1. /\ delay' = 0 /\ detectCnt' = DetectTime /\ den' = DetectTime
        /\ \A p \in Phases : off'[p] < (LowestBias * den') * DetectTime
    BY <1>2, DividedOnce
  <2>2. CASE \A p \in {"U", "V"} : InBounds(off'[p], den')
    <3>1. ready' = TRUE /\ fault' = fault
      BY <2>2 DEF Check
    <3>2. InBounds(off'["U"], DetectTime) /\ InBounds(off'["V"], DetectTime)
      BY <2>1, <2>2
    <3>3. InBounds(off["U"], DetectTime)' /\ InBounds(off["V"], DetectTime)'
      BY <3>2 DEF InBounds
    <3> QED
      BY <1>2, <2>1, <3>1, <3>3 DEF Measured
  <2>3. CASE ~(\A p \in {"U", "V"} : InBounds(off'[p], den'))
    <3>1. fault' = TRUE /\ ready' = ready /\ ~ready
      BY <2>3 DEF Check
    <3> QED
      BY <2>1, <3>1 DEF Measured
  <2> QED
    BY <2>2, <2>3
<1> QED
  BY <1>1, <1>2

LEMMA MeasuredStep == OffsetTypeOK /\ Measured /\ [OffsetNext]_offsetVars => Measured'
<1> SUFFICES ASSUME OffsetTypeOK, Measured, [OffsetNext]_offsetVars PROVE Measured'
  OBVIOUS
<1>1. CASE Wait
  <2>1. UNCHANGED <<detectCnt, off, den, fault, ready>> /\ ~ready /\ delay > 0
    BY <1>1 DEF Wait
  <2>2. ~fault
    BY <2>1 DEF Measured
  <2> QED
    BY <2>1, <2>2 DEF Measured
<1>2. CASE Accumulate
  BY <1>2, MeasuredAccumulate
<1>3. CASE Check
  BY <1>3, MeasuredCheck
<1>4. CASE Sampling \/ UNCHANGED offsetVars
  BY <1>4 DEF Sampling, offsetVars, Measured, InBounds
<1> QED
  BY <1>1, <1>2, <1>3, <1>4 DEF OffsetNext, CheckOffset

\* The offsets stay as described.
THEOREM MeasuredAlways == OffsetSpec => []Measured
  BY MeasuredInit, MeasuredStep, OffsetTypeCorrect, PTL DEF OffsetSpec

\* The drive is ready only with means of DetectTime readings within the bias.
THEOREM ReadyMeans == OffsetSpec => []ReadyOnMeans
<1>1. Measured => ReadyOnMeans
  BY DEF Measured, ReadyOnMeans
<1> QED
  BY <1>1, MeasuredAlways, PTL

\* A bad measurement keeps the drive from becoming ready for ever.
THEOREM FaultFinal == OffsetSpec => []OffsetFaultIsFinal
<1>1. Measured => OffsetFaultIsFinal
  BY DEF Measured, OffsetFaultIsFinal
<1> QED
  BY <1>1, MeasuredAlways, PTL

-----------------------------------------------------------------------------
\* The conversions the check still needs.
CallsLeft == IF ready \/ fault THEN 0 ELSE delay + (DetectTime - detectCnt) + 1

\* The check gives its verdict, good or bad, with exactly the conversion after its
\* delay and its readings: nothing puts it off, and a verdict stays given.
THEOREM VerdictDescends ==
  OffsetSpec =>
    /\ [](CallsLeft \in 0 .. DelayTime + DetectTime + 1 /\ (CallsLeft = 0 <=> ready \/ fault))
    /\ [][CheckOffset => CallsLeft' = IF CallsLeft = 0 THEN 0 ELSE CallsLeft - 1]_offsetVars
<1>1. OffsetTypeOK => /\ CallsLeft \in 0 .. DelayTime + DetectTime + 1
                      /\ CallsLeft = 0 <=> ready \/ fault
  <2> SUFFICES ASSUME OffsetTypeOK
               PROVE  /\ CallsLeft \in 0 .. DelayTime + DetectTime + 1
                      /\ CallsLeft = 0 <=> ready \/ fault
    OBVIOUS
  <2>1. /\ delay \in 0..DelayTime /\ detectCnt \in 0..DetectTime
        /\ DelayTime \in Nat /\ DetectTime \in Nat
    BY OffsetAssumption DEF OffsetTypeOK
  <2> QED
    BY <2>1 DEF CallsLeft
<1>2. OffsetTypeOK =>
        [CheckOffset => CallsLeft' = IF CallsLeft = 0 THEN 0 ELSE CallsLeft - 1]_offsetVars
  <2> SUFFICES ASSUME OffsetTypeOK, CheckOffset
               PROVE  CallsLeft' = IF CallsLeft = 0 THEN 0 ELSE CallsLeft - 1
    OBVIOUS
  <2>1. /\ delay \in 0..DelayTime /\ detectCnt \in 0..DetectTime
        /\ DelayTime \in Nat /\ DetectTime \in Nat
    BY OffsetAssumption DEF OffsetTypeOK
  <2>2. CASE Wait \/ Accumulate
    <3>1. ready' = ready /\ fault' = fault
      BY <2>2 DEF Wait, Accumulate
    <3>2. \/ delay' = delay - 1 /\ detectCnt' = detectCnt
          \/ delay' = delay /\ detectCnt' = detectCnt + 1
      BY <2>2 DEF Wait, Accumulate
    <3>3. CASE ready \/ fault
      BY <3>1, <3>3 DEF CallsLeft
    <3>4. CASE ~(ready \/ fault)
      BY <2>1, <3>1, <3>2, <3>4 DEF CallsLeft
    <3> QED
      BY <3>3, <3>4
  <2>3. CASE Check
    <3>1. ready' \/ fault'
      BY <2>3, Zenon DEF Check
    <3>2. delay = 0 /\ detectCnt = DetectTime
      BY <2>1, <2>3 DEF Check
    <3> QED
      BY <2>1, <3>1, <3>2 DEF CallsLeft
  <2> QED
    BY <2>2, <2>3 DEF CheckOffset
<1> QED
  BY <1>1, <1>2, OffsetTypeCorrect, PTL

-----------------------------------------------------------------------------
(***************************************************************************)
(* CalibrationSeq                                                          *)
(***************************************************************************)

\* In a step of a calibration: its counts, and the pushes of L_LOOP so far.
Progress ==
    /\ step \in {"R_START", "R_LOOP", "R_END", "L_START"} => push = 0
    /\ step = "L_LOOP" => /\ loopCount = looped + 1 /\ loopCount <= NumL
                          /\ push = IF sign = 1 THEN 0 ELSE -1
    /\ step = "PP_START" => loopCount = looped + 1 /\ loopCount <= HoldTime /\ phase = 0
    /\ step = "PP_LOOP" => phase = looped /\ phase < PhaseEnd

\* While it drives nothing of its own, it drives nothing.
OwnVector ==
    calibrating =>
        /\ step \in {"R_END", "L_START"} => outType = 0 \/ (outType = 2 /\ uab # "old")
        /\ step = "L_END" => outType = 0

CalibInv == CalibTypeOK /\ Progress /\ OwnVector

LEMMA Counted ==
    /\ CountMax \in Nat /\ CountMax > NumR /\ CountMax > NumL /\ CountMax > HoldTime
    /\ CountMax > PhaseEnd /\ NumR \in Nat /\ NumL \in Nat /\ HoldTime \in Nat
    /\ PhaseEnd \in Nat /\ NumR > 0 /\ NumL > 0 /\ HoldTime > 0 /\ PhaseEnd > 0
    /\ \A n \in 0..CountMax : Bump(n) \in 0..CountMax /\ (n < CountMax => Bump(n) = n + 1)
  <1>1. /\ CountMax \in Nat /\ CountMax > NumR /\ CountMax > NumL /\ CountMax > HoldTime
        /\ CountMax > PhaseEnd /\ NumR \in Nat /\ NumL \in Nat /\ HoldTime \in Nat
        /\ PhaseEnd \in Nat /\ NumR > 0 /\ NumL > 0 /\ HoldTime > 0 /\ PhaseEnd > 0
    BY CalibrationParameters DEF CountMax
  <1>2. ASSUME NEW n \in 0..CountMax
        PROVE  Bump(n) \in 0..CountMax /\ (n < CountMax => Bump(n) = n + 1)
    BY <1>1 DEF Bump
  <1>3. QED
    BY <1>1, <1>2

LEMMA CalibInitially == ASSUME CalibInit PROVE CalibInv
  <1>1. calibrating \in BOOLEAN
    BY Zenon DEF CalibInit
  <1>2. CalibTypeOK
    BY <1>1, Counted DEF CalibInit, CalibTypeOK, Steps, Origins
  <1>3. QED
    BY <1>2 DEF CalibInit, CalibInv, Progress, OwnVector

\* What no sample does: a start, a stop, an initialisation, a run.
LEMMA CalibBroken ==
  ASSUME CalibInv, CalibrationStart \/ Halts \/ CalibrationInit \/ MotorRuns
  PROVE  CalibInv'
  <1>1. CalibTypeOK /\ Progress /\ OwnVector
    BY DEF CalibInv
  <1>2. CASE CalibrationStart
    <2>1. calibrating' \in BOOLEAN
      BY <1>2, Zenon DEF CalibrationStart
    <2>2. QED
      BY <1>1, <1>2, <2>1, Counted DEF CalibrationStart, CalibInv, CalibTypeOK, Progress,
         OwnVector, Aged, Steps, Origins
  <1>3. CASE Halts
    <2>1. calibrating' \in BOOLEAN /\ ~calibrating'
      BY <1>3, Zenon DEF Halts
    <2>2. QED
      BY <1>1, <1>3, <2>1 DEF Halts, CalibInv, CalibTypeOK, Progress, OwnVector, Origins
  <1>4. CASE CalibrationInit
    BY <1>1, <1>4, Counted DEF CalibrationInit, outVars, CalibInv, CalibTypeOK, Progress,
       OwnVector, Steps
  <1>5. CASE MotorRuns
    <2>1. calibrating' \in BOOLEAN /\ ~calibrating'
      BY <1>5, Zenon DEF MotorRuns
    <2>2. QED
      BY <1>1, <1>5, <2>1 DEF MotorRuns, CalibInv, CalibTypeOK, Progress, OwnVector, Origins
  <1>6. QED
    BY <1>2, <1>3, <1>4, <1>5


\* A sample keeps the counts in step and drives what is of this calibration.
LEMMA CalibSample ==
  ASSUME CalibInv, CalibrationLoop
  PROVE  CalibInv' /\ OldVectorOnlyAtFirstSample
  <1> DEFINE Own == duty' = "old" => step \in {"R_START", "NULL"}
  <1> SUFFICES CalibInv' /\ Own
    BY DEF OldVectorOnlyAtFirstSample
  <1>1. /\ Progress /\ OwnVector /\ calibrating \in BOOLEAN
        /\ step \in Steps /\ loopCount \in 0..CountMax /\ looped \in 0..CountMax
        /\ outType \in 0..2 /\ sign \in {-1, 1} /\ phase \in 0..PhaseEnd
        /\ uab \in Origins /\ uqd \in Origins /\ push \in Int
    BY DEF CalibInv, CalibTypeOK
  <1>2. /\ loopCount' \in 0..CountMax /\ looped' \in 0..CountMax
    BY <1>1, Counted DEF CalibrationLoop, Idles, RStart, RLoop, REnd, LStart, LLoop, LEnd, PPStart,
       PPLoop, PPEnd, Counts, Resets
  <1>3. calibrating /\ calibrating' \in BOOLEAN
    BY <1>1, Zenon DEF CalibrationLoop, Idles, RStart, RLoop, REnd, LStart, LLoop, LEnd, PPStart,
       PPLoop, PPEnd, Passes, At
  <1>4. CASE Idles
    <2>1. step = "NULL" /\ step' = "NULL" /\ UNCHANGED <<outType, sign, phase, uqd, push>>
          /\ Outputs(uab)
      BY <1>4 DEF Idles, Passes, At
    <2>2. QED
      BY <1>1, <1>2, <1>3, <2>1 DEF Outputs, CalibInv, CalibTypeOK, Progress, OwnVector, Origins
  <1>5. CASE RStart
    <2>1. step = "R_START" /\ step' = "R_LOOP" /\ UNCHANGED <<outType, sign, phase, uqd, push>>
          /\ Outputs(uab)
      BY <1>5 DEF RStart, Passes, At
    <2>2. QED
      BY <1>1, <1>2, <1>3, <2>1 DEF Outputs, CalibInv, CalibTypeOK, Progress, OwnVector, Origins,
         Steps
  <1>6. CASE RLoop
    <2>1. /\ step = "R_LOOP" /\ step' \in {"R_LOOP", "R_END"} /\ sign' \in {-1, 1}
          /\ outType' \in {0, 2} /\ UNCHANGED <<phase, uqd, push>>
          /\ uab' \in {"zero", "this"} \/ (outType' = 0 /\ uab' = uab)
          /\ duty' = IF outType' = 0 THEN "zero" ELSE uab'
      BY <1>6 DEF RLoop, At, Outputs
    <2>2. uab' \in Origins /\ duty' \in Origins /\ outType' \in 0..2 /\ step' \in Steps
      BY <1>1, <2>1 DEF Origins, Steps
    <2>3. CalibTypeOK'
      BY <1>1, <1>2, <1>3, <2>1, <2>2 DEF CalibTypeOK
    <2>4. Progress'
      BY <1>1, <2>1 DEF Progress
    <2>5. OwnVector'
      BY <1>1, <2>1 DEF OwnVector
    <2>6. Own
      BY <2>1
    <2>7. QED
      BY <2>3, <2>4, <2>5, <2>6 DEF CalibInv
  <1>7. CASE REnd
    <2>1. step = "R_END" /\ step' = "L_START" /\ UNCHANGED <<outType, sign, phase, uqd, push>>
          /\ Outputs(uab)
      BY <1>7 DEF REnd, Passes, At
    <2>2. QED
      BY <1>1, <1>2, <1>3, <2>1 DEF Outputs, CalibInv, CalibTypeOK, Progress, OwnVector, Origins,
         Steps
  <1>8. CASE LStart
    <2>1. /\ step = "L_START" /\ step' = "L_LOOP" /\ sign' = 1 /\ looped' = 0
          /\ loopCount' = Bump(0) /\ UNCHANGED <<outType, phase, uqd, push>> /\ Outputs(uab)
      BY <1>8 DEF LStart, At, Resets
    <2>2. loopCount' = 1 /\ 1 <= NumL
      BY <2>1, Counted
    <2>3. QED
      BY <1>1, <1>2, <1>3, <2>1, <2>2 DEF Outputs, CalibInv, CalibTypeOK, Progress, OwnVector,
         Origins, Steps
  <1>9. CASE LLoop
    <2>1. /\ step = "L_LOOP" /\ sign' = -sign /\ UNCHANGED <<phase, uqd>>
          /\ IF loopCount >= NumL THEN outType' = 0 /\ step' = "L_END"
                                  ELSE outType' = 2 /\ step' = "L_LOOP"
          /\ push' = IF outType' = 2 THEN push + sign' ELSE push
          /\ loopCount' = Bump(loopCount) /\ looped' = Bump(looped)
          /\ uab' = "this" /\ duty' \in {"zero", "this"}
      BY <1>9 DEF LLoop, At, Counts, Outputs
    <2>2. loopCount = looped + 1 /\ loopCount <= NumL /\ push = IF sign = 1 THEN 0 ELSE -1
      BY <1>1, <2>1 DEF Progress
    <2>3. loopCount' = loopCount + 1 /\ looped' = looped + 1
      BY <1>1, <2>1, <2>2, Counted
    <2>4. outType' \in 0..2 /\ step' \in Steps /\ sign' \in {-1, 1} /\ push' \in Int
          /\ step' \in {"L_LOOP", "L_END"} /\ (step' = "L_END" => outType' = 0)
      BY <1>1, <2>1 DEF Steps
    <2>5. step' = "L_LOOP" => loopCount' <= NumL /\ push' = IF sign' = 1 THEN 0 ELSE -1
      BY <1>1, <2>1, <2>2, <2>3, Counted
    <2>6. Progress' /\ OwnVector'
      BY <1>1, <2>2, <2>3, <2>4, <2>5 DEF Progress, OwnVector
    <2>7. QED
      BY <1>1, <1>2, <1>3, <2>1, <2>4, <2>6 DEF CalibInv, CalibTypeOK, Origins
  <1>10. CASE LEnd
    <2>1. /\ step = "L_END" /\ step' \in {"PP_START", "NULL"} /\ phase' = 0 /\ looped' = 0
          /\ loopCount' = Bump(0) /\ UNCHANGED <<outType, sign, uqd, push>> /\ Outputs(uab)
      BY <1>10 DEF LEnd, At, Resets
    <2>2. loopCount' = 1 /\ 1 <= HoldTime /\ outType = 0
      BY <1>1, <1>3, <2>1, Counted DEF OwnVector
    <2>3. QED
      BY <1>1, <1>2, <1>3, <2>1, <2>2, Counted DEF Outputs, CalibInv, CalibTypeOK, Progress,
         OwnVector, Origins, Steps
  <1>11. CASE PPStart
    <2>1. /\ step = "PP_START" /\ UNCHANGED <<sign, phase, push>>
          /\ uqd' = "this" /\ outType' = 1 /\ uab' = "this" /\ duty' = "this"
          /\ step' = IF loopCount >= HoldTime THEN "PP_LOOP" ELSE "PP_START"
          /\ loopCount' = Bump(loopCount)
          /\ looped' = IF step' = step THEN Bump(looped) ELSE 0
      BY <1>11 DEF PPStart, At, Outputs
    <2>2. loopCount = looped + 1 /\ loopCount <= HoldTime /\ phase = 0
      BY <1>1, <2>1 DEF Progress
    <2>3. loopCount' = loopCount + 1 /\ (step' = "PP_START" => looped' = looped + 1)
          /\ (step' = "PP_LOOP" => looped' = 0) /\ step' \in {"PP_START", "PP_LOOP"}
      BY <1>1, <2>1, <2>2, Counted
    <2>4. step' = "PP_START" => loopCount' <= HoldTime
      BY <1>1, <2>1, <2>2, <2>3, Counted
    <2>5. Progress' /\ OwnVector'
      BY <1>1, <2>1, <2>2, <2>3, <2>4, Counted DEF Progress, OwnVector
    <2>6. QED
      BY <1>1, <1>2, <1>3, <2>1, <2>3, <2>5 DEF CalibInv, CalibTypeOK, Origins, Steps
  <1>12. CASE PPLoop
    <2>1. /\ step = "PP_LOOP" /\ UNCHANGED <<sign, push>> /\ phase' = phase + 1
          /\ uqd' = "this" /\ outType' = 1 /\ uab' = "this" /\ duty' = "this"
          /\ step' = IF phase' >= PhaseEnd THEN "PP_END" ELSE "PP_LOOP"
          /\ looped' = Bump(looped)
      BY <1>12 DEF PPLoop, At, Counts, Outputs
    <2>2. phase = looped /\ phase < PhaseEnd
      BY <1>1, <2>1 DEF Progress
    <2>3. looped' = looped + 1 /\ phase' \in 0..PhaseEnd /\ step' \in {"PP_LOOP", "PP_END"}
      BY <1>1, <2>1, <2>2, Counted
    <2>4. step' = "PP_LOOP" => phase' < PhaseEnd
      BY <1>1, <2>1, <2>2, Counted
    <2>5. Progress' /\ OwnVector'
      BY <1>1, <2>1, <2>2, <2>3, <2>4 DEF Progress, OwnVector
    <2>6. QED
      BY <1>1, <1>2, <1>3, <2>1, <2>3, <2>5 DEF CalibInv, CalibTypeOK, Origins, Steps
  <1>13. CASE PPEnd
    <2>1. step = "PP_END" /\ step' = "NULL" /\ outType' = 0 /\ UNCHANGED <<sign, phase, uqd, push>>
          /\ uab' = uab /\ duty' = "zero"
      BY <1>13 DEF PPEnd, At, Outputs
    <2>2. QED
      BY <1>1, <1>2, <1>3, <2>1 DEF CalibInv, CalibTypeOK, Progress, OwnVector, Origins, Steps
  <1>14. QED
    BY <1>4, <1>5, <1>6, <1>7, <1>8, <1>9, <1>10, <1>11, <1>12, <1>13 DEF CalibrationLoop

LEMMA CalibStep ==
  ASSUME CalibInv, [CalibNext]_calibVars
  PROVE  CalibInv'
  <1>1. CASE UNCHANGED calibVars
    BY <1>1 DEF CalibInv, CalibTypeOK, Progress, OwnVector, calibVars, calVars, outVars
  <1>2. QED
    BY <1>1, CalibBroken, CalibSample DEF CalibNext

\* Every loop that ends has its length, from what it has counted so far.
LEMMA LoopsEnd ==
  ASSUME CalibInv
  PROVE  LoopsHaveTheirLength
  <1>1. /\ Progress /\ loopCount \in Nat /\ looped \in 0..CountMax /\ sign \in {-1, 1}
        /\ phase \in Nat
    BY Counted DEF CalibInv, CalibTypeOK
  <1>2. ASSUME LLoop, step' = "L_END" PROVE looped' = NumL /\ push' \in {-1, 0, 1}
    <2>1. step = "L_LOOP" /\ loopCount >= NumL /\ push' = push /\ looped' = Bump(looped)
      BY <1>2 DEF LLoop, At, Counts
    <2>2. QED
      BY <1>1, <2>1, Counted DEF Progress
  <1>3. ASSUME PPStart, step' = "PP_LOOP" PROVE looped + 1 = HoldTime
    <2>1. step = "PP_START" /\ loopCount >= HoldTime
      BY <1>3 DEF PPStart, At
    <2>2. QED
      BY <1>1, <2>1, Counted DEF Progress
  <1>4. ASSUME PPLoop, step' = "PP_END" PROVE looped' = PhaseEnd
    <2>1. step = "PP_LOOP" /\ phase + 1 >= PhaseEnd /\ looped' = Bump(looped)
      BY <1>4 DEF PPLoop, At, Counts
    <2>2. QED
      BY <1>1, <2>1, Counted DEF Progress
  <1>5. QED
    BY <1>2, <1>3, <1>4 DEF LoopsHaveTheirLength

\* The steps, counts and origins of a calibration keep their types: the phase does
\* not pass its end.
THEOREM CalibTypeCorrect == CalibSpec => []CalibTypeOK
  <1>1. CalibInit => CalibInv
    BY CalibInitially
  <1>2. CalibInv /\ [CalibNext]_calibVars => CalibInv'
    BY CalibStep
  <1>3. CalibInv => CalibTypeOK
    BY DEF CalibInv
  <1>4. QED
    BY <1>1, <1>2, <1>3, PTL DEF CalibSpec

\* For every length of the loops and either kind of motor, whatever was broken
\* off before and wherever: each loop of a calibration runs for its full length,
\* and only the first sample may drive a vector left over.
THEOREM CalibrationComplete == CalibSpec => CalibrationIsComplete
  <1>1. CalibInit => CalibInv
    BY CalibInitially
  <1>2. CalibInv /\ [CalibNext]_calibVars => CalibInv'
    BY CalibStep
  <1>3. CalibInv /\ [CalibNext]_calibVars
          => [LoopsHaveTheirLength /\ OldVectorOnlyAtFirstSample]_calibVars
    <2>1. ASSUME CalibInv PROVE LoopsHaveTheirLength
      BY <2>1, LoopsEnd
    <2>2. ASSUME CalibInv PROVE OldVectorOnlyAtFirstSample
      BY <2>2, CalibSample DEF OldVectorOnlyAtFirstSample
    <2>3. QED
      BY <2>1, <2>2
  <1>4. QED
    BY <1>1, <1>2, <1>3, PTL DEF CalibSpec, CalibrationIsComplete

\* The samples a calibration still needs at most, by its step, count and phase.
Until(n, count) == IF count >= n THEN 1 ELSE n - count + 1
TurnsLeft(ph)   == IF ph + 1 >= PhaseEnd THEN 1 ELSE PhaseEnd - ph
Needed(s, count, ph) ==
    IF s = "NULL" THEN 0
    ELSE IF s = "PP_END" THEN 1
    ELSE IF s = "PP_LOOP" THEN 1 + TurnsLeft(ph)
    ELSE IF s = "PP_START" THEN 2 + PhaseEnd + Until(HoldTime, count)
    ELSE IF s = "L_END" THEN 4 + PhaseEnd + HoldTime
    ELSE IF s = "L_LOOP" THEN 4 + PhaseEnd + HoldTime + Until(NumL, count)
    ELSE IF s = "L_START" THEN 6 + PhaseEnd + HoldTime + NumL
    ELSE IF s = "R_END" THEN 7 + PhaseEnd + HoldTime + NumL
    ELSE IF s = "R_LOOP" THEN 7 + PhaseEnd + HoldTime + NumL + Until(NumR, count)
    ELSE 9 + PhaseEnd + HoldTime + NumL + NumR

SamplesLeft == Needed(step, loopCount, phase)
MostSamples == 9 + PhaseEnd + HoldTime + NumL + NumR

LEMMA Lengths ==
    /\ NumR \in Nat /\ NumL \in Nat /\ HoldTime \in Nat /\ PhaseEnd \in Nat
    /\ NumR > 0 /\ NumL > 0 /\ HoldTime > 0 /\ PhaseEnd > 0
BY CalibrationParameters

LEMMA UntilRange ==
  ASSUME NEW n \in Nat, NEW count \in Nat
  PROVE  /\ Until(n, count) \in Nat /\ 1 <= Until(n, count) /\ Until(n, count) <= n + 1
         /\ count < n => Until(n, count + 1) < Until(n, count)
BY DEF Until

LEMMA TurnsRange ==
  ASSUME NEW ph \in 0..PhaseEnd
  PROVE  /\ TurnsLeft(ph) \in Nat /\ 1 <= TurnsLeft(ph) /\ TurnsLeft(ph) <= PhaseEnd + 1
         /\ ph + 1 < PhaseEnd => TurnsLeft(ph + 1) < TurnsLeft(ph)
BY Lengths DEF TurnsLeft

\* Each step by itself.
LEMMA NeededIn ==
  ASSUME NEW count, NEW ph
  PROVE  /\ Needed("NULL", count, ph) = 0
         /\ Needed("PP_END", count, ph) = 1
         /\ Needed("PP_LOOP", count, ph) = 1 + TurnsLeft(ph)
         /\ Needed("PP_START", count, ph) = 2 + PhaseEnd + Until(HoldTime, count)
         /\ Needed("L_END", count, ph) = 4 + PhaseEnd + HoldTime
         /\ Needed("L_LOOP", count, ph) = 4 + PhaseEnd + HoldTime + Until(NumL, count)
         /\ Needed("L_START", count, ph) = 6 + PhaseEnd + HoldTime + NumL
         /\ Needed("R_END", count, ph) = 7 + PhaseEnd + HoldTime + NumL
         /\ Needed("R_LOOP", count, ph) = 7 + PhaseEnd + HoldTime + NumL + Until(NumR, count)
         /\ Needed("R_START", count, ph) = 9 + PhaseEnd + HoldTime + NumL + NumR
BY DEF Needed

LEMMA NeededRange ==
  ASSUME NEW s \in Steps, NEW count \in Nat, NEW ph \in 0..PhaseEnd
  PROVE  Needed(s, count, ph) \in 0..MostSamples /\ (Needed(s, count, ph) = 0 => s = "NULL")
<1>1. /\ Until(NumR, count) \in 1..(NumR + 1) /\ Until(NumL, count) \in 1..(NumL + 1)
      /\ Until(HoldTime, count) \in 1..(HoldTime + 1) /\ TurnsLeft(ph) \in 1..(PhaseEnd + 1)
  <2>1. TurnsLeft(ph) \in 1..(PhaseEnd + 1)
    BY Lengths, TurnsRange
  <2>2. ASSUME NEW n \in Nat PROVE Until(n, count) \in 1..(n + 1)
    BY DEF Until
  <2>3. QED
    BY <2>1, <2>2, Lengths
<1>2. CASE s \in {"R_LOOP", "L_LOOP", "PP_START", "PP_LOOP"}
  <2>1. CASE s = "R_LOOP"
    BY <1>1, <2>1, Lengths, NeededIn DEF MostSamples
  <2>2. CASE s = "L_LOOP"
    BY <1>1, <2>2, Lengths, NeededIn DEF MostSamples
  <2>3. CASE s = "PP_START"
    BY <1>1, <2>3, Lengths, NeededIn DEF MostSamples
  <2>4. CASE s = "PP_LOOP"
    BY <1>1, <2>4, Lengths, NeededIn DEF MostSamples
  <2>5. QED
    BY <1>2, <2>1, <2>2, <2>3, <2>4
<1>3. CASE s \in {"R_START", "R_END", "L_START", "L_END", "PP_END", "NULL"}
  BY <1>3, Lengths, NeededIn DEF MostSamples
<1>4. QED
  BY <1>2, <1>3 DEF Steps

\* Any step but the first lowers what is left, whether it stays or moves on.
LEMMA SampleCounts ==
  ASSUME CalibTypeOK, CalibTypeOK', CalibrationLoop, step # "NULL"
  PROVE  SamplesLeft' < SamplesLeft /\ (step' = "NULL" => ~calibrating')
<1>1. /\ loopCount \in 0..CountMax /\ loopCount \in Nat /\ phase \in 0..PhaseEnd
      /\ loopCount' \in Nat /\ phase' \in 0..PhaseEnd
  BY Counted DEF CalibTypeOK
<1>2. /\ SamplesLeft = Needed(step, loopCount, phase)
      /\ SamplesLeft' = Needed(step', loopCount', phase')
  BY DEF SamplesLeft
<1>3. \A n \in {NumR, NumL, HoldTime} :
        /\ Until(n, loopCount) \in 1..(n + 1) /\ Until(n, loopCount') \in 1..(n + 1)
        /\ loopCount < n /\ loopCount' = Bump(loopCount)
             => Until(n, loopCount') < Until(n, loopCount)
  <2> SUFFICES ASSUME NEW n \in {NumR, NumL, HoldTime}
               PROVE  /\ Until(n, loopCount) \in 1..(n + 1) /\ Until(n, loopCount') \in 1..(n + 1)
                      /\ loopCount < n /\ loopCount' = Bump(loopCount)
                           => Until(n, loopCount') < Until(n, loopCount)
    OBVIOUS
  <2>1. n \in Nat /\ n < CountMax
    BY Counted
  <2>2. loopCount < n /\ loopCount' = Bump(loopCount) => loopCount' = loopCount + 1
    BY <1>1, <2>1, Counted
  <2>3. QED
    BY <1>1, <2>1, <2>2, UntilRange
<1>4. /\ TurnsLeft(phase) \in 1..(PhaseEnd + 1) /\ TurnsLeft(phase') \in 1..(PhaseEnd + 1)
      /\ phase' = phase + 1 /\ phase' < PhaseEnd => TurnsLeft(phase') < TurnsLeft(phase)
  BY <1>1, TurnsRange, Lengths
<1>5. CASE RStart \/ REnd \/ LStart \/ LEnd \/ PPEnd
  <2>1. \/ step = "R_START" /\ step' = "R_LOOP"
        \/ step = "R_END" /\ step' = "L_START"
        \/ step = "L_START" /\ step' = "L_LOOP"
        \/ step = "L_END" /\ step' = "PP_START"
        \/ step \in {"L_END", "PP_END"} /\ step' = "NULL" /\ calibrating' = FALSE
    BY <1>5 DEF RStart, REnd, LStart, LEnd, PPEnd, Passes, At
  <2>2. QED
    BY <1>2, <1>3, <2>1, Lengths, NeededIn
<1>6. CASE RLoop
  <2>1. step = "R_LOOP" /\ step' \in {"R_LOOP", "R_END"} /\ loopCount' = Bump(loopCount)
        /\ (step' = "R_LOOP" => ~(loopCount >= NumR))
    BY <1>6 DEF RLoop, At, Counts
  <2>2. QED
    BY <1>1, <1>2, <1>3, <2>1, Lengths, NeededIn
<1>7. CASE LLoop
  <2>1. step = "L_LOOP" /\ step' \in {"L_LOOP", "L_END"} /\ loopCount' = Bump(loopCount)
        /\ (step' = "L_LOOP" => ~(loopCount >= NumL))
    BY <1>7 DEF LLoop, At, Counts
  <2>2. QED
    BY <1>1, <1>2, <1>3, <2>1, Lengths, NeededIn
<1>8. CASE PPStart
  <2>1. step = "PP_START" /\ step' \in {"PP_START", "PP_LOOP"} /\ loopCount' = Bump(loopCount)
        /\ (step' = "PP_START" => ~(loopCount >= HoldTime))
    BY <1>8 DEF PPStart, At
  <2>2. QED
    BY <1>1, <1>2, <1>3, <1>4, <2>1, Lengths, NeededIn
<1>9. CASE PPLoop
  <2>1. step = "PP_LOOP" /\ step' \in {"PP_LOOP", "PP_END"} /\ phase' = phase + 1
        /\ (step' = "PP_LOOP" => ~(phase' >= PhaseEnd))
    BY <1>9 DEF PPLoop, At
  <2>2. QED
    BY <1>1, <1>2, <1>4, <2>1, Lengths, NeededIn
<1>10. QED
  BY <1>5, <1>6, <1>7, <1>8, <1>9 DEF CalibrationLoop, Idles, Passes, At

\* Only a new start of the calibration puts its end off.
LEMMA OnlyStartsPutOff ==
  ASSUME CalibTypeOK, CalibTypeOK', CalibNext, ~CalibrationStart
  PROVE  ~(SamplesLeft' > SamplesLeft)
<1>1. SamplesLeft \in Nat /\ SamplesLeft' \in Nat
  <2>1. /\ step \in Steps /\ loopCount \in Nat /\ phase \in 0..PhaseEnd
        /\ step' \in Steps /\ loopCount' \in Nat /\ phase' \in 0..PhaseEnd
    BY Counted DEF CalibTypeOK
  <2>2. MostSamples \in Nat
    BY Lengths DEF MostSamples
  <2>3. SamplesLeft \in 0..MostSamples
    BY <2>1, NeededRange DEF SamplesLeft
  <2>4. SamplesLeft' \in 0..MostSamples
    BY <2>1, NeededRange DEF SamplesLeft
  <2>5. QED
    BY <2>2, <2>3, <2>4
<1>2. CASE Halts \/ MotorRuns
  <2>1. UNCHANGED <<step, loopCount, phase>>
    BY <1>2 DEF Halts, MotorRuns
  <2>2. SamplesLeft' = SamplesLeft
    BY <2>1 DEF SamplesLeft
  <2>3. QED
    BY <1>1, <2>2
<1>3. CASE CalibrationInit \/ (CalibrationLoop /\ step = "NULL")
  <2>1. step' = "NULL"
    BY <1>3 DEF CalibrationInit, CalibrationLoop, Idles, RStart, RLoop, REnd, LStart, LLoop,
       LEnd, PPStart, PPLoop, PPEnd, Passes, At
  <2>2. SamplesLeft' = 0
    BY <2>1, NeededIn DEF SamplesLeft
  <2>3. QED
    BY <1>1, <2>2
<1>4. CASE CalibrationLoop /\ step # "NULL"
  BY <1>1, <1>4, SampleCounts
<1>5. QED
  BY <1>2, <1>3, <1>4 DEF CalibNext

\* A calibration that has begun is over after a number of samples known beforehand,
\* wherever an earlier one was broken off: each takes one of those left, the one
\* that takes the last gives the drive back, and only a new start puts the end off.
THEOREM CalibrationDescends ==
  CalibSpec =>
    /\ [](SamplesLeft \in 0..MostSamples /\ (SamplesLeft = 0 => step = "NULL"))
    /\ [][/\ CalibrationLoop /\ step # "NULL" =>
               SamplesLeft' < SamplesLeft /\ (step' = "NULL" => ~calibrating')
          /\ SamplesLeft' > SamplesLeft => CalibrationStart]_calibVars
<1>1. CalibTypeOK => SamplesLeft \in 0..MostSamples /\ (SamplesLeft = 0 => step = "NULL")
  <2>1. CalibTypeOK => step \in Steps /\ loopCount \in Nat /\ phase \in 0..PhaseEnd
    BY Counted DEF CalibTypeOK
  <2>2. QED
    BY <2>1, NeededRange DEF SamplesLeft
<1>2. CalibTypeOK /\ CalibTypeOK' /\ [CalibNext]_calibVars =>
        [/\ CalibrationLoop /\ step # "NULL" =>
              SamplesLeft' < SamplesLeft /\ (step' = "NULL" => ~calibrating')
         /\ SamplesLeft' > SamplesLeft => CalibrationStart]_calibVars
  BY SampleCounts, OnlyStartsPutOff
<1>3. QED
  BY <1>1, <1>2, CalibTypeCorrect, PTL DEF CalibSpec

\* Every sample of a calibration is a step of the CalibrationLoop of MotorDrive,
\* whose open choice of when a loop ends covers every count of this sequence.
THEOREM ImplementsCalibrationLoop == CalibSpec => IsCalibrationLoop
  <1>1. ASSUME CalibrationLoop PROVE Drive!CalibrationLoop
    <2> USE DEF At, Drive!CalibrationLoop, Drive!CalibrationDone
    <2>1. CASE Idles \/ RStart \/ REnd
      BY <2>1 DEF Idles, RStart, REnd, Passes
    <2>2. CASE RLoop
      BY <2>2 DEF RLoop
    <2>3. CASE LStart
      BY <2>3 DEF LStart
    <2>4. CASE LLoop
      BY <2>4 DEF LLoop
    <2>5. CASE LEnd
      BY <2>5 DEF LEnd
    <2>6. CASE PPStart
      BY <2>6 DEF PPStart
    <2>7. CASE PPLoop
      BY <2>7 DEF PPLoop
    <2>8. CASE PPEnd
      BY <2>8 DEF PPEnd
    <2>9. QED
      BY <1>1, <2>1, <2>2, <2>3, <2>4, <2>5, <2>6, <2>7, <2>8 DEF CalibrationLoop
  <1>2. [CalibrationLoop => Drive!CalibrationLoop]_calibVars
    BY <1>1
  <1>3. QED
    BY <1>2, PTL DEF IsCalibrationLoop

-----------------------------------------------------------------------------
(***************************************************************************)
(* Svpwm                                                                   *)
(***************************************************************************)

LEMMA Limits ==
    /\ Peak \in Nat /\ MaxDuty \in Nat /\ Scale \in Nat /\ MaxDuty < Peak
    /\ Scale >= 1 /\ MaxDuty >= 1
    /\ Peak * Scale \in Nat /\ MaxDuty * Scale \in Nat /\ (Peak - MaxDuty) * Scale \in Nat
    /\ (Peak - MaxDuty) * Scale = Peak * Scale - MaxDuty * Scale
<1>1. /\ Peak \in Nat /\ MaxDuty \in Nat /\ Scale \in Nat /\ MaxDuty < Peak
      /\ Scale >= 1 /\ MaxDuty >= 1
  BY SvpwmParameters
<1>2. Peak - MaxDuty \in Nat
  BY <1>1
<1>3. Peak * Scale \in Nat /\ MaxDuty * Scale \in Nat /\ (Peak - MaxDuty) * Scale \in Nat
  BY <1>1, <1>2
<1>4. (Peak - MaxDuty) * Scale = Peak * Scale - MaxDuty * Scale
  BY <1>1
<1> QED
  BY <1>1, <1>3, <1>4

\* A whole quotient.
LEMMA Quotient ==
  ASSUME NEW a \in Nat, NEW b \in Nat, b >= 1
  PROVE  /\ a \div b \in Nat /\ (a \div b) * b \in Nat
         /\ (a \div b) * b <= a /\ a < (a \div b) * b + b
  <1>1. a = (a \div b) * b + (a % b) /\ a % b \in 0..(b - 1) /\ a \div b \in Nat
    OBVIOUS
  <1>2. (a \div b) * b \in Nat
    BY <1>1
  <1>3. QED
    BY <1>1, <1>2

\* A positive factor is cut from both sides.
LEMMA Cancels ==
  ASSUME NEW a \in Int, NEW b \in Int, NEW u \in Nat, u >= 1
  PROVE  /\ a * u <= b * u => a <= b
         /\ a * u < b * u => a < b
  <1>1. ASSUME a > b PROVE a * u > b * u
    <2>1. a * u = b * u + (a - b) * u
      OBVIOUS
    <2>2. (a - b) * u >= 1
      <3>1. a - b \in Nat /\ a - b >= 1
        BY <1>1
      <3>2. QED
        BY <3>1, Product
    <2>3. a * u \in Int /\ b * u \in Int /\ (a - b) * u \in Int
      OBVIOUS
    <2>4. QED
      BY <2>1, <2>2, <2>3
  <1>2. a * u \in Int /\ b * u \in Int
    OBVIOUS
  <1>3. QED
    BY <1>1, <1>2

LEMMA SumTimes ==
  ASSUME NEW a \in Int, NEW b \in Int, NEW c \in Int, NEW u \in Int
  PROVE  /\ (a + b + c) * u = a * u + b * u + c * u /\ (a + b) * u = a * u + b * u
         /\ (-a) * u = -(a * u) /\ a * u \in Int /\ b * u \in Int /\ c * u \in Int
  OBVIOUS

\* Counts t make the voltage v when largest is the largest line voltage.
Makes(t, v, largest) ==
    IF largest > MaxDuty * Scale
    THEN AbsOf(t * largest - v * MaxDuty) < 2 * largest
    ELSE AbsOf(t * Scale - v) < 2 * Scale

LEMMA MakesOpposite ==
  ASSUME NEW t \in Int, NEW v \in Int, NEW m \in Int, Makes(t, v, m)
  PROVE  Makes(-t, -v, m)
  <1>1. /\ (-t) * m = -(t * m) /\ (-v) * MaxDuty = -(v * MaxDuty) /\ (-t) * Scale = -(t * Scale)
        /\ t * m \in Int /\ v * MaxDuty \in Int /\ t * Scale \in Int
    BY Limits, SumTimes
  <1>2. QED
    BY <1>1, Limits DEF Makes, AbsOf

\* What the three times of a sample are: each of the two vectors is made to within
\* a count, both together to within two, and they fill the peak but for what the
\* conversions cut off, the zero vectors with no less than the maximum leaves.
TimesFit(t0, t1, t2, v1, v2) ==
    /\ t0 \in Nat /\ t1 \in Nat /\ t2 \in Nat
    /\ Makes(t1, v1, v1 + v2) /\ Makes(t2, v2, v1 + v2) /\ Makes(t1 + t2, v1 + v2, v1 + v2)
    /\ t0 >= Peak - MaxDuty /\ t0 + t1 + t2 <= Peak /\ t0 + t1 + t2 >= Peak - 2

LEMMA TimesUncut ==
  ASSUME NEW v1 \in Nat, NEW v2 \in Nat, ~Exceeds(v1, v2)
  PROVE  TimesFit(ZeroTime(v1, v2), Time(v1, v1, v2), Time(v2, v1, v2), v1, v2)
  <1> DEFINE rest0 == Peak * Scale - v1 - v2
             t0 == rest0 \div Scale
             t1 == v1 \div Scale
             t2 == v2 \div Scale
  <1>1. ~(v1 + v2 > MaxDuty * Scale)
    BY DEF Exceeds
  <1>2. rest0 \in Nat /\ rest0 >= (Peak - MaxDuty) * Scale /\ ~(v1 + v2 > Peak * Scale)
    BY <1>1, Limits
  <1>3. ZeroTime(v1, v2) = t0 /\ Time(v1, v1, v2) = t1 /\ Time(v2, v1, v2) = t2
    BY <1>2 DEF ZeroTime, Time
  <1>4. /\ t0 \in Nat /\ t0 * Scale \in Nat /\ t0 * Scale <= rest0 /\ rest0 < t0 * Scale + Scale
        /\ t1 \in Nat /\ t1 * Scale \in Nat /\ t1 * Scale <= v1 /\ v1 < t1 * Scale + Scale
        /\ t2 \in Nat /\ t2 * Scale \in Nat /\ t2 * Scale <= v2 /\ v2 < t2 * Scale + Scale
    BY <1>2, Limits, Quotient
  <1> HIDE DEF t0, t1, t2
  <1>5. /\ (t1 + t2) * Scale = t1 * Scale + t2 * Scale
        /\ (t0 + t1 + t2) * Scale = t0 * Scale + t1 * Scale + t2 * Scale
    BY <1>4, Limits, SumTimes
  <1>6. /\ Makes(t1, v1, v1 + v2) /\ Makes(t2, v2, v1 + v2) /\ Makes(t1 + t2, v1 + v2, v1 + v2)
    BY <1>1, <1>4, <1>5, Limits DEF Makes, AbsOf
  <1>7. t0 >= Peak - MaxDuty
    <2>1. (t0 + 1) * Scale = t0 * Scale + Scale
      BY <1>4, Limits
    <2>2. (Peak - MaxDuty) * Scale < (t0 + 1) * Scale
      BY <1>2, <1>4, <2>1, Limits
    <2>3. Peak - MaxDuty < t0 + 1
      BY <1>4, <2>2, Limits, Cancels
    <2>4. QED
      BY <1>4, <2>3, Limits
  <1>8. t0 + t1 + t2 <= Peak
    <2>1. (t0 + t1 + t2) * Scale <= Peak * Scale
      BY <1>4, <1>5, Limits
    <2>2. QED
      BY <1>4, <2>1, Limits, Cancels
  <1>9. t0 + t1 + t2 >= Peak - 2
    <2>1. (t0 + t1 + t2 + 3) * Scale = (t0 + t1 + t2) * Scale + 3 * Scale
      BY <1>4, Limits
    <2>2. Peak * Scale < (t0 + t1 + t2 + 3) * Scale
      BY <1>4, <1>5, <2>1, Limits
    <2>3. Peak < t0 + t1 + t2 + 3
      BY <1>4, <2>2, Limits, Cancels
    <2>4. QED
      BY <1>4, <2>3, Limits
  <1>10. QED
    BY <1>3, <1>4, <1>6, <1>7, <1>8, <1>9 DEF TimesFit

LEMMA TimesCut ==
  ASSUME NEW v1 \in Nat, NEW v2 \in Nat, Exceeds(v1, v2)
  PROVE  TimesFit(ZeroTime(v1, v2), Time(v1, v1, v2), Time(v2, v1, v2), v1, v2)
  <1> DEFINE u == v1 + v2
             t1 == (v1 * MaxDuty) \div u
             t2 == (v2 * MaxDuty) \div u
  <1>1. u > MaxDuty * Scale /\ u \in Nat /\ u >= 1
    BY Limits DEF Exceeds
  <1>2. /\ ZeroTime(v1, v2) = Peak - MaxDuty /\ Time(v1, v1, v2) = t1 /\ Time(v2, v1, v2) = t2
    BY DEF ZeroTime, Time
  <1>3. v1 * MaxDuty \in Nat /\ v2 * MaxDuty \in Nat /\ v1 * MaxDuty + v2 * MaxDuty = MaxDuty * u
    BY Limits
  <1>4. /\ t1 \in Nat /\ t1 * u \in Nat /\ t1 * u <= v1 * MaxDuty /\ v1 * MaxDuty < t1 * u + u
        /\ t2 \in Nat /\ t2 * u \in Nat /\ t2 * u <= v2 * MaxDuty /\ v2 * MaxDuty < t2 * u + u
    BY <1>1, <1>3, Quotient
  <1> HIDE DEF t1, t2
  <1>5. (t1 + t2) * u = t1 * u + t2 * u /\ u * MaxDuty = v1 * MaxDuty + v2 * MaxDuty
    BY <1>1, <1>4, Limits, SumTimes
  <1> HIDE DEF u
  <1>6. Makes(t1, v1, u) /\ Makes(t2, v2, u) /\ Makes(t1 + t2, u, u)
    BY <1>1, <1>3, <1>4, <1>5, Limits DEF Makes, AbsOf
  <1>7. t1 + t2 <= MaxDuty
    <2>1. (t1 + t2) * u <= MaxDuty * u
      BY <1>3, <1>4, <1>5
    <2>2. QED
      BY <1>1, <1>4, <2>1, Limits, Cancels
  <1>8. t1 + t2 >= MaxDuty - 1
    <2>1. (t1 + t2 + 2) * u = (t1 + t2) * u + 2 * u
      BY <1>1, <1>4
    <2>2. MaxDuty * u < (t1 + t2 + 2) * u
      BY <1>1, <1>3, <1>4, <1>5, <2>1
    <2>3. MaxDuty < t1 + t2 + 2
      BY <1>1, <1>4, <2>2, Limits, Cancels
    <2>4. QED
      BY <1>4, <2>3, Limits
  <1>9. /\ Peak - MaxDuty \in Nat /\ (Peak - MaxDuty) + t1 + t2 <= Peak
        /\ (Peak - MaxDuty) + t1 + t2 >= Peak - 2
    BY <1>4, <1>7, <1>8, Limits
  <1>10. QED
    BY <1>2, <1>4, <1>6, <1>9, Limits DEF TimesFit, u

\* The line voltage requested between two legs.
Line(leg1, leg2) ==
    IF leg1 = "U" THEN (IF leg2 = "V" THEN ab ELSE -ca)
    ELSE IF leg1 = "V" THEN (IF leg2 = "W" THEN bc ELSE -ab)
    ELSE (IF leg2 = "U" THEN ca ELSE -bc)

\* A sector: its two voltages are not negative, lie between its first two and its
\* last two legs, and together are the largest line voltage.
InSector(s, f, m, t) ==
    /\ s.order[1] = f /\ s.order[2] = m /\ s.order[3] = t
    /\ Legs = {f, m, t} /\ f # m /\ m # t /\ f # t
    /\ s.v1 \in Nat /\ s.v2 \in Nat /\ Largest = s.v1 + s.v2
    /\ Line(f, m) = s.v1 /\ Line(m, t) = s.v2 /\ Line(f, t) = s.v1 + s.v2

\* Every vector is in one of the six sectors.
LEMMA OneOfSix ==
  ASSUME ab \in Int, bc \in Int
  PROVE  \E f, m, t \in Legs : InSector(SectorOf, f, m, t)
  <1>1. ab \in Int /\ bc \in Int /\ ca \in Int /\ ca = -(ab + bc)
    BY DEF ca
  <1>2. CASE ab >= 0 /\ bc >= 0
    <2>1. SectorOf = [v1 |-> ab, v2 |-> bc, order |-> <<"U", "V", "W">>]
      BY <1>1, <1>2 DEF SectorOf, Sector
    <2>2. ab \in Nat /\ bc \in Nat /\ Largest = ab + bc
      BY <1>1, <1>2 DEF Largest, AbsOf
    <2>3. InSector(SectorOf, "U", "V", "W")
      BY <1>1, <2>1, <2>2 DEF InSector, Line, Legs
    <2>4. QED
      BY <2>3 DEF Legs
  <1>3. CASE ab >= 0 /\ bc < 0 /\ ca >= 0
    <2>1. SectorOf = [v1 |-> ca, v2 |-> ab, order |-> <<"W", "U", "V">>]
      BY <1>1, <1>3 DEF SectorOf, Sector
    <2>2. ca \in Nat /\ ab \in Nat /\ Largest = ca + ab
      BY <1>1, <1>3 DEF Largest, AbsOf
    <2>3. InSector(SectorOf, "W", "U", "V")
      BY <1>1, <2>1, <2>2 DEF InSector, Line, Legs
    <2>4. QED
      BY <2>3 DEF Legs
  <1>4. CASE ab >= 0 /\ bc < 0 /\ ca < 0
    <2>1. SectorOf = [v1 |-> -ca, v2 |-> -bc, order |-> <<"U", "W", "V">>]
      BY <1>1, <1>4 DEF SectorOf, Sector
    <2>2. -ca \in Nat /\ -bc \in Nat /\ Largest = -ca + -bc
      BY <1>1, <1>4 DEF Largest, AbsOf
    <2>3. InSector(SectorOf, "U", "W", "V")
      BY <1>1, <2>1, <2>2 DEF InSector, Line, Legs
    <2>4. QED
      BY <2>3 DEF Legs
  <1>5. CASE ab < 0 /\ bc <= 0
    <2>1. SectorOf = [v1 |-> -bc, v2 |-> -ab, order |-> <<"W", "V", "U">>]
      BY <1>1, <1>5 DEF SectorOf, Sector
    <2>2. -bc \in Nat /\ -ab \in Nat /\ Largest = -bc + -ab
      BY <1>1, <1>5 DEF Largest, AbsOf
    <2>3. InSector(SectorOf, "W", "V", "U")
      BY <1>1, <2>1, <2>2 DEF InSector, Line, Legs
    <2>4. QED
      BY <2>3 DEF Legs
  <1>6. CASE ab < 0 /\ bc > 0 /\ ca <= 0
    <2>1. SectorOf = [v1 |-> -ab, v2 |-> -ca, order |-> <<"V", "U", "W">>]
      BY <1>1, <1>6 DEF SectorOf, Sector
    <2>2. -ab \in Nat /\ -ca \in Nat /\ Largest = -ab + -ca
      BY <1>1, <1>6 DEF Largest, AbsOf
    <2>3. InSector(SectorOf, "V", "U", "W")
      BY <1>1, <2>1, <2>2 DEF InSector, Line, Legs
    <2>4. QED
      BY <2>3 DEF Legs
  <1>7. CASE ab < 0 /\ bc > 0 /\ ca > 0
    <2>1. SectorOf = [v1 |-> bc, v2 |-> ca, order |-> <<"V", "W", "U">>]
      BY <1>1, <1>7 DEF SectorOf, Sector
    <2>2. bc \in Nat /\ ca \in Nat /\ Largest = bc + ca
      BY <1>1, <1>7 DEF Largest, AbsOf
    <2>3. InSector(SectorOf, "V", "W", "U")
      BY <1>1, <2>1, <2>2 DEF InSector, Line, Legs
    <2>4. QED
      BY <2>3 DEF Legs
  <1>8. QED
    BY <1>1, <1>2, <1>3, <1>4, <1>5, <1>6, <1>7

\* The line voltage the other way round is the opposite.
LEMMA LineOpposite ==
  ASSUME ab \in Int, bc \in Int, NEW a \in Legs, NEW b \in Legs, a # b
  PROVE  Line(a, b) \in Int /\ Line(b, a) = -Line(a, b)
  <1>1. ca \in Int
    BY DEF ca
  <1>2. QED
    BY <1>1 DEF Line, Legs

\* What SVPWM_Calc gives the legs.
LEMMA Calculated ==
  ASSUME PwmTypeOK, SvpwmCalc
  PROVE  on' \in [Legs -> 0..Peak] /\ ov' \in BOOLEAN /\ VectorInWindow'
  <1>1. ab \in Int /\ bc \in Int /\ ab' = ab /\ bc' = bc /\ ca' = ca /\ Largest' = Largest
    BY SvpwmParameters DEF PwmTypeOK, SvpwmCalc, Largest, ca
  <1>2. PICK f \in Legs, m \in Legs, t \in Legs : InSector(SectorOf, f, m, t)
    BY <1>1, OneOfSix
  <1> DEFINE v1 == SectorOf.v1
             v2 == SectorOf.v2
             t0 == ZeroTime(v1, v2)
             t1 == Time(v1, v1, v2)
             t2 == Time(v2, v1, v2)
             half == t0 \div 2
  <1>3. /\ SectorOf.order[1] = f /\ SectorOf.order[2] = m /\ SectorOf.order[3] = t
        /\ Legs = {f, m, t} /\ f # m /\ m # t /\ f # t
        /\ v1 \in Nat /\ v2 \in Nat /\ Largest = v1 + v2
        /\ Line(f, m) = v1 /\ Line(m, t) = v2 /\ Line(f, t) = v1 + v2
    BY <1>2 DEF InSector
  <1>4. /\ on' = [l \in Legs |-> half + (IF l = SectorOf.order[1] THEN 0
                                        ELSE IF l = SectorOf.order[2] THEN t1 ELSE t1 + t2)]
        /\ ov' = Exceeds(v1, v2)
    BY DEF SvpwmCalc
  <1>5. TimesFit(t0, t1, t2, v1, v2)
    BY <1>3, TimesCut, TimesUncut
  <1> HIDE DEF v1, v2, t0, t1, t2
  <1>6. /\ t0 \in Nat /\ t1 \in Nat /\ t2 \in Nat
        /\ t0 >= Peak - MaxDuty /\ t0 + t1 + t2 <= Peak /\ t0 + t1 + t2 >= Peak - 2
        /\ Makes(t1, v1, Largest) /\ Makes(t2, v2, Largest) /\ Makes(t1 + t2, v1 + v2, Largest)
    BY <1>3, <1>5 DEF TimesFit
  <1>7. half \in Nat /\ (2 * half = t0 \/ 2 * half = t0 - 1)
    BY <1>6
  <1>8. on'[f] = half + 0 /\ on'[m] = half + t1 /\ on'[t] = half + (t1 + t2)
    BY <1>3, <1>4
  <1> HIDE DEF half
  <1>9. on'[f] = half /\ on'[m] = half + t1 /\ on'[t] = half + t1 + t2
    BY <1>6, <1>7, <1>8
  <1>10. on' \in [Legs -> 0..Peak]
    <2>1. \A l \in Legs : on'[l] \in 0..Peak
      BY <1>3, <1>6, <1>7, <1>9, Limits
    <2>2. QED
      BY <1>4, <2>1
  <1>11. ov' \in BOOLEAN
    <2>1. ov' = (v1 + v2 > MaxDuty * Scale)
      BY <1>4 DEF Exceeds
    <2>2. (v1 + v2 > MaxDuty * Scale) \in BOOLEAN
      OBVIOUS
    <2>3. QED
      BY <2>1, <2>2, Zenon
  <1>12. \A a, b \in Legs : a # b => Makes(on'[b] - on'[a], Line(a, b), Largest)
    <2>1. /\ on'[m] - on'[f] = t1 /\ on'[t] - on'[m] = t2 /\ on'[t] - on'[f] = t1 + t2
          /\ on'[f] - on'[m] = -t1 /\ on'[m] - on'[t] = -t2 /\ on'[f] - on'[t] = -(t1 + t2)
      BY <1>6, <1>7, <1>9
    <2>2. /\ Makes(-t1, -v1, Largest) /\ Makes(-t2, -v2, Largest)
          /\ Makes(-(t1 + t2), -(v1 + v2), Largest)
      BY <1>3, <1>6, MakesOpposite
    <2>3. Line(m, f) = -v1 /\ Line(t, m) = -v2 /\ Line(t, f) = -(v1 + v2)
      BY <1>1, <1>3, LineOpposite
    <2>4. /\ Makes(on'[m] - on'[f], Line(f, m), Largest)
          /\ Makes(on'[t] - on'[m], Line(m, t), Largest)
          /\ Makes(on'[t] - on'[f], Line(f, t), Largest)
          /\ Makes(on'[f] - on'[m], Line(m, f), Largest)
          /\ Makes(on'[m] - on'[t], Line(t, m), Largest)
          /\ Makes(on'[f] - on'[t], Line(t, f), Largest)
      BY <1>3, <1>6, <2>1, <2>2, <2>3
    <2> DEFINE Fits(a, b) == Makes(on'[b] - on'[a], Line(a, b), Largest)
    <2>5. Fits(f, m) /\ Fits(m, t) /\ Fits(f, t) /\ Fits(m, f) /\ Fits(t, m) /\ Fits(t, f)
      BY <2>4
    <2> HIDE DEF Fits
    <2>6. \A a, b \in Legs : a # b => Fits(a, b)
      BY <1>3, <2>5
    <2>7. QED
      BY <2>6 DEF Fits
  <1>13. VectorReproduced'
    <2>1. "U" \in Legs /\ "V" \in Legs /\ "W" \in Legs
      BY DEF Legs
    <2>2. Line("U", "V") = ab /\ Line("V", "W") = bc /\ Line("W", "U") = ca
      BY DEF Line
    <2>3. /\ Makes(on'["V"] - on'["U"], ab, Largest) /\ Makes(on'["W"] - on'["V"], bc, Largest)
          /\ Makes(on'["U"] - on'["W"], ca, Largest)
      BY <1>12, <2>1, <2>2
    <2>4. QED
      BY <1>1, <2>3 DEF VectorReproduced, Reproduces, Makes
  <1>14. WindowKept'
    <2> DEFINE gap == (Peak - MaxDuty) \div 2
    <2>1. gap \in Nat /\ (2 * gap = Peak - MaxDuty \/ 2 * gap = Peak - MaxDuty - 1)
      BY Limits
    <2> HIDE DEF gap
    <2>2. /\ half >= gap /\ half + t1 + t2 <= Peak - gap
          /\ AbsOf(half + (half + t1 + t2) - Peak) <= 3
      BY <1>6, <1>7, <2>1, Limits DEF AbsOf
    <2>3. \A l \in Legs : on'[l] >= gap /\ on'[l] <= Peak - gap
      BY <1>3, <1>6, <1>7, <1>9, <2>1, <2>2, Limits
    <2>4. \A l \in Legs : on'[f] <= on'[l] /\ on'[l] <= on'[t]
      BY <1>3, <1>6, <1>7, <1>9
    <2>5. AbsOf(on'[f] + on'[t] - Peak) <= 3
      BY <1>9, <2>2
    <2>6. \E f0, f1 \in Legs : /\ \A l \in Legs : on'[f0] <= on'[l] /\ on'[l] <= on'[f1]
                               /\ AbsOf(on'[f0] + on'[f1] - Peak) <= 3
      BY <2>4, <2>5
    <2>7. QED
      BY <2>3, <2>6 DEF WindowKept, gap
  <1>15. QED
    BY <1>10, <1>11, <1>13, <1>14 DEF VectorInWindow

\* The compare values stay within the count.
PwmInv == PwmTypeOK /\ VectorInWindow

LEMMA PwmInvHolds == PwmSpec => []PwmInv
<1>1. PwmInit => PwmInv
  <2> SUFFICES ASSUME PwmInit PROVE PwmInv
    OBVIOUS
  <2>1. ov \in BOOLEAN /\ fresh \in BOOLEAN /\ ~fresh
    BY Zenon DEF PwmInit
  <2>2. PwmTypeOK
    BY <2>1, Limits, SvpwmParameters DEF PwmInit, PwmTypeOK
  <2> QED
    BY <2>1, <2>2 DEF PwmInv, VectorInWindow, VectorReproduced, WindowKept
<1>2. PwmInv /\ [PwmNext]_pwmVars => PwmInv'
  <2> SUFFICES ASSUME PwmInv, [PwmNext]_pwmVars PROVE PwmInv'
    OBVIOUS
  <2>1. CASE SvpwmCalc
    <3>1. on' \in [Legs -> 0..Peak] /\ ov' \in BOOLEAN /\ VectorInWindow'
      BY <2>1, Calculated DEF PwmInv
    <3>2. fresh' \in BOOLEAN /\ ab' = ab /\ bc' = bc
      BY <2>1, Zenon DEF SvpwmCalc
    <3> QED
      BY <3>1, <3>2 DEF PwmInv, PwmTypeOK
  <2>2. CASE Requests
    <3>1. fresh' \in BOOLEAN /\ ~fresh' /\ on' = on /\ ov' = ov
      BY <2>2, Zenon DEF Requests
    <3>2. ab' \in -VMax..VMax /\ bc' \in -VMax..VMax
      BY <2>2 DEF Requests, PwmInv, PwmTypeOK
    <3> QED
      BY <3>1, <3>2 DEF PwmInv, PwmTypeOK, VectorInWindow, VectorReproduced, WindowKept
  <2>3. CASE UNCHANGED pwmVars
    BY <2>3 DEF pwmVars, PwmInv, PwmTypeOK, VectorInWindow, VectorReproduced, WindowKept,
       Reproduces, Largest, ca
  <2> QED
    BY <2>1, <2>2, <2>3 DEF PwmNext
<1> QED
  BY <1>1, <1>2, PTL DEF PwmSpec

\* No compare value leaves the count, so none wraps in its uint16_t.
THEOREM PwmTypeCorrect == PwmSpec => []PwmTypeOK
  BY PwmInvHolds, PTL DEF PwmInv

\* In all six sectors, cut or not, for every count and every bus voltage, the legs
\* make the vector requested and leave the window to the sampling.
THEOREM VectorKept == PwmSpec => []VectorInWindow
  BY PwmInvHolds, PTL DEF PwmInv

=============================================================================
