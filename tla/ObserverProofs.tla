---------------------------- MODULE ObserverProofs ----------------------------
(***************************************************************************)
(* Proofs about the two observers with a state that outlives a run: the    *)
(* polarity search of Hfi, for every length of its phases and every        *)
(* response of the motor, and the speed filter of MoveFilter, for every    *)
(* size and every speed.                                                   *)
(***************************************************************************)
EXTENDS Hfi, MoveFilter, SequenceTheorems, WellFoundedInduction, TLAPS

-----------------------------------------------------------------------------
(***************************************************************************)
(* Hfi                                                                     *)
(***************************************************************************)

\* The lengths are whole, and every phase of the search takes a sample.
LEMMA PulseLengths ==
  /\ Settle \in Nat /\ Settle > 0 /\ Pulse \in Nat /\ Pulse > 0
  /\ Take \in Nat /\ Take > 0 /\ Pause \in Nat /\ Pause > 0
  /\ TakePositive = Settle + Pulse /\ Zero = Settle + Pulse + Take
  /\ Negative = Zero + Pause /\ TakeNegative = Negative + Pulse
  /\ Over = Negative + Pulse + Take
  /\ Zero \in Nat /\ Negative \in Nat /\ Over \in Nat
  BY HfiParameters
  DEF Over, TakeNegative, Negative, Zero, TakePositive, Positive

\* Where main is in HFI_Init, what the status can be and whether a voltage is
\* injected: no sample of a run falls into the memset, and one of a stop at most.
InitWindow ==
    /\ status = "IDLE" \/ memsetAt = "memset" => injected = 0
    /\ memsetAt = "memset" =>
         /\ status \in {"IDLE", "DRV_STOP"}
         /\ tornHfi => status = "IDLE"
         /\ ~tornHfi => nsdFlag = 0
         /\ nsdFlag = 0 => nsdOut = 0

Least(a, b) == IF a < b THEN a ELSE b

\* The reference and how long it has been held, at every count of the search.
References ==
    /\ nsdCount = 0 \/ nsdCount = Over => idRef = 0
    /\ nsdCount >= 1 /\ nsdCount < Zero => idRef = 5 /\ held = Least(nsdCount, Pulse)
    /\ nsdCount >= Zero /\ nsdCount < Negative => idRef = 0
    /\ nsdCount >= Negative /\ nsdCount < Over =>
         idRef = -5 /\ held = Least(nsdCount - Negative + 1, Pulse)
    /\ nsdFlag = 1 => nsdCount = 0

\* How many samples of a window that begins at `from' are taken at a count.
TakenAt(n, from) ==
    IF n < from THEN 0 ELSE IF n - from + 1 > Take THEN Take ELSE n - from + 1

\* A memset over a finished search leaves its sums, and one sample may follow.
StaleSums == memsetAt = "memset" /\ (tornHfi \/ nsdCount = 0)

Samples ==
    nsdFlag = 0 /\ ~StaleSums =>
        n1 = TakenAt(nsdCount, TakePositive) /\ n2 = TakenAt(nsdCount, TakeNegative)

\* The verdict and what has become of it.
Verdict ==
    /\ turned \in {0, 1}
    /\ memsetAt = "elsewhere" =>
         /\ nsdFlag = 0 => turned = 0 /\ nsdOut = 0
         /\ nsdFlag = 1 => turned + nsdOut \in {0, 1}
         /\ nsdFlag = 1 /\ ~tornHfi => (turned + nsdOut = 1 <=> sum2 > sum1)

HfiInv ==
    HfiTypeOK /\ InitWindow /\ References /\ Samples /\ Verdict /\ DemodulatesWhatIsInjected

\* After the first MotorSW_Init the search has not begun.
LEMMA HfiInitially == HfiInit => HfiInv
  <1> USE PulseLengths DEF HfiInit
  <1> SUFFICES ASSUME HfiInit PROVE HfiInv
    OBVIOUS
  <1>1. HfiTypeOK
    <2>1. closed \in BOOLEAN /\ tornHfi \in BOOLEAN
      BY Zenon
    <2>2. QED
      BY <2>1 DEF HfiTypeOK
  <1>2. InitWindow /\ Verdict /\ DemodulatesWhatIsInjected
    BY DEF InitWindow, Verdict, DemodulatesWhatIsInjected
  <1>3. 0 < TakePositive /\ 0 < TakeNegative /\ Over # 0 /\ 0 < Negative
    OBVIOUS
  <1>4. References
    BY <1>3 DEF References
  <1>5. Samples
    BY <1>3 DEF Samples, TakenAt
  <1>6. QED
    BY <1>1, <1>2, <1>4, <1>5 DEF HfiInv

\* A sample of the search keeps count, reference and windows in step.
LEMMA SearchStep ==
  ASSUME HfiInv, nsdFlag = 0, NEW r \in Responses, Searches(r),
         memsetAt = "memset" => ~tornHfi
  PROVE  /\ nsdCount' \in 0..Over /\ held' \in 0..Pulse /\ idRef' \in {-5, 0, 5}
         /\ n1' \in 0..Take /\ n2' \in 0..Take /\ nsdFlag' \in {0, 1}
         /\ References'
         /\ nsdFlag' = 0 /\ ~(memsetAt = "memset" /\ nsdCount = 0) =>
              /\ n1' = TakenAt(nsdCount', TakePositive)
              /\ n2' = TakenAt(nsdCount', TakeNegative)
         /\ n1' > n1 => idRef = 5 /\ held = Pulse
         /\ n2' > n2 => idRef = -5 /\ held = Pulse
         /\ nsdFlag' > nsdFlag => n1 = Take /\ n2 = Take
  <1> DEFINE n == nsdCount + 1
  <1> USE PulseLengths
  <1>1. /\ nsdCount \in 0..Over /\ held \in 0..Pulse /\ n1 \in 0..Take /\ n2 \in 0..Take
        /\ idRef \in {-5, 0, 5} /\ References
        /\ \/ memsetAt = "memset" /\ nsdCount = 0
           \/ n1 = TakenAt(nsdCount, TakePositive) /\ n2 = TakenAt(nsdCount, TakeNegative)
    <2>1. HfiTypeOK /\ References /\ Samples
      BY DEF HfiInv
    <2>2. StaleSums => memsetAt = "memset" /\ nsdCount = 0
      BY Zenon DEF StaleSums
    <2>3. \/ memsetAt = "memset" /\ nsdCount = 0
          \/ n1 = TakenAt(nsdCount, TakePositive) /\ n2 = TakenAt(nsdCount, TakeNegative)
      BY <2>1, <2>2, Zenon DEF Samples
    <2>4. QED
      BY <2>1, <2>3 DEF HfiTypeOK
  <1>2. /\ nsdCount' = IF n > Over THEN 0 ELSE n
        /\ idRef' = RefAt(n)
        /\ held' = IF idRef' # idRef THEN 1 ELSE IF held = Pulse THEN held ELSE held + 1
        /\ n1' = (IF Takes1(n) THEN n1 + 1 ELSE n1)
        /\ n2' = (IF Takes2(n) THEN n2 + 1 ELSE n2)
        /\ nsdFlag' = IF n > Over THEN 1 ELSE 0
    BY DEF Searches
  <1>3. /\ n1' > n1 => idRef = 5 /\ held = Pulse
        /\ n2' > n2 => idRef = -5 /\ held = Pulse
    BY <1>1, <1>2 DEF Takes1, Takes2, References, Least
  <1>4. nsdFlag' > nsdFlag => n1 = Take /\ n2 = Take
    BY <1>1, <1>2 DEF TakenAt
  <1>5. CASE n > Over
    <2>1. nsdCount' = 0 /\ idRef' = 0 /\ nsdFlag' = 1 /\ n1' = n1 /\ n2' = n2
      BY <1>1, <1>2, <1>5 DEF RefAt, Takes1, Takes2, References
    <2>2. held' \in 0..Pulse
      BY <1>1, <1>2
    <2>3. QED
      BY <1>1, <1>3, <1>4, <2>1, <2>2 DEF References
  <1>6. CASE n <= Over
    <2>1. nsdCount' = n /\ nsdFlag' = 0
      BY <1>1, <1>2, <1>6
    <2>2. idRef' = IF n < Zero THEN 5 ELSE IF n < Negative THEN 0 ELSE IF n < Over THEN -5 ELSE 0
      BY <1>1, <1>2, <1>6 DEF RefAt
    <2>3. held' \in 0..Pulse
      BY <1>1, <1>2
    <2>4. /\ n < Zero => held' = Least(n, Pulse)
          /\ n >= Negative /\ n < Over => held' = Least(n - Negative + 1, Pulse)
      BY <1>1, <1>2, <2>2 DEF References, Least
    <2>5. References'
      BY <1>1, <2>1, <2>2, <2>4 DEF References, Least
    <2>6. ~(memsetAt = "memset" /\ nsdCount = 0) =>
              n1' = TakenAt(n, TakePositive) /\ n2' = TakenAt(n, TakeNegative)
      BY <1>1, <1>2, <1>6 DEF TakenAt, Takes1, Takes2
    <2>7. n1' \in 0..Take /\ n2' \in 0..Take
      BY <1>1, <1>2, <1>6 DEF TakenAt, Takes1, Takes2
    <2>8. QED
      BY <1>1, <1>3, <1>4, <1>6, <2>1, <2>2, <2>3, <2>5, <2>6, <2>7
  <1>7. QED
    BY <1>1, <1>5, <1>6

\* What a sample does to flags and verdict, in the search and after it.
LEMMA HfiSampleStep ==
  ASSUME HfiInv, Calculates, memsetAt = "memset" => ~tornHfi
  PROVE  /\ nsdCount' \in 0..Over /\ held' \in 0..Pulse /\ idRef' \in {-5, 0, 5}
         /\ n1' \in 0..Take /\ n2' \in 0..Take /\ nsdFlag' \in {0, 1}
         /\ sum1' \in Nat /\ sum2' \in Nat /\ sampleDir' = 1 - sampleDir
         /\ sampleDir' \in {0, 1} /\ enable' \in {0, 1} /\ nsdOut' \in {0, 1}
         /\ References'
         /\ nsdFlag' = 0 /\ ~(memsetAt = "memset" /\ nsdCount = 0) =>
              /\ n1' = TakenAt(nsdCount', TakePositive)
              /\ n2' = TakenAt(nsdCount', TakeNegative)
         /\ nsdFlag = 0 =>
              /\ turned' = turned
              /\ nsdFlag' = 0 => nsdOut' = nsdOut
              /\ nsdFlag' = 1 => nsdOut' = (IF sum2' > sum1' THEN 1 ELSE 0)
         /\ nsdFlag = 1 =>
              /\ nsdFlag' = 1 /\ turned' = turned + nsdOut /\ nsdOut' = 0
              /\ sum1' = sum1 /\ sum2' = sum2
         /\ n1' > n1 => idRef = 5 /\ held = Pulse
         /\ n2' > n2 => idRef = -5 /\ held = Pulse
         /\ nsdFlag' > nsdFlag => n1 = Take /\ n2 = Take
  <1>1. HfiTypeOK /\ References /\ Samples
    BY DEF HfiInv
  <1>2. sampleDir' = 1 - sampleDir /\ sampleDir' \in {0, 1} /\ enable' \in {0, 1}
    BY <1>1 DEF HfiTypeOK, Calculates
  <1>3. CASE nsdFlag = 0
    <2>1. PICK r \in Responses : Searches(r)
      BY <1>3 DEF Calculates
    <2>2. r \in Nat /\ sum1 \in Nat /\ sum2 \in Nat /\ nsdOut \in {0, 1} /\ nsdCount \in Nat
      BY <1>1, HfiParameters, PulseLengths DEF HfiTypeOK
    <2>3. sum1' \in Nat /\ sum2' \in Nat
      BY <2>1, <2>2 DEF Searches
    <2>4. /\ turned' = turned
          /\ nsdFlag' = 0 => nsdOut' = nsdOut
          /\ nsdFlag' = 1 => nsdOut' = (IF sum2' > sum1' THEN 1 ELSE 0)
      BY <2>1, <2>2, PulseLengths DEF Searches, Takes1, Takes2
    <2>5. nsdFlag' \in {0, 1} /\ nsdOut' \in {0, 1}
      BY <2>1, <2>2 DEF Searches
    <2>6. QED
      BY <1>2, <1>3, <2>1, <2>3, <2>4, <2>5, SearchStep
  <1>4. CASE nsdFlag = 1
    <2>1. /\ turned' = turned + nsdOut /\ nsdOut' = 0
          /\ UNCHANGED <<nsdFlag, nsdCount, sum1, sum2, idRef, held, n1, n2>>
      BY <1>4 DEF Calculates, Tracks
    <2>2. References'
      BY <1>1, <2>1 DEF References
    <2>3. QED
      BY <1>1, <1>2, <1>4, <2>1, <2>2 DEF HfiTypeOK
  <1>5. QED
    BY <1>1, <1>3, <1>4 DEF HfiTypeOK

LEMMA HfiRun == ASSUME HfiInv, RunSample PROVE HfiInv'
  <1>1. HfiTypeOK /\ InitWindow /\ Samples /\ Verdict
    BY DEF HfiInv
  <1>2. /\ status = "DRV_RUN" /\ status' = status /\ memsetAt' = memsetAt /\ tornHfi' = tornHfi
        /\ Calculates /\ StartupControl /\ Injects
    BY DEF RunSample
  <1>3. memsetAt = "elsewhere"
    BY <1>1, <1>2 DEF InitWindow, HfiTypeOK
  <1>4. memsetAt = "memset" => ~tornHfi
    BY <1>3
  <1> USE HfiSampleStep, <1>4
  <1>5. Verdict'
    <2>1. nsdFlag \in {0, 1} /\ nsdOut \in {0, 1} /\ turned \in {0, 1}
      BY <1>1 DEF HfiTypeOK, Verdict
    <2>2. CASE nsdFlag = 0
      BY <1>1, <1>2, <1>3, <2>1, <2>2 DEF Verdict
    <2>3. CASE nsdFlag = 1
      BY <1>1, <1>2, <1>3, <2>1, <2>3 DEF Verdict
    <2>4. QED
      BY <2>1, <2>2, <2>3
  <1>6. startup' \in {"Initialize", "BscCharge", "StateDetect", "CLStart", "Finish"}
    <2>1. startup \in {"Initialize", "BscCharge", "StateDetect", "CLStart", "Finish"}
      BY <1>1 DEF HfiTypeOK
    <2>2. startup' = CASE startup = "Initialize"  -> "BscCharge"
                       [] startup = "BscCharge"   -> "StateDetect"
                       [] startup = "StateDetect" -> "CLStart"
                       [] startup \in {"CLStart", "Finish"} -> "Finish"
      BY <1>2 DEF StartupControl
    <2>3. QED
      BY <2>1, <2>2, Zenon
  <1>7. closed' \in BOOLEAN /\ tornHfi' \in BOOLEAN
    BY <1>1, <1>2, Zenon DEF HfiTypeOK, StartupControl
  <1>8. dRef' = 0 /\ injected' \in {-1, 0, 1}
    BY <1>1, <1>2 DEF HfiTypeOK, StartupControl, Injects
  <1>9. HfiTypeOK'
    BY <1>1, <1>2, <1>5, <1>6, <1>7, <1>8 DEF HfiTypeOK, Verdict
  <1>10. InitWindow' /\ DemodulatesWhatIsInjected'
    BY <1>2, <1>3 DEF InitWindow, DemodulatesWhatIsInjected, Demodulates, Injects
  <1>11. Samples'
    BY <1>2, <1>3 DEF Samples
  <1>12. QED
    BY <1>2, <1>5, <1>9, <1>10, <1>11 DEF HfiInv

LEMMA HfiStop == ASSUME HfiInv, StopSample PROVE HfiInv'
  <1>1. HfiTypeOK /\ InitWindow /\ Samples /\ Verdict
    BY DEF HfiInv
  <1>2. /\ status = "DRV_STOP" /\ status' = "IDLE" /\ closed' = FALSE /\ dRef' = 0
        /\ injected' = 0 /\ startup' = startup /\ memsetAt' = memsetAt
        /\ tornHfi' = (tornHfi \/ memsetAt = "memset") /\ Calculates
    BY DEF StopSample, FastStop
  <1>3. memsetAt = "memset" => ~tornHfi
    BY <1>1, <1>2 DEF InitWindow
  <1>4. memsetAt = "memset" => tornHfi'
    BY <1>2, Zenon
  <1>5. memsetAt = "elsewhere" => tornHfi' = tornHfi
    BY <1>1, <1>2, Zenon DEF HfiTypeOK
  <1> USE HfiSampleStep, <1>3
  <1>6. nsdFlag \in {0, 1} /\ nsdOut \in {0, 1} /\ turned \in {0, 1}
        /\ memsetAt \in {"elsewhere", "memset"}
    BY <1>1 DEF HfiTypeOK, Verdict
  <1>7. memsetAt = "memset" => nsdFlag = 0 /\ nsdOut = 0
    BY <1>1, <1>3 DEF InitWindow
  <1>8. Verdict'
    <2>1. CASE nsdFlag = 0
      BY <1>1, <1>2, <1>5, <1>6, <2>1 DEF Verdict
    <2>2. CASE nsdFlag = 1
      BY <1>1, <1>2, <1>5, <1>6, <1>7, <2>2 DEF Verdict
    <2>3. QED
      BY <1>6, <2>1, <2>2
  <1>9. closed' \in BOOLEAN /\ tornHfi' \in BOOLEAN
    BY <1>1, <1>2, Zenon DEF HfiTypeOK
  <1>10. HfiTypeOK'
    <2>1. turned' \in 0..2
      BY <1>8 DEF Verdict
    <2>2. /\ status' \in {"IDLE", "DRV_RUN", "DRV_STOP"} /\ injected' \in {-1, 0, 1} /\ dRef' = 0
          /\ memsetAt' \in {"elsewhere", "memset"}
          /\ startup' \in {"Initialize", "BscCharge", "StateDetect", "CLStart", "Finish"}
      BY <1>1, <1>2 DEF HfiTypeOK
    <2>3. /\ nsdCount' \in 0..Over /\ held' \in 0..Pulse /\ idRef' \in {-5, 0, 5}
          /\ n1' \in 0..Take /\ n2' \in 0..Take /\ nsdFlag' \in {0, 1} /\ sum1' \in Nat
          /\ sum2' \in Nat /\ sampleDir' \in {0, 1} /\ enable' \in {0, 1} /\ nsdOut' \in {0, 1}
      BY <1>2
    <2>4. QED
      BY <1>9, <2>1, <2>2, <2>3, Zenon DEF HfiTypeOK
  <1>11. InitWindow' /\ DemodulatesWhatIsInjected'
    BY <1>1, <1>2, <1>4, <1>6, <1>7 DEF InitWindow, DemodulatesWhatIsInjected
  <1>12. Samples'
    BY <1>2, <1>4, <1>6 DEF Samples, StaleSums
  <1>13. QED
    BY <1>2, <1>8, <1>10, <1>11, <1>12 DEF HfiInv

LEMMA HfiTrip == ASSUME HfiInv, Trips PROVE HfiInv'
  <1>1. /\ status' = "IDLE" /\ closed' = FALSE /\ dRef' = 0 /\ injected' = 0
        /\ UNCHANGED <<startup, flagVars, nsdVars, memsetAt, tornHfi>>
    BY DEF Trips, FastStop
  <1>2. HfiTypeOK'
    BY <1>1 DEF HfiInv, HfiTypeOK, flagVars, nsdVars
  <1>3. InitWindow' /\ DemodulatesWhatIsInjected'
    BY <1>1 DEF HfiInv, InitWindow, DemodulatesWhatIsInjected, flagVars
  <1>4. References' /\ Samples' /\ Verdict'
    BY <1>1 DEF HfiInv, References, Samples, StaleSums, Verdict, flagVars, nsdVars
  <1>5. QED
    BY <1>2, <1>3, <1>4 DEF HfiInv

LEMMA HfiInitFlags == ASSUME HfiInv, InitFlags PROVE HfiInv'
  <1>1. HfiTypeOK /\ InitWindow /\ References /\ Samples /\ Verdict
    BY DEF HfiInv
  <1>2. /\ status = "IDLE" /\ memsetAt = "elsewhere" /\ memsetAt' = "memset"
        /\ sampleDir' = 0 /\ nsdFlag' = 0 /\ nsdOut' = 0 /\ enable' = 0 /\ tornHfi' = FALSE
        /\ UNCHANGED <<driveVars, nsdVars, injected>>
    BY DEF InitFlags
  <1>3. HfiTypeOK'
    BY <1>1, <1>2 DEF HfiTypeOK, driveVars, nsdVars
  <1>4. InitWindow' /\ DemodulatesWhatIsInjected' /\ Verdict'
    BY <1>1, <1>2 DEF InitWindow, DemodulatesWhatIsInjected, Verdict, driveVars, nsdVars
  <1>5. References'
    BY <1>1, <1>2 DEF References, nsdVars
  <1>6. Samples'
    <2>1. nsdCount # 0 => nsdFlag = 0
      BY <1>1 DEF References, HfiTypeOK
    <2>2. ~StaleSums
      BY <1>2 DEF StaleSums
    <2>3. QED
      BY <1>1, <1>2, <2>1, <2>2 DEF Samples, StaleSums, nsdVars
  <1>7. QED
    BY <1>3, <1>4, <1>5, <1>6 DEF HfiInv

LEMMA HfiInitRest == ASSUME HfiInv, InitRest PROVE HfiInv'
  <1>1. HfiTypeOK /\ InitWindow
    BY DEF HfiInv
  <1>2. /\ memsetAt = "memset" /\ memsetAt' = "elsewhere" /\ status' = "DRV_RUN"
        /\ nsdCount' = 0 /\ sum1' = 0 /\ sum2' = 0 /\ idRef' = 0 /\ turned' = 0
        /\ held' = 0 /\ n1' = 0 /\ n2' = 0 /\ startup' = "Initialize" /\ closed' = FALSE
        /\ UNCHANGED <<dRef, flagVars, injected, tornHfi>>
    BY DEF InitRest
  <1> USE PulseLengths
  <1>3. HfiTypeOK'
    <2>1. closed' \in BOOLEAN /\ tornHfi' \in BOOLEAN
      BY <1>1, <1>2, Zenon DEF HfiTypeOK
    <2>2. QED
      BY <1>1, <1>2, <2>1 DEF HfiTypeOK, flagVars
  <1>4. InitWindow' /\ DemodulatesWhatIsInjected'
    BY <1>1, <1>2 DEF InitWindow, DemodulatesWhatIsInjected
  <1>5. 0 < TakePositive /\ 0 < TakeNegative /\ Over # 0 /\ 0 < Negative
    OBVIOUS
  <1>6. References' /\ Samples'
    BY <1>2, <1>5 DEF References, Samples, TakenAt
  <1>7. Verdict'
    BY <1>1, <1>2 DEF HfiTypeOK, InitWindow, Verdict, flagVars
  <1>8. QED
    BY <1>3, <1>4, <1>6, <1>7 DEF HfiInv

LEMMA HfiStopped == ASSUME HfiInv, RunStops PROVE HfiInv'
  <1>1. /\ status = "DRV_RUN" \/ (memsetAt = "memset" /\ ~tornHfi)
        /\ status' = "DRV_STOP"
        /\ UNCHANGED <<startup, closed, dRef, flagVars, nsdVars, memsetAt, injected, tornHfi>>
    BY DEF RunStops
  <1>2. HfiTypeOK'
    BY <1>1 DEF HfiInv, HfiTypeOK, flagVars, nsdVars
  <1>3. InitWindow' /\ DemodulatesWhatIsInjected'
    BY <1>1 DEF HfiInv, InitWindow, DemodulatesWhatIsInjected, Demodulates, flagVars
  <1>4. References' /\ Samples' /\ Verdict'
    BY <1>1 DEF HfiInv, References, Samples, StaleSums, Verdict, flagVars, nsdVars
  <1>5. QED
    BY <1>2, <1>3, <1>4 DEF HfiInv

\* Every step of the ADC handler, of main and of TMR3 preserves it.
LEMMA HfiStep == HfiInv /\ [HfiNext]_hfiVars => HfiInv'
  <1> SUFFICES ASSUME HfiInv, [HfiNext]_hfiVars PROVE HfiInv'
    OBVIOUS
  <1>1. CASE HfiNext
    BY <1>1, HfiRun, HfiStop, HfiTrip, HfiInitFlags, HfiInitRest, HfiStopped DEF HfiNext
  <1>2. CASE UNCHANGED hfiVars
    BY <1>2 DEF HfiInv, HfiTypeOK, InitWindow, References, Samples, StaleSums, Verdict,
       DemodulatesWhatIsInjected, Demodulates, hfiVars, driveVars, flagVars, nsdVars
  <1>3. QED
    BY <1>1, <1>2

\* Hence, in every state: ...
LEMMA HfiInvariant == HfiSpec => []HfiInv
  BY HfiInitially, HfiStep, PTL DEF HfiSpec

\* ... and every step that adds a sample or decides does so on held pulses.
LEMMA HeldPulses ==
  ASSUME HfiInv, [HfiNext]_hfiVars
  PROVE  /\ n1' > n1 => idRef = 5 /\ held = Pulse
         /\ n2' > n2 => idRef = -5 /\ held = Pulse
         /\ nsdFlag' > nsdFlag => n1 = Take /\ n2 = Take
  <1>1. /\ n1 \in Nat /\ n2 \in Nat /\ nsdFlag \in Nat
        /\ memsetAt = "memset" => (status = "DRV_STOP" => ~tornHfi) /\ status # "DRV_RUN"
    BY PulseLengths DEF HfiInv, HfiTypeOK, InitWindow
  <1>2. CASE RunSample \/ StopSample
    BY <1>1, <1>2, HfiSampleStep DEF RunSample, StopSample
  <1>3. CASE Trips \/ InitFlags \/ InitRest \/ RunStops \/ UNCHANGED hfiVars
    <2>1. n1' \in {0, n1} /\ n2' \in {0, n2} /\ nsdFlag' \in {0, nsdFlag}
      BY <1>3 DEF Trips, InitFlags, InitRest, RunStops, hfiVars, flagVars, nsdVars
    <2>2. QED
      BY <1>1, <2>1
  <1>4. QED
    BY <1>2, <1>3 DEF HfiNext

\* No counter of the search leaves its range: its sums are of the samples taken.
THEOREM HfiTypeCorrect == HfiSpec => []HfiTypeOK
  BY HfiInvariant, PTL DEF HfiInv

\* The samples the polarity search still needs, and the one that uses its verdict.
ToVerdict(flag, count, out) == IF flag = 0 THEN Over - count + 2 ELSE out
SearchLeft == ToVerdict(nsdFlag, nsdCount, nsdOut)

LEMMA ToVerdictRange ==
  ASSUME NEW flag \in {0, 1}, NEW count \in 0..Over, NEW out \in {0, 1}
  PROVE  /\ ToVerdict(flag, count, out) \in Nat
         /\ ToVerdict(flag, count, out) <= Over + 2
         /\ ToVerdict(flag, count, out) = 0 <=> flag = 1 /\ out = 0
  BY PulseLengths DEF ToVerdict

LEMMA SearchType ==
  ASSUME HfiTypeOK
  PROVE  SearchLeft \in 0 .. Over + 2 /\ (SearchLeft = 0 <=> nsdFlag = 1 /\ nsdOut = 0)
  BY ToVerdictRange, PulseLengths DEF HfiTypeOK, SearchLeft

LEMMA SearchGoesOn ==
  ASSUME HfiTypeOK, Calculates
  PROVE  SearchLeft' < SearchLeft \/ (SearchLeft = 0 /\ SearchLeft' = 0)
  <1>1. /\ nsdCount \in 0..Over /\ nsdFlag \in {0, 1} /\ nsdOut \in {0, 1} /\ Over \in Nat
        /\ SearchLeft = ToVerdict(nsdFlag, nsdCount, nsdOut)
        /\ SearchLeft' = ToVerdict(nsdFlag', nsdCount', nsdOut')
    BY PulseLengths DEF HfiTypeOK, SearchLeft
  <1>2. CASE nsdFlag = 0 /\ nsdCount < Over
    <2>1. nsdCount' = nsdCount + 1 /\ nsdFlag' = 0
      BY <1>1, <1>2 DEF Calculates, Searches
    <2>2. ToVerdict(0, nsdCount + 1, nsdOut') < ToVerdict(0, nsdCount, nsdOut)
      BY <1>1, <1>2 DEF ToVerdict
    <2>3. QED
      BY <1>1, <1>2, <2>1, <2>2
  <1>3. CASE nsdFlag = 0 /\ nsdCount = Over
    <2>1. nsdFlag' = 1 /\ nsdOut' \in {0, 1}
      BY <1>1, <1>3 DEF Calculates, Searches
    <2>2. SearchLeft = 2 /\ SearchLeft' \in {0, 1}
      BY <1>1, <1>3, <2>1 DEF ToVerdict
    <2>3. QED
      BY <2>2
  <1>4. CASE nsdFlag = 1
    <2>1. nsdFlag' = 1 /\ nsdOut' = 0
      BY <1>4 DEF Calculates, Tracks
    <2>2. SearchLeft = nsdOut /\ SearchLeft' = 0
      BY <1>1, <1>4, <2>1 DEF ToVerdict
    <2>3. QED
      BY <1>1, <2>2
  <1>5. QED
    BY <1>1, <1>2, <1>3, <1>4

\* The search gives its verdict after a number of samples known beforehand, and the
\* verdict is used by the next: every sample of a run takes one of those left, and
\* only an initialisation begins it again.
THEOREM SearchDescends ==
  HfiSpec =>
    /\ [](SearchLeft \in 0 .. Over + 2 /\ (SearchLeft = 0 <=> nsdFlag = 1 /\ nsdOut = 0))
    /\ [][/\ Calculates => SearchLeft' < SearchLeft \/ (SearchLeft = 0 /\ SearchLeft' = 0)
          /\ SearchLeft' # SearchLeft => Calculates \/ InitFlags \/ InitRest]_hfiVars
  <1>1. HfiTypeOK => SearchLeft \in 0 .. Over + 2 /\ (SearchLeft = 0 <=> nsdFlag = 1 /\ nsdOut = 0)
    BY SearchType
  <1>2. ASSUME HfiNext, SearchLeft' # SearchLeft
        PROVE  Calculates \/ InitFlags \/ InitRest
    <2>1. CASE Trips \/ RunStops
      <3>1. UNCHANGED <<nsdFlag, nsdOut, nsdCount>>
        BY <2>1 DEF Trips, RunStops, flagVars, nsdVars
      <3>2. SearchLeft' = SearchLeft
        BY <3>1 DEF SearchLeft
      <3>3. QED
        BY <1>2, <3>2
    <2>2. QED
      BY <1>2, <2>1 DEF HfiNext, RunSample, StopSample
  <1>3. HfiTypeOK /\ [HfiNext]_hfiVars =>
          [/\ Calculates => SearchLeft' < SearchLeft \/ (SearchLeft = 0 /\ SearchLeft' = 0)
           /\ SearchLeft' # SearchLeft => Calculates \/ InitFlags \/ InitRest]_hfiVars
    BY <1>2, SearchGoesOn
  <1>4. QED
    BY <1>1, <1>3, HfiTypeCorrect, PTL DEF HfiSpec

\* The polarity search decides on whole windows of samples, each taken after
\* its reference was held for a full pulse; its verdict turns the angle at most
\* once; a sample is demodulated with the sign that was injected.  For every
\* length of the phases, however often runs are broken off and begun again.
THEOREM PolarityDecided == HfiSpec => PolarityIsDecidedOnce
  <1>1. HfiInv => TurnedByVerdict /\ DemodulatesWhatIsInjected
    <2> SUFFICES ASSUME HfiInv PROVE TurnedByVerdict
      BY DEF HfiInv
    <2>1. turned \in {0, 1} /\ nsdFlag \in {0, 1} /\ nsdOut \in {0, 1}
          /\ memsetAt \in {"elsewhere", "memset"}
      BY DEF HfiInv, HfiTypeOK, Verdict
    <2>2. memsetAt = "memset" /\ ~tornHfi => nsdFlag = 0
      BY DEF HfiInv, InitWindow
    <2>3. QED
      BY <2>1, <2>2 DEF TurnedByVerdict, HfiInv, Verdict
  <1>2. HfiInv /\ [HfiNext]_hfiVars =>
          [/\ n1' > n1 => idRef = 5 /\ held = Pulse
           /\ n2' > n2 => idRef = -5 /\ held = Pulse
           /\ nsdFlag' > nsdFlag => n1 = Take /\ n2 = Take]_hfiVars
    BY HeldPulses
  <1>3. QED
    BY <1>1, <1>2, HfiInvariant, PTL DEF HfiSpec, PolarityIsDecidedOnce, DecidedOnHeldPulses

-----------------------------------------------------------------------------
(***************************************************************************)
(* Sums of sequences                                                       *)
(*                                                                         *)
(* The library's induction theorems take a predicate, which the provers    *)
(* cannot instantiate; here induction is over a set, from the least        *)
(* element it leaves out.                                                  *)
(***************************************************************************)

\* Every set of naturals has a least element.
LEMMA LeastOfNaturals ==
  ASSUME NEW T, T \subseteq Nat, T # {}
  PROVE  \E n \in T : \A m \in T : n <= m
  <1> DEFINE R == OpToRel(<, Nat)
  <1>1. IsWellFoundedOn(R, Nat)
    BY NatLessThanWellFounded
  <1>2. \A x, y \in Nat : x < y => <<x, y>> \in R
    BY Z3 DEF OpToRel
  <1> HIDE DEF R
  <1>3. PICK x \in T : \A y \in T : ~(<<y, x>> \in R)
    BY <1>1, WFMin
  <1>4. ASSUME NEW y \in T PROVE x <= y
    <2>1. x \in Nat /\ y \in Nat
      OBVIOUS
    <2>2. ~(y < x)
      BY <1>2, <1>3, <2>1
    <2>3. QED
      BY <2>1, <2>2
  <1>5. QED
    BY <1>4

\* A set with 0 and every successor of its elements holds all naturals.
LEMMA InductionInSet ==
  ASSUME NEW S, 0 \in S, \A n \in Nat : n \in S => n + 1 \in S
  PROVE  Nat \subseteq S
  <1> DEFINE T == Nat \ S
  <1> SUFFICES ASSUME T # {} PROVE FALSE
    OBVIOUS
  <1>1. PICK n \in T : \A m \in T : n <= m
    BY LeastOfNaturals
  <1>2. n # 0
    OBVIOUS
  <1>3. n - 1 \in Nat /\ n - 1 \notin T
    BY <1>1, <1>2
  <1>4. QED
    BY <1>3

\* The sums of the first k of values, for k up to m.
IsSums(f, values, m) ==
    /\ f \in [0..m -> Int] /\ f[0] = 0
    /\ \A k \in 1..m : f[k] = f[k - 1] + values[k]

\* The function of sums exists, by induction on how far it goes, ...
LEMMA SumsExist ==
  ASSUME NEW values \in Seq(Int)
  PROVE  \E f : IsSums(f, values, Len(values))
  <1> DEFINE S == {m \in Nat : m <= Len(values) => \E f : IsSums(f, values, m)}
  <1>1. 0 \in S
    <2>1. IsSums([k \in 0..0 |-> 0], values, 0)
      BY DEF IsSums
    <2>2. QED
      BY <2>1
  <1>2. ASSUME NEW m \in Nat, m \in S PROVE m + 1 \in S
    <2> SUFFICES ASSUME m + 1 <= Len(values) PROVE \E f : IsSums(f, values, m + 1)
      OBVIOUS
    <2>1. PICK f : IsSums(f, values, m)
      BY <1>2
    <2> DEFINE g == [k \in 0..m + 1 |-> IF k = m + 1 THEN f[m] + values[m + 1] ELSE f[k]]
    <2>2. values[m + 1] \in Int /\ f[m] \in Int
      BY <2>1 DEF IsSums
    <2>3. g \in [0..m + 1 -> Int] /\ g[0] = 0
      BY <2>1, <2>2 DEF IsSums
    <2>4. ASSUME NEW k \in 1..m + 1 PROVE g[k] = g[k - 1] + values[k]
      <3>1. CASE k = m + 1
        BY <3>1
      <3>2. CASE k # m + 1
        <4>1. k \in 1..m /\ k - 1 \in 0..m + 1 /\ k - 1 # m + 1
          BY <3>2
        <4>2. QED
          BY <2>1, <3>2, <4>1 DEF IsSums
      <3>3. QED
        BY <3>1, <3>2
    <2> HIDE DEF g
    <2>5. QED
      BY <2>3, <2>4 DEF IsSums
  <1> HIDE DEF S
  <1>3. Nat \subseteq S
    BY <1>1, <1>2, InductionInSet
  <1>4. Len(values) \in S
    BY <1>3
  <1>5. QED
    BY <1>4 DEF S

\* ... and its recursive definition denotes it.
LEMMA SumsDef ==
  ASSUME NEW values \in Seq(Int)
  PROVE  IsSums(Sums(values), values, Len(values))
  <1> DEFINE Eqn(g) == g = [n \in 0..Len(values) |->
                              IF n = 0 THEN 0 ELSE g[n - 1] + values[n]]
  <1>1. PICK f : IsSums(f, values, Len(values))
    BY SumsExist
  <1>2. Eqn(f)
    BY <1>1 DEF IsSums
  <1>3. Sums(values) = CHOOSE g : Eqn(g)
    BY DEF Sums
  <1> HIDE DEF Eqn
  <1>4. Eqn(Sums(values))
    BY <1>2, <1>3
  <1>5. QED
    <2> DEFINE s == Sums(values)
    <2> HIDE DEF s
    <2>1. s = [n \in 0..Len(values) |-> IF n = 0 THEN 0 ELSE s[n - 1] + values[n]]
      BY <1>4 DEF Eqn, s
    <2>2. s[0] = 0 /\ \A k \in 1..Len(values) : s[k] = s[k - 1] + values[k]
      <3>1. Len(values) \in Nat
        OBVIOUS
      <3>2. \A k \in 0..Len(values) : s[k] = IF k = 0 THEN 0 ELSE s[k - 1] + values[k]
        BY <2>1, Zenon
      <3>3. QED
        BY <3>1, <3>2
    <2> DEFINE S == {m \in Nat : m <= Len(values) => s[m] \in Int}
    <2>3. 0 \in S
      BY <2>2
    <2>4. ASSUME NEW m \in Nat, m \in S PROVE m + 1 \in S
      BY <2>2, <2>4
    <2> HIDE DEF S
    <2>5. Nat \subseteq S
      BY <2>3, <2>4, InductionInSet
    <2>6. \A m \in 0..Len(values) : s[m] \in Int
      BY <2>5 DEF S
    <2>7. s \in [0..Len(values) -> Int]
      BY <2>1, <2>6
    <2>8. QED
      BY <2>2, <2>7 DEF IsSums, s

\* What it is at 0 and from one beginning to the next.
LEMMA SumsFacts ==
  ASSUME NEW values \in Seq(Int)
  PROVE  /\ Sums(values)[0] = 0
         /\ \A k \in 0..Len(values) : Sums(values)[k] \in Int
         /\ \A k \in Nat : k + 1 <= Len(values) =>
              Sums(values)[k + 1] = Sums(values)[k] + values[k + 1]
  <1> DEFINE s == Sums(values)
  <1>1. IsSums(s, values, Len(values)) /\ Len(values) \in Nat
    BY SumsDef
  <1> HIDE DEF s
  <1>2. s[0] = 0 /\ \A k \in 0..Len(values) : s[k] \in Int
    BY <1>1 DEF IsSums
  <1>3. ASSUME NEW k \in Nat, k + 1 <= Len(values) PROVE s[k + 1] = s[k] + values[k + 1]
    <2>1. k + 1 \in 1..Len(values) /\ (k + 1) - 1 = k
      BY <1>1, <1>3
    <2>2. s[k + 1] = s[(k + 1) - 1] + values[k + 1]
      BY <1>1, <2>1, Zenon DEF IsSums
    <2>3. QED
      BY <2>1, <2>2
  <1>4. QED
    BY <1>2, <1>3 DEF s

\* A total is an integer, that of no value 0, ...
LEMMA TotalType ==
  ASSUME NEW values \in Seq(Int)
  PROVE  Total(values) \in Int
  BY SumsFacts DEF Total

LEMMA TotalOfNone == Total(<<>>) = 0
  <1>1. <<>> \in Seq(Int) /\ Len(<<>>) = 0
    OBVIOUS
  <1>2. QED
    BY <1>1, SumsFacts DEF Total

\* Two sequences that differ by a shift and a constant in their sums.
LEMMA SumsShift ==
  ASSUME NEW v \in Seq(Int), NEW w \in Seq(Int), NEW d \in 0..1,
         Len(w) + d <= Len(v), \A k \in 1..Len(w) : w[k] = v[k + d]
  PROVE  \A k \in 0..Len(w) : Sums(v)[k + d] = Sums(v)[d] + Sums(w)[k]
  <1> DEFINE a == Sums(v)
             b == Sums(w)
             S == {m \in Nat : m <= Len(w) => a[m + d] = a[d] + b[m]}
  <1>1. /\ Len(w) \in Nat /\ Len(v) \in Nat /\ d \in Nat
        /\ \A k \in 0..Len(v) : a[k] \in Int
        /\ \A k \in Nat : k + 1 <= Len(v) => a[k + 1] = a[k] + v[k + 1]
        /\ \A k \in 0..Len(w) : b[k] \in Int
        /\ \A k \in Nat : k + 1 <= Len(w) => b[k + 1] = b[k] + w[k + 1]
        /\ b[0] = 0
    BY SumsFacts
  <1> HIDE DEF a, b
  <1>2. 0 \in S
    <2>1. 0 + d = d /\ a[d] \in Int
      BY <1>1
    <2>2. a[d] = a[d] + b[0]
      BY <1>1, <2>1
    <2>3. QED
      BY <2>1, <2>2
  <1>3. ASSUME NEW m \in Nat, m \in S PROVE m + 1 \in S
    <2> SUFFICES ASSUME m + 1 <= Len(w) PROVE a[(m + 1) + d] = a[d] + b[m + 1]
      OBVIOUS
    <2>1. b[m + 1] = b[m] + w[m + 1]
      BY <1>1
    <2>2. (m + 1) + d = (m + d) + 1 /\ m + d \in Nat /\ (m + d) + 1 <= Len(v)
      BY <1>1
    <2>3. a[(m + d) + 1] = a[m + d] + v[(m + d) + 1]
      BY <1>1, <2>2
    <2>4. m + 1 \in 1..Len(w) /\ m \in 0..Len(w) /\ d \in 0..Len(v)
      BY <1>1
    <2>5. w[m + 1] = v[(m + d) + 1] /\ w[m + 1] \in Int /\ a[d] \in Int /\ b[m] \in Int
      BY <1>1, <2>2, <2>4
    <2>6. a[m + d] = a[d] + b[m]
      BY <1>1, <1>3
    <2>7. a[(m + d) + 1] = a[d] + b[m + 1]
      BY <2>1, <2>3, <2>5, <2>6
    <2>8. QED
      BY <2>2, <2>7
  <1> HIDE DEF S
  <1>4. Nat \subseteq S
    BY <1>2, <1>3, InductionInSet
  <1>5. QED
    BY <1>1, <1>4 DEF S, a, b

\* ... a value appended adds itself, ...
LEMMA TotalOfAppend ==
  ASSUME NEW s \in Seq(Int), NEW e \in Int
  PROVE  Total(Append(s, e)) = Total(s) + e
  <1> DEFINE v == Append(s, e)
             n == Len(s)
  <1>1. v \in Seq(Int) /\ n \in Nat /\ Len(v) = n + 1 /\ v[n + 1] = e
        /\ \A k \in 1..n : s[k] = v[k + 0]
    OBVIOUS
  <1>2. Total(s) = Sums(s)[n] /\ Total(v) = Sums(v)[n + 1]
    BY <1>1 DEF Total
  <1> HIDE DEF v
  <1>3. \A k \in 0..n : Sums(v)[k + 0] = Sums(v)[0] + Sums(s)[k]
    <2>1. n + 0 <= Len(v)
      BY <1>1
    <2>2. QED
      BY <1>1, <2>1, SumsShift
  <1> HIDE DEF n
  <1>4. /\ Sums(v)[n + 0] = Sums(v)[0] + Sums(s)[n] /\ Sums(v)[0] = 0
        /\ Sums(v)[n + 1] = Sums(v)[n] + v[n + 1]
    BY <1>1, <1>3, SumsFacts
  <1>5. Sums(s)[n] \in Int /\ n + 0 = n
    BY <1>1, SumsFacts DEF n
  <1>6. Sums(v)[n + 1] = Sums(s)[n] + e
    BY <1>1, <1>4, <1>5
  <1>7. QED
    BY <1>2, <1>6 DEF v

\* ... and the first one taken off takes itself off.
LEMMA TotalOfTail ==
  ASSUME NEW s \in Seq(Int), s # <<>>
  PROVE  Total(Tail(s)) = Total(s) - s[1]
  <1> DEFINE w == Tail(s)
             n == Len(w)
  <1>1. w \in Seq(Int) /\ n \in Nat /\ Len(s) = n + 1 /\ s[1] \in Int
        /\ \A k \in 1..n : w[k] = s[k + 1]
    OBVIOUS
  <1>2. Total(w) = Sums(w)[n] /\ Total(s) = Sums(s)[n + 1]
    BY <1>1 DEF Total
  <1> HIDE DEF w
  <1>3. \A k \in 0..n : Sums(s)[k + 1] = Sums(s)[1] + Sums(w)[k]
    <2>1. 1 \in 0..1 /\ n + 1 <= Len(s)
      BY <1>1
    <2>2. QED
      BY <1>1, <2>1, SumsShift
  <1>4. Sums(w)[n] \in Int
    BY <1>1, SumsFacts
  <1> HIDE DEF n
  <1>5. Sums(s)[0 + 1] = Sums(s)[0] + s[0 + 1] /\ Sums(s)[0] = 0
    BY <1>1, SumsFacts
  <1>6. Sums(s)[1] = s[1]
    BY <1>1, <1>5
  <1>7. Sums(s)[n + 1] = s[1] + Sums(w)[n]
    BY <1>1, <1>3, <1>6
  <1>8. QED
    BY <1>1, <1>2, <1>4, <1>7 DEF w
-----------------------------------------------------------------------------
(***************************************************************************)
(* MoveFilter                                                              *)
(***************************************************************************)

\* Where the k-th of the recent values stands in the buffer.
Place(k) == IF Len(recent) < BufferSize THEN k - 1
            ELSE IF index + k - 1 < BufferSize THEN index + k - 1
            ELSE index + k - 1 - BufferSize

\* The ring holds the recent values, and zeroes where nothing was filled.
Ring ==
    /\ filled = Len(recent) /\ bufSum = Total(recent)
    /\ Len(recent) < BufferSize =>
         /\ index = Len(recent)
         /\ \A s \in Slots : s >= Len(recent) => buffer[s] = 0
    /\ \A k \in 1..Len(recent) : buffer[Place(k)] = recent[k]

\* What main has done of the initialisation; a Fill finds no size before the
\* last statement.
InitProgress ==
    /\ null <=> initAt = "buffer"
    /\ size = IF initAt \in {"buffer", "size"} THEN 0 ELSE BufferSize
    /\ filled <= size /\ slot <= BufferSize
    /\ initAt # "elsewhere" /\ ~tornInit =>
         /\ recent = <<>> /\ bufSum = 0 /\ filled = 0 /\ index = 0
         /\ initAt = "zero" => \A s \in Slots : s < slot => buffer[s] = 0

\* What TMR3 has loaded.
CalcProgress ==
    calcAt # "idle" =>
        /\ sumDen # 0
        /\ initAt = "elsewhere" /\ ~tornInit =>
             /\ sumDen \in {Len(recent), Len(recent) - 1}
             /\ ~late => sumDen = Len(recent)
             /\ calcAt = "divide" /\ ~late => num = Total(recent)

FilterInv ==
    /\ FilterTypeOK /\ recent \in Seq(Values)
    /\ InitProgress /\ (initAt = "elsewhere" /\ ~tornInit => Ring) /\ CalcProgress

LEMMA FilterInitially == FilterInit => FilterInv
  <1> SUFFICES ASSUME FilterInit PROVE FilterInv
    OBVIOUS
  <1> USE FilterParameters
  <1>1. /\ null \in BOOLEAN /\ tornInit \in BOOLEAN /\ late \in BOOLEAN
        /\ (null <=> initAt = "buffer")
    BY DEF FilterInit
  <1>2. recent = <<>> /\ recent \in Seq(Values) /\ Len(recent) = 0
    BY DEF FilterInit
  <1>3. FilterTypeOK
    BY <1>1, <1>2 DEF FilterInit, FilterTypeOK, Slots
  <1>4. Ring
    BY <1>2, TotalOfNone DEF FilterInit, Ring, Slots
  <1>5. InitProgress /\ CalcProgress
    BY <1>1 DEF FilterInit, InitProgress, CalcProgress
  <1>6. QED
    BY <1>2, <1>3, <1>4, <1>5 DEF FilterInv

\* The values remembered after a Fill.
Slid(val) == IF Len(recent) < BufferSize THEN Append(recent, val) ELSE Tail(Append(recent, val))

LEMMA SlidFacts ==
  ASSUME recent \in Seq(Values), Len(recent) <= BufferSize, NEW val \in Values
  PROVE  /\ Remembers(val) => recent' = Slid(val)
         /\ Slid(val) \in Seq(Values) /\ Len(Slid(val)) <= BufferSize
         /\ Len(recent) < BufferSize =>
              /\ Len(Slid(val)) = Len(recent) + 1 /\ Slid(val)[Len(recent) + 1] = val
              /\ \A k \in 1..Len(recent) : Slid(val)[k] = recent[k]
              /\ Total(Slid(val)) = Total(recent) + val
         /\ Len(recent) = BufferSize =>
              /\ Len(Slid(val)) = BufferSize /\ Slid(val)[BufferSize] = val
              /\ \A k \in 1..BufferSize - 1 : Slid(val)[k] = recent[k + 1]
              /\ Total(Slid(val)) = Total(recent) - recent[1] + val
  <1> DEFINE all == Append(recent, val)
  <1> USE FilterParameters
  <1>1. /\ all \in Seq(Values) /\ all \in Seq(Int) /\ recent \in Seq(Int) /\ val \in Int
        /\ Len(all) = Len(recent) + 1 /\ all[Len(recent) + 1] = val /\ all # <<>>
        /\ \A k \in 1..Len(recent) : all[k] = recent[k]
        /\ Len(recent) \in Nat
    <2>1. val \in Int /\ recent \in Seq(Int)
      BY SeqMonotonic
    <2>2. all \in Seq(Values) /\ all \in Seq(Int) /\ Len(all) = Len(recent) + 1
      BY <2>1
    <2>3. /\ all[Len(recent) + 1] = val /\ \A k \in 1..Len(recent) : all[k] = recent[k]
      OBVIOUS
    <2>4. all # <<>> /\ Len(recent) \in Nat
      BY <2>2
    <2>5. QED
      BY <2>1, <2>2, <2>3, <2>4
  <1>2. Total(all) = Total(recent) + val /\ Total(Tail(all)) = Total(all) - all[1]
    BY <1>1, TotalOfAppend, TotalOfTail
  <1>3. Remembers(val) => recent' = Slid(val)
    BY <1>1 DEF Remembers, Slid
  <1> HIDE DEF all
  <1>4. Tail(all) \in Seq(Values) /\ Len(Tail(all)) = Len(recent)
        /\ \A k \in 1..Len(recent) : Tail(all)[k] = all[k + 1]
    BY <1>1
  <1>5. CASE Len(recent) < BufferSize
    <2>1. Slid(val) = all
      BY <1>5 DEF Slid, all
    <2>2. QED
      BY <1>1, <1>2, <1>3, <1>5, <2>1
  <1>6. CASE Len(recent) = BufferSize
    <2>1. Slid(val) = Tail(all)
      BY <1>6 DEF Slid, all
    <2>2. all[1] = recent[1] /\ recent[1] \in Int /\ Total(recent) \in Int
      BY <1>1, <1>6, TotalType
    <2>3. Total(Tail(all)) = Total(recent) - recent[1] + val
      BY <1>1, <1>2, <2>2
    <2>4. Slid(val)[BufferSize] = val /\ \A k \in 1..BufferSize - 1 : Slid(val)[k] = recent[k + 1]
      BY <1>1, <1>4, <1>6, <2>1
    <2>5. QED
      BY <1>1, <1>3, <1>4, <1>6, <2>1, <2>3, <2>4
  <1>7. QED
    BY <1>1, <1>5, <1>6

\* A Fill takes out of the sum and of the ring the value it forgets.
LEMMA FillKeepsRing ==
  ASSUME FilterInv, Ring, size = BufferSize, NEW val \in Values, FilterFill(val)
  PROVE  Ring'
  <1> DEFINE n == Len(recent)
             to == Slid(val)
  <1> USE FilterParameters
  <1>1. /\ recent \in Seq(Values) /\ n \in Nat /\ n <= BufferSize /\ index \in Slots
        /\ buffer \in [Slots -> Values \cup {0}] /\ bufSum \in Int /\ val \in Int
        /\ Total(recent) \in Int
    BY TotalType DEF FilterInv, FilterTypeOK, Ring
  <1>2. /\ bufSum' = bufSum - buffer[index] + val
        /\ buffer' = [buffer EXCEPT ![index] = val]
        /\ index' = IF index + 1 >= BufferSize THEN 0 ELSE index + 1
        /\ filled' = IF filled < BufferSize THEN filled + 1 ELSE filled
        /\ recent' = to
    BY <1>1, SlidFacts DEF FilterFill
  <1>3. \A s \in Slots : buffer'[s] = IF s = index THEN val ELSE buffer[s]
    BY <1>1, <1>2
  <1>4. /\ filled = n /\ bufSum = Total(recent)
        /\ n < BufferSize => index = n /\ \A s \in Slots : s >= n => buffer[s] = 0
        /\ \A k \in 1..n : buffer[Place(k)] = recent[k]
    BY DEF Ring
  <1>5. CASE n < BufferSize
    <2>1. /\ Len(to) = n + 1 /\ to[n + 1] = val /\ \A k \in 1..n : to[k] = recent[k]
          /\ Total(to) = Total(recent) + val
      BY <1>1, <1>5, SlidFacts
    <2>2. index = n /\ buffer[index] = 0 /\ \A s \in Slots : s >= n => buffer[s] = 0
      BY <1>1, <1>4, <1>5 DEF Slots
    <2> HIDE DEF to, n
    <2>3. filled' = Len(recent') /\ bufSum' = Total(recent')
      BY <1>1, <1>2, <1>4, <1>5, <2>1, <2>2
    <2>4. n + 1 < BufferSize =>
            index' = n + 1 /\ \A s \in Slots : s >= n + 1 => buffer'[s] = 0
      BY <1>1, <1>2, <1>3, <2>2 DEF Slots
    <2>5. n + 1 = BufferSize => index' = 0
      BY <1>2, <2>2
    <2>6. ASSUME NEW k \in 1..n + 1 PROVE Place(k)' = k - 1 /\ buffer'[k - 1] = to[k]
      <3>1. Place(k)' = k - 1
        BY <1>1, <1>2, <1>5, <2>1, <2>4, <2>5 DEF Place
      <3>2. k - 1 \in Slots
        BY <1>1, <1>5 DEF Slots
      <3>3. k \in 1..n => buffer[k - 1] = recent[k]
        BY <1>4, <1>5 DEF Place, n
      <3>4. QED
        BY <1>1, <1>3, <2>1, <2>2, <3>1, <3>2, <3>3
    <2>7. QED
      BY <1>2, <2>1, <2>3, <2>4, <2>6 DEF Ring
  <1>6. CASE n = BufferSize
    <2>1. /\ Len(to) = BufferSize /\ to[BufferSize] = val
          /\ \A k \in 1..BufferSize - 1 : to[k] = recent[k + 1]
          /\ Total(to) = Total(recent) - recent[1] + val
      BY <1>1, <1>6, SlidFacts
    <2>2. buffer[index] = recent[1] /\ recent[1] \in Int
      <3>1. Place(1) = index
        BY <1>1, <1>6 DEF Place, Slots
      <3>2. 1 \in 1..n /\ recent[1] \in Values
        BY <1>1, <1>6
      <3>3. QED
        BY <1>4, <3>1, <3>2
    <2> HIDE DEF to
    <2>3. filled' = Len(recent') /\ bufSum' = Total(recent')
      BY <1>1, <1>2, <1>4, <1>6, <2>1, <2>2
    <2>4. ASSUME NEW k \in 1..BufferSize PROVE buffer'[Place(k)'] = to[k]
      <3>1. Place(k)' = IF index' + k - 1 < BufferSize THEN index' + k - 1
                        ELSE index' + k - 1 - BufferSize
        BY <1>2, <2>1 DEF Place
      <3>2. CASE k = BufferSize
        <4>1. Place(k)' = index
          BY <1>1, <1>2, <3>1, <3>2 DEF Slots
        <4>2. QED
          BY <1>1, <1>3, <2>1, <3>2, <4>1
      <3>3. CASE k # BufferSize
        <4>1. Place(k + 1) = IF index + k < BufferSize THEN index + k ELSE index + k - BufferSize
          BY <1>1, <1>6 DEF Place, Slots
        <4>2. Place(k)' = Place(k + 1) /\ Place(k + 1) # index /\ Place(k + 1) \in Slots
          BY <1>1, <1>2, <3>1, <3>3, <4>1 DEF Slots
        <4>3. k \in 1..BufferSize - 1 /\ k + 1 \in 1..n
          BY <1>6, <3>3
        <4>4. QED
          BY <1>3, <1>4, <2>1, <4>2, <4>3
      <3>4. QED
        BY <3>2, <3>3
    <2>5. QED
      BY <1>2, <2>1, <2>3, <2>4 DEF Ring
  <1>7. QED
    BY <1>1, <1>5, <1>6

\* A Fill counts one value more, or replaces the first, and is noted.
LEMMA FilterFills ==
  ASSUME FilterInv, ~late, NEW val \in Values, FilterFill(val) PROVE FilterInv'
  <1> USE FilterParameters
  <1>1. FilterTypeOK /\ recent \in Seq(Values) /\ InitProgress /\ CalcProgress
    BY DEF FilterInv
  <1>2. /\ ~null /\ bufSum' = bufSum - buffer[index] + val
        /\ buffer' = [buffer EXCEPT ![index] = val]
        /\ index' = IF index + 1 >= size THEN 0 ELSE index + 1
        /\ filled' = IF filled < size THEN filled + 1 ELSE filled
        /\ Remembers(val)
        /\ UNCHANGED <<size, null, initAt, slot, calcAt, num, sumDen>>
    BY DEF FilterFill, initVars, calcVars
  <1>3. /\ recent' = Slid(val) /\ recent' \in Seq(Values) /\ Len(recent') <= BufferSize
        /\ Len(recent) \in Nat
        /\ Len(recent) < BufferSize => Len(recent') = Len(recent) + 1
        /\ Len(recent) = BufferSize => Len(recent') = Len(recent)
    BY <1>1, <1>2, SlidFacts DEF FilterTypeOK
  <1>4. /\ tornInit' \in BOOLEAN /\ late' \in BOOLEAN /\ null' \in BOOLEAN
        /\ (null' <=> initAt' = "buffer")
        /\ initAt # "elsewhere" => tornInit' /\ (initAt = "elsewhere" => tornInit' = tornInit)
        /\ calcAt # "idle" => late'
    BY <1>1, <1>2, Zenon DEF Remembers, FilterTypeOK, InitProgress
  <1>5. /\ buffer \in [Slots -> Values \cup {0}] /\ size \in {0, BufferSize}
        /\ index \in Slots /\ filled \in 0..BufferSize /\ bufSum \in Int /\ val \in Int
        /\ filled <= size /\ Len(recent) <= BufferSize
    BY <1>1 DEF FilterTypeOK, InitProgress
  <1>6. FilterTypeOK'
    <2>1. buffer' \in [Slots -> Values \cup {0}]
      BY <1>2, <1>5
    <2>2. index' \in Slots /\ filled' \in 0..BufferSize
      BY <1>2, <1>5 DEF Slots
    <2>3. bufSum' \in Int
      <3>1. buffer[index] \in Values \cup {0}
        BY <1>5
      <3>2. \A v \in Values \cup {0} : v \in Int
        OBVIOUS
      <3>3. buffer[index] \in Int
        BY <3>1, <3>2, Zenon
      <3>4. QED
        BY <1>2, <1>5, <3>3
    <2>4. size' \in {0, BufferSize} /\ initAt' \in {"elsewhere", "buffer", "size", "zero"}
          /\ slot' \in 0..BufferSize /\ calcAt' \in {"idle", "sum", "divide"}
          /\ num' \in Int /\ sumDen' \in 0..BufferSize
      BY <1>1, <1>2 DEF FilterTypeOK
    <2>5. QED
      BY <1>3, <1>4, <2>1, <2>2, <2>3, <2>4 DEF FilterTypeOK
  <1>7. InitProgress'
    <2>1. filled' <= size'
      BY <1>2, <1>5
    <2>2. QED
      BY <1>1, <1>2, <1>4, <2>1 DEF InitProgress
  <1>8. initAt' = "elsewhere" /\ ~tornInit' => initAt = "elsewhere" /\ ~tornInit
    BY <1>2, Zenon DEF Remembers
  <1>9. initAt' = "elsewhere" /\ ~tornInit' => Ring'
    BY <1>1, <1>8, FillKeepsRing DEF FilterInv, InitProgress
  <1>10. CalcProgress'
    <2> SUFFICES ASSUME calcAt' # "idle" PROVE CalcProgress'
      BY DEF CalcProgress
    <2>1. late' /\ calcAt # "idle" /\ sumDen' # 0
      BY <1>1, <1>2, <1>4 DEF CalcProgress
    <2>2. ASSUME initAt' = "elsewhere", ~tornInit'
          PROVE  sumDen' \in {Len(recent'), Len(recent') - 1}
      <3>1. sumDen = Len(recent)
        BY <1>1, <1>8, <2>1, <2>2 DEF CalcProgress
      <3>2. QED
        BY <1>2, <1>3, <1>5, <3>1
    <2>3. QED
      BY <2>1, <2>2 DEF CalcProgress
  <1>11. QED
    BY <1>3, <1>6, <1>7, <1>9, <1>10 DEF FilterInv

\* A Fill without a buffer falls into the initialisation, and is noted.
LEMMA FilterFillsNull ==
  ASSUME FilterInv, NEW val \in Values, FillNull(val) PROVE FilterInv'
  <1> USE FilterParameters
  <1>1. FilterTypeOK /\ recent \in Seq(Values) /\ InitProgress /\ CalcProgress
    BY DEF FilterInv
  <1>2. /\ null /\ Remembers(val) /\ bufSum' \in {0, val}
        /\ UNCHANGED <<buffer, size, index, filled, null, initAt, slot, calcAt, num, sumDen>>
    BY DEF FillNull, initVars, calcVars
  <1>3. recent' \in Seq(Values) /\ Len(recent') <= BufferSize
    BY <1>1, <1>2, SlidFacts DEF FilterTypeOK
  <1>4. /\ tornInit' \in BOOLEAN /\ late' \in BOOLEAN /\ null' \in BOOLEAN
        /\ (null' <=> initAt' = "buffer") /\ tornInit' /\ initAt' # "elsewhere"
    BY <1>1, <1>2, Zenon DEF Remembers, FilterTypeOK, InitProgress
  <1>5. FilterTypeOK'
    BY <1>1, <1>2, <1>3, <1>4 DEF FilterTypeOK
  <1>6. InitProgress' /\ CalcProgress'
    BY <1>1, <1>2, <1>4 DEF InitProgress, CalcProgress
  <1>7. QED
    BY <1>3, <1>4, <1>5, <1>6 DEF FilterInv

\* A Calc loads the number of recent values, then their sum.
LEMMA FilterCalcs == ASSUME FilterInv, FilterCalc PROVE FilterInv'
  <1>1. FilterTypeOK /\ recent \in Seq(Values) /\ InitProgress /\ CalcProgress
        /\ (initAt = "elsewhere" /\ ~tornInit => Ring)
    BY DEF FilterInv
  <1>2. /\ UNCHANGED <<buffer, size, index, filled, bufSum, null, initAt, slot, recent, tornInit>>
        /\ late' \in {late, FALSE}
    BY DEF FilterCalc, CalcLoads, CalcSums, CalcReturns, ringVars, initVars
  <1>3. InitProgress' /\ (initAt' = "elsewhere" /\ ~tornInit' => Ring')
    BY <1>1, <1>2 DEF InitProgress, Ring, Place
  <1>4. late' \in BOOLEAN
    BY <1>1, <1>2, Zenon DEF FilterTypeOK
  <1>5. FilterTypeOK' /\ CalcProgress'
    <2>1. CASE CalcLoads
      <3>1. calcAt' = "sum" /\ num' = num /\ sumDen' = filled /\ filled # 0
        BY <1>1, <2>1, FilterParameters DEF CalcLoads, InitProgress, FilterTypeOK
      <3>2. FilterTypeOK'
        BY <1>1, <1>2, <1>4, <3>1 DEF FilterTypeOK
      <3>3. QED
        BY <1>1, <1>2, <3>1, <3>2 DEF CalcProgress, Ring
    <2>2. CASE CalcSums
      <3>1. calcAt = "sum" /\ calcAt' = "divide" /\ num' = bufSum /\ sumDen' = sumDen /\ late' = late
        BY <2>2 DEF CalcSums
      <3>2. FilterTypeOK'
        BY <1>1, <1>2, <1>4, <3>1 DEF FilterTypeOK
      <3>3. QED
        BY <1>1, <1>2, <3>1, <3>2 DEF CalcProgress, Ring
    <2>3. CASE CalcReturns
      <3>1. calcAt' = "idle" /\ num' = 0 /\ sumDen' = 0
        BY <2>3 DEF CalcReturns
      <3>2. QED
        BY <1>1, <1>2, <1>4, <3>1, FilterParameters DEF FilterTypeOK, CalcProgress
    <2>4. QED
      BY <2>1, <2>2, <2>3 DEF FilterCalc
  <1>6. QED
    BY <1>1, <1>2, <1>3, <1>5 DEF FilterInv

\* Main zeroes one slot after the other, and nothing was filled meanwhile.
LEMMA FilterMain == ASSUME FilterInv, MainInit PROVE FilterInv'
  <1> USE FilterParameters
  <1>1. FilterTypeOK /\ recent \in Seq(Values) /\ InitProgress
    BY DEF FilterInv
  <1>2. calcAt' = "idle" /\ UNCHANGED <<num, sumDen, late>>
    BY DEF MainInit, InitClears, InitSetsBuffer, InitSetsSize, InitZeroes, calcVars
  <1>3. CalcProgress'
    BY <1>2 DEF CalcProgress
  <1>4. CASE InitClears
    <2>1. /\ size' = 0 /\ index' = 0 /\ filled' = 0 /\ bufSum' = 0 /\ null' = TRUE
          /\ initAt' = "buffer" /\ recent' = <<>> /\ tornInit' = FALSE
          /\ UNCHANGED <<buffer, slot>>
      BY <1>4 DEF InitClears
    <2>2. null' \in BOOLEAN /\ tornInit' \in BOOLEAN /\ (null' <=> initAt' = "buffer")
      BY <2>1, Zenon
    <2>3. recent' \in Seq(Values) /\ Len(recent') = 0
      BY <2>1
    <2>4. FilterTypeOK'
      BY <1>1, <1>2, <2>1, <2>2, <2>3 DEF FilterTypeOK, Slots
    <2>5. InitProgress'
      BY <1>1, <2>1, <2>2 DEF FilterTypeOK, InitProgress
    <2>6. QED
      BY <1>3, <2>1, <2>3, <2>4, <2>5 DEF FilterInv
  <1>5. CASE InitSetsBuffer
    <2>1. /\ initAt = "buffer" /\ null' = FALSE /\ initAt' = "size"
          /\ UNCHANGED <<buffer, size, index, filled, bufSum, slot, recent, tornInit>>
      BY <1>5 DEF InitSetsBuffer
    <2>2. null' \in BOOLEAN /\ (null' <=> initAt' = "buffer")
      BY <2>1, Zenon
    <2>3. FilterTypeOK'
      BY <1>1, <1>2, <2>1, <2>2 DEF FilterTypeOK
    <2>4. InitProgress'
      BY <1>1, <2>1, <2>2 DEF InitProgress
    <2>5. QED
      BY <1>1, <1>3, <2>1, <2>3, <2>4 DEF FilterInv
  <1>6. CASE InitSetsSize
    <2>1. /\ initAt = "size" /\ size' = BufferSize /\ slot' = 0 /\ initAt' = "zero"
          /\ UNCHANGED <<buffer, index, filled, bufSum, null, recent, tornInit>>
      BY <1>6 DEF InitSetsSize
    <2>2. null' <=> initAt' = "buffer"
      BY <1>1, <2>1, Zenon DEF InitProgress
    <2>3. FilterTypeOK'
      BY <1>1, <1>2, <2>1 DEF FilterTypeOK
    <2>4. filled' <= size' /\ slot' <= BufferSize /\ \A s \in Slots : ~(s < slot')
      BY <1>1, <2>1 DEF FilterTypeOK, Slots
    <2>5. InitProgress'
      BY <1>1, <2>1, <2>2, <2>4 DEF InitProgress
    <2>6. QED
      BY <1>1, <1>3, <2>1, <2>3, <2>5 DEF FilterInv
  <1>7. CASE InitZeroes
    <2>1. /\ initAt = "zero" /\ size = BufferSize
          /\ IF slot < size
             THEN buffer' = [buffer EXCEPT ![slot] = 0] /\ slot' = slot + 1 /\ initAt' = initAt
             ELSE buffer' = buffer /\ slot' = 0 /\ initAt' = "elsewhere"
          /\ UNCHANGED <<size, index, filled, bufSum, null, recent, tornInit>>
      BY <1>1, <1>7 DEF InitZeroes, InitProgress
    <2>2. /\ buffer \in [Slots -> Values \cup {0}] /\ slot \in 0..BufferSize
          /\ filled \in 0..BufferSize
      BY <1>1 DEF FilterTypeOK
    <2>3. initAt' \in {"zero", "elsewhere"} /\ (null' <=> initAt' = "buffer")
      BY <1>1, <2>1, Zenon DEF InitProgress
    <2>4. CASE slot < BufferSize
      <3>1. buffer' = [buffer EXCEPT ![slot] = 0] /\ slot' = slot + 1 /\ initAt' = "zero"
        BY <2>1, <2>4
      <3>2. slot \in Slots
        BY <2>2, <2>4 DEF Slots
      <3>3. /\ buffer' \in [Slots -> Values \cup {0}] /\ slot' \in 0..BufferSize
            /\ \A s \in Slots : buffer'[s] = IF s = slot THEN 0 ELSE buffer[s]
        BY <2>2, <2>4, <3>1, <3>2
      <3>4. FilterTypeOK'
        BY <1>1, <1>2, <2>1, <3>1, <3>3 DEF FilterTypeOK
      <3>5. ~tornInit => \A s \in Slots : s < slot' => buffer'[s] = 0
        BY <1>1, <2>1, <2>2, <3>1, <3>3 DEF InitProgress, Slots
      <3>6. InitProgress'
        BY <1>1, <2>1, <2>3, <3>1, <3>3, <3>5 DEF InitProgress
      <3>7. QED
        BY <1>1, <1>3, <2>1, <3>1, <3>4, <3>6 DEF FilterInv
    <2>5. CASE ~(slot < BufferSize)
      <3>1. buffer' = buffer /\ slot' = 0 /\ initAt' = "elsewhere"
        BY <2>1, <2>5
      <3>2. FilterTypeOK'
        BY <1>1, <1>2, <2>1, <3>1 DEF FilterTypeOK
      <3>3. InitProgress'
        BY <1>1, <2>1, <2>3, <3>1 DEF InitProgress
      <3>4. ASSUME ~tornInit PROVE Ring'
        <4>1. recent' = <<>> /\ bufSum' = 0 /\ filled' = 0 /\ index' = 0 /\ Len(recent') = 0
          BY <1>1, <2>1, <3>4 DEF InitProgress
        <4>2. \A s \in Slots : buffer'[s] = 0
          BY <1>1, <2>1, <2>2, <2>5, <3>1, <3>4 DEF InitProgress, Slots
        <4>3. QED
          BY <4>1, <4>2, TotalOfNone DEF Ring
      <3>5. QED
        BY <1>1, <1>3, <2>1, <3>2, <3>3, <3>4 DEF FilterInv
    <2>6. QED
      BY <2>4, <2>5
  <1>8. QED
    BY <1>4, <1>5, <1>6, <1>7 DEF MainInit

LEMMA FilterStep == FilterInv /\ [FilterNext]_filterVars => FilterInv'
  <1> SUFFICES ASSUME FilterInv, [FilterNext]_filterVars PROVE FilterInv'
    OBVIOUS
  <1>1. CASE AdcFills
    BY <1>1, FilterFills, FilterFillsNull DEF AdcFills
  <1>2. CASE FilterCalc \/ MainInit
    BY <1>2, FilterCalcs, FilterMain
  <1>3. CASE UNCHANGED filterVars
    BY <1>3 DEF FilterInv, FilterTypeOK, InitProgress, CalcProgress, Ring, Place, filterVars,
       ringVars, initVars, calcVars
  <1>4. QED
    BY <1>1, <1>2, <1>3 DEF FilterNext

LEMMA FilterInvariant == FilterSpec => []FilterInv
  BY FilterInitially, FilterStep, PTL DEF FilterSpec

\* The write index and the number of values stay within the ring.
THEOREM FilterTypeCorrect == FilterSpec => []FilterTypeOK
  BY FilterInvariant, PTL DEF FilterInv

\* MoveFilter_Calc never divides by 0, not even inside an initialisation that a
\* Fill has torn.  For every size and all speeds.
THEOREM NeverDividesByZero == FilterSpec => [](calcAt = "divide" => sumDen # 0)
  <1>1. FilterInv => (calcAt = "divide" => sumDen # 0)
    BY DEF FilterInv, CalcProgress
  <1>2. QED
    BY <1>1, FilterInvariant, PTL

\* The running sum is the sum of the recent values and the average is taken
\* over their number, over any number of turns of the ring and whatever the
\* buffer held before.
THEOREM AverageOfRecent == FilterSpec => []AverageIsOfRecentValues
  <1>1. FilterInv => AverageIsOfRecentValues
    BY DEF FilterInv, Ring, CalcProgress, AverageIsOfRecentValues, SumIsOfRecentValues,
       AverageOfRecentValues
  <1>2. QED
    BY <1>1, FilterInvariant, PTL

=============================================================================
