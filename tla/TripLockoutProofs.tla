-------------------------- MODULE TripLockoutProofs --------------------------
(***************************************************************************)
(* Proofs about TripLockout, for every over-current setting, every list of *)
(* bus-voltage checks, every observer and, for the lockout, every host     *)
(* that does not calibrate.                                                *)
(***************************************************************************)
EXTENDS TripLockout, MotorDriveProofs

\* Main has cleared the command of the trip, and has stored IDLE after it.
CommandCleared ==
    \/ trip = "locked" /\ passes = 2
    \/ trip = "locked" /\ passes = 1 /\ mpc \in {"forceIdle", "check"}
    \/ trip = "released"
IdleStored ==
    \/ trip = "locked" /\ passes = 2
    \/ trip = "locked" /\ passes = 1 /\ mpc = "check"
    \/ trip = "released"

\* Why the bridge stays off: from its first poll after the trip on main is in
\* the branch for a fault, so that once it has stored IDLE nobody is on the way
\* to DRV_RUN when the bit goes.
Lockout ==
    /\ trip \in {"locked", "released"} => ~pwmOn
    /\ trip = "locked" /\ passes >= 1 => mpc \in {"check", "clear", "forceIdle"}
    /\ CommandCleared => preCmd = 0 /\ (sent \/ cmdRpm = 0)
    /\ IdleStored => status # "DRV_RUN"
    /\ trip = "released" => ~sent /\ mpc \in {"check", "clear", "forceIdle", "load", "act"}

\* Why the release is late: a trip holds its bit, and what is left of the count
\* and the calm samples make up the time.
Counting ==
    trip = "locked" => /\ "OC_PEAK" \in fault
                       /\ ocpCnt >= 1 /\ ocpCnt + calm >= ErrClrTime
-----------------------------------------------------------------------------
\* The counter only decides what MotorDrive leaves open: every step is one of
\* its steps, so that what holds of MotorDrive holds here.
THEOREM IsDrive == LockSpec => Spec
<1>1. LockInit => Init
  BY DEF LockInit
<1>2. [LockNext]_allVars => [Next]_vars
  <2>1. LockNext => Next
    BY DEF LockNext, LockSample, LockOtherIsr, LockTmr3, LockHost, LockMain, Next, AdcIsr
  <2>2. UNCHANGED allVars => UNCHANGED vars
    BY DEF allVars
  <2> QED
    BY <2>1, <2>2
<1> QED
  BY <1>1, <1>2, PTL DEF LockSpec, Spec

\* What a counted sample does to the counter and the histories.
LEMMA CountsKeepsType ==
    ASSUME LockTypeOK, CountsOver \/ CountsCalm
    PROVE  LockTypeOK'
<1>1. PeakOcpTime \in Nat /\ PeakOcpTime >= 1 /\ ErrClrTime \in Nat /\ ErrClrTime >= PeakOcpTime
  BY LockoutAssumption
<1>2. ocpCnt' \in Int /\ ocpCnt' <= ErrClrTime
  <2>1. CASE CountsOver
    BY <1>1, <2>1 DEF CountsOver, LockTypeOK
  <2>2. CASE CountsCalm
    BY <1>1, <2>2 DEF CountsCalm, LockTypeOK
  <2> QED
    BY <2>1, <2>2
<1>3. calm' \in 0 .. ErrClrTime
  <2>1. CASE CountsOver
    BY <1>1, <2>1 DEF CountsOver
  <2>2. CASE CountsCalm
    BY <1>1, <2>2 DEF CountsCalm, LockTypeOK
  <2> QED
    BY <2>1, <2>2
<1>4. /\ trip' \in {"none", "locked", "released", "erased"}
      /\ sent' \in BOOLEAN
  BY DEF CountsOver, CountsCalm, Released, LockTypeOK
<1>5. passes' \in 0..2
  BY DEF CountsOver, CountsCalm, LockTypeOK
<1> QED
  BY <1>2, <1>3, <1>4, <1>5 DEF LockTypeOK

LEMMA LockTypeStep == LockTypeOK /\ [LockNext]_allVars => LockTypeOK'
<1> SUFFICES ASSUME LockTypeOK, [LockNext]_allVars PROVE LockTypeOK'
  OBVIOUS
<1>1. CASE LockSample
  BY <1>1, CountsKeepsType DEF LockSample
<1>2. CASE LockOtherIsr \/ UNCHANGED allVars
  BY <1>2 DEF LockOtherIsr, allVars, lockVars, LockTypeOK
<1>3. CASE LockTmr3
  BY <1>3 DEF LockTmr3, LockTypeOK
<1>4. CASE LockHost
  <2>1. sent' \in BOOLEAN /\ trip' \in {trip, "none"} /\ UNCHANGED <<ocpCnt, calm, passes>>
    BY <1>4 DEF LockHost
  <2> QED
    BY <2>1 DEF LockTypeOK
<1>5. CASE LockMain
  <2>1. sent' \in BOOLEAN /\ UNCHANGED <<ocpCnt, calm, trip>>
    BY <1>5 DEF LockMain
  <2>2. passes' \in 0..2
    BY <1>5 DEF LockMain, LockTypeOK
  <2> QED
    BY <2>1, <2>2 DEF LockTypeOK
<1> QED
  BY <1>1, <1>2, <1>3, <1>4, <1>5 DEF LockNext

\* The counter stays at or below the time it is loaded with.
THEOREM LockTypeCorrect == LockSpec => []LockTypeOK
<1>1. LockInit => LockTypeOK
  <2> SUFFICES ASSUME LockInit PROVE LockTypeOK
    OBVIOUS
  <2>1. ErrClrTime \in Nat
    BY LockoutAssumption
  <2>2. ocpCnt \in Int /\ ocpCnt <= ErrClrTime /\ calm \in 0 .. ErrClrTime /\ passes \in 0..2
    BY <2>1 DEF LockInit
  <2>3. trip \in {"none", "locked", "released", "erased"} /\ sent \in BOOLEAN
    BY DEF LockInit
  <2> QED
    BY <2>2, <2>3 DEF LockTypeOK
<1> QED
  BY <1>1, LockTypeStep, PTL DEF LockSpec

-----------------------------------------------------------------------------
(***************************************************************************)
(* The release                                                             *)
(***************************************************************************)

LEMMA CountingOver ==
    ASSUME LockTypeOK, Counting, CountsOver
    PROVE  Counting'
<1>1. ErrClrTime \in Nat /\ ErrClrTime >= 1
  BY LockoutAssumption
<1> SUFFICES ASSUME trip' = "locked" PROVE Counting'
  BY DEF Counting
<1>2. "OC_PEAK" \in fault' /\ ocpCnt' = ErrClrTime /\ calm' = 0
  BY DEF CountsOver, Counting
<1>3. ocpCnt' >= 1 /\ ocpCnt' + calm' >= ErrClrTime
  BY <1>1, <1>2
<1> QED
  BY <1>2, <1>3 DEF Counting

\* The step that releases a trip is the last of the calm samples; a step that
\* does not keeps the sum.
LEMMA CountingCalm ==
    ASSUME LockTypeOK, Counting, CountsCalm, trip = "locked"
    PROVE  /\ Counting'
           /\ trip' # "locked" => calm' = ErrClrTime
<1>1. /\ ErrClrTime \in Nat /\ ocpCnt \in Int /\ calm \in Int /\ calm <= ErrClrTime
      /\ ocpCnt >= 1 /\ ocpCnt + calm >= ErrClrTime
  BY LockoutAssumption DEF LockTypeOK, Counting
<1>2. /\ "OC_PEAK" \in fault /\ ocpCnt' = ocpCnt - 1
      /\ calm' = IF calm = ErrClrTime THEN calm ELSE calm + 1
  BY DEF Counting, CountsCalm
<1>3. CASE ocpCnt - 1 <= 0
  <2>1. trip' # "locked"
    BY <1>2, <1>3 DEF CountsCalm, Released
  <2>2. calm' = ErrClrTime
    BY <1>1, <1>2, <1>3
  <2> QED
    BY <2>1, <2>2 DEF Counting
<1>4. CASE ~(ocpCnt - 1 <= 0)
  <2>1. trip' = "locked" /\ "OC_PEAK" \in fault'
    BY <1>2, <1>4 DEF CountsCalm
  <2>2. ocpCnt' >= 1 /\ ocpCnt' + calm' >= ErrClrTime
    BY <1>1, <1>2, <1>4
  <2> QED
    BY <2>1, <2>2 DEF Counting
<1> QED
  BY <1>3, <1>4

\* Only a sample, or a store by TMR3 that erases the bit, ends a trip.
LEMMA OthersKeepTrip ==
    ASSUME Counting, LockOtherIsr \/ LockTmr3 \/ LockHost \/ LockMain \/ UNCHANGED allVars
    PROVE  /\ Counting'
           /\ trip = "locked" => trip' \in {"locked", "erased"}
<1>1. UNCHANGED <<ocpCnt, calm>>
  BY DEF LockOtherIsr, LockTmr3, LockHost, LockMain, allVars, lockVars
<1>2. trip = "locked" => trip' \in {"locked", "erased"}
  BY DEF LockOtherIsr, LockTmr3, LockHost, LockMain, allVars, lockVars
<1>3. trip' = "locked" => trip = "locked"
  BY DEF LockOtherIsr, LockTmr3, LockHost, LockMain, allVars, lockVars
<1>4. trip' = "locked" /\ "OC_PEAK" \in fault => "OC_PEAK" \in fault'
  <2>1. CASE LockTmr3
    BY <1>3, <2>1 DEF LockTmr3
  <2>2. CASE LockOtherIsr
    BY <2>2 DEF LockOtherIsr, AdcOffset, AdcSpurious
  <2>3. CASE LockHost
    BY <2>3 DEF LockHost, Host, HostSetsSpeed, HostReverses, HostCalibration
  <2>4. CASE LockMain
    <3>1. fault' = fault
      BY <2>4 DEF LockMain, Main, MainCheckFault, MainClearCommand, MainForceIdle,
         MainNoCommand, MainLoadCommand, MainWriteBack, MainAct, MainBrake, MainStop,
         MainInitFlags, MainInitCalib, MainInitSeq, MainSetDir, MainRun, notMainVars
    <3> QED
      BY <3>1
  <2>5. CASE UNCHANGED allVars
    BY <2>5 DEF allVars, vars
  <2> QED
    BY <2>1, <2>2, <2>3, <2>4, <2>5
<1> QED
  BY <1>1, <1>2, <1>3, <1>4 DEF Counting

LEMMA CountingStep ==
    ASSUME LockTypeOK, Counting, [LockNext]_allVars
    PROVE  /\ Counting'
           /\ trip = "locked" /\ trip' \in {"released", "none"} => calm' = ErrClrTime
<1>1. CASE LockSample /\ CountsOver
  <2>1. trip = "locked" => trip' = "locked"
    BY <1>1 DEF CountsOver
  <2> QED
    BY <1>1, <2>1, CountingOver
<1>2. CASE LockSample /\ CountsCalm
  <2>1. CASE trip = "locked"
    BY <1>2, <2>1, CountingCalm
  <2>2. CASE trip # "locked"
    <3>1. trip' # "locked"
      BY <1>2, <2>2 DEF CountsCalm
    <3> QED
      BY <2>2, <3>1 DEF Counting
  <2> QED
    BY <2>1, <2>2
<1>3. CASE LockOtherIsr \/ LockTmr3 \/ LockHost \/ LockMain \/ UNCHANGED allVars
  BY <1>3, OthersKeepTrip
<1> QED
  BY <1>1, <1>2, <1>3 DEF LockNext, LockSample

\* A trip is released only after i32ErrClrTime calm samples in a row.
THEOREM CalmBeforeRelease == LockSpec => ReleasedAfterCalm
<1>1. LockInit => Counting
  BY DEF LockInit, Counting
<1>2. LockTypeOK /\ Counting /\ [LockNext]_allVars => Counting'
  BY CountingStep
<1>3. LockTypeOK /\ Counting /\ [LockNext]_allVars
      => [trip = "locked" /\ trip' \in {"released", "none"} => calm' = ErrClrTime]_allVars
  BY CountingStep
<1> QED
  BY <1>1, <1>2, <1>3, LockTypeCorrect, PTL DEF LockSpec, ReleasedAfterCalm
-----------------------------------------------------------------------------
(***************************************************************************)
(* The lockout.  One lemma for each context.                               *)
(***************************************************************************)

Facts == TypeOK /\ LockTypeOK /\ Counting /\ Lockout

\* A conversion that leaves a fault stops the bridge and never sets DRV_RUN;
\* none but a run turns it on.
LEMMA SampleEffect ==
    ASSUME LockSample
    PROVE  /\ fault' # {} => ~pwmOn'
           /\ status # "DRV_RUN" /\ ~pwmOn => ~pwmOn'
           /\ status' = "DRV_RUN" => status = "DRV_RUN"
           /\ UNCHANGED <<mpc, preCmd, cmdRpm, sent>>
<1>1. CASE AdcTrip
  BY <1>1 DEF AdcTrip, AdcBegin, FastStop, notAdcVars, cmdVars, mainVars,
     LockSample, CountsOver, CountsCalm
<1>2. CASE AdcIdle
  BY <1>2 DEF AdcIdle, AdcBegin, FastStop, notAdcVars, cmdVars, mainVars,
     LockSample, CountsOver, CountsCalm
<1>3. CASE AdcCalibrate
  BY <1>3 DEF AdcCalibrate, AdcBegin, CalibrationLoop, CalibrationDone, notAdcVars,
     cmdVars, mainVars, LockSample, CountsOver, CountsCalm
<1>4. CASE AdcRun
  BY <1>4 DEF AdcRun, AdcBegin, notAdcVars, cmdVars, mainVars,
     LockSample, CountsOver, CountsCalm
<1>5. CASE AdcStop
  BY <1>5 DEF AdcStop, StopControl, FastStop, AdcBegin, notAdcVars, cmdVars, mainVars,
     LockSample, CountsOver, CountsCalm
<1> QED
  BY <1>1, <1>2, <1>3, <1>4, <1>5 DEF LockSample

LEMMA LockoutOver ==
    ASSUME Facts, LockSample, CountsOver
    PROVE  Lockout'
<1>1. \/ trip' = "locked" /\ passes' = 0
      \/ trip' = trip /\ passes' = passes
  BY DEF CountsOver
<1>2. trip' = "locked" => ~pwmOn'
  <2>1. trip' = "locked" => "OC_PEAK" \in fault'
    BY DEF CountsOver, Facts, Counting
  <2> QED
    BY <2>1, SampleEffect
<1>3. CASE trip' = "locked" /\ passes' = 0
  BY <1>2, <1>3 DEF Lockout, CommandCleared, IdleStored
<1>4. CASE trip' = trip /\ passes' = passes
  BY <1>2, <1>4, SampleEffect DEF Facts, Lockout, CommandCleared, IdleStored
<1> QED
  BY <1>1, <1>3, <1>4

LEMMA LockoutCalm ==
    ASSUME Facts, LockSample, CountsCalm
    PROVE  Lockout'
<1>1. passes' = passes
  BY DEF CountsCalm
<1>2. CASE trip = "locked" /\ trip' = "locked"
  <2>1. "OC_PEAK" \in fault'
    BY <1>2 DEF CountsCalm, Released, Facts, Counting
  <2>2. ~pwmOn'
    BY <2>1, SampleEffect
  <2> QED
    BY <1>1, <1>2, <2>2, SampleEffect DEF Facts, Lockout, CommandCleared, IdleStored
<1>3. CASE trip = "locked" /\ trip' # "locked"
  <2>1. passes = 2 /\ trip' = Released
    BY <1>3 DEF CountsCalm, Facts, Counting
  <2>2. /\ ~pwmOn /\ status # "DRV_RUN" /\ preCmd = 0 /\ (sent \/ cmdRpm = 0)
        /\ mpc \in {"check", "clear", "forceIdle"}
    BY <1>3, <2>1 DEF Facts, Lockout, CommandCleared, IdleStored
  <2>3. trip' = "released" => ~sent
    BY <2>1 DEF Released
  <2> QED
    BY <1>3, <2>1, <2>2, <2>3, SampleEffect
    DEF Lockout, CommandCleared, IdleStored, Released
<1>4. CASE trip # "locked"
  <2>1. trip' = trip
    BY <1>4 DEF CountsCalm
  <2> QED
    BY <1>4, <2>1, SampleEffect DEF Facts, Lockout, CommandCleared, IdleStored
<1> QED
  BY <1>2, <1>3, <1>4

LEMMA LockoutOtherIsr ==
    ASSUME Facts, LockOtherIsr
    PROVE  Lockout'
<1>1. /\ pwmOn' => pwmOn
      /\ status' = "DRV_RUN" => status = "DRV_RUN"
      /\ UNCHANGED <<mpc, preCmd, cmdRpm, sent, trip, passes>>
  BY DEF LockOtherIsr, AdcOffset, AdcSpurious, FastStop, bridgeVars, notAdcVars,
     cmdVars, mainVars, lockVars
<1> QED
  BY <1>1 DEF Facts, Lockout, CommandCleared, IdleStored

LEMMA LockoutTmr3 ==
    ASSUME Facts, LockTmr3
    PROVE  Lockout'
<1>1. /\ UNCHANGED <<pwmOn, mpc, preCmd, cmdRpm, sent, passes>>
      /\ status' \in {status, "DRV_STOP"}
  BY DEF LockTmr3, Tmr3, TmrTick, TmrCheckCounts, TmrCheckLoads, TmrCheckStores, TmrReturn,
     TmrRamp, TmrRampedDown, TmrStop, notTmrVars, bridgeVars, cmdVars, mainVars
<1>2. trip' = trip \/ trip' = "erased"
  BY DEF LockTmr3
<1> QED
  BY <1>1, <1>2 DEF Facts, Lockout, CommandCleared, IdleStored

LEMMA LockoutHost ==
    ASSUME Facts, LockHost, ~HostCalibrates
    PROVE  Lockout'
<1>1. /\ UNCHANGED <<pwmOn, status, mpc, preCmd, passes>>
  BY DEF LockHost, Host, HostSetsSpeed, HostReverses, HostCalibration, bridgeVars,
     mainVars
<1>2. (sent' \/ cmdRpm' = 0) /\ (sent => sent')
  BY DEF LockHost
<1>3. /\ trip' = trip \/ trip' = "none"
      /\ trip' = "released" => ~sent'
  BY DEF LockHost
<1> QED
  BY <1>1, <1>2, <1>3 DEF Facts, Lockout, CommandCleared, IdleStored

\* Main at its first poll after the trip finds the bit.
LEMMA LockoutMain ==
    ASSUME Facts, LockMain
    PROVE  Lockout'
<1>1. trip' = trip /\ pwmOn' = pwmOn
  BY DEF LockMain, Main, MainCheckFault, MainClearCommand, MainForceIdle,
     MainNoCommand, MainLoadCommand, MainWriteBack, MainAct, MainBrake, MainStop,
     MainInitFlags, MainInitCalib, MainInitSeq, MainSetDir, MainRun, notMainVars, bridgeVars
<1>2. CASE trip \notin {"locked", "released"}
  BY <1>1, <1>2 DEF Lockout, CommandCleared, IdleStored
<1>3. CASE MainCheckFault
  <2>1. /\ mpc = "check" /\ UNCHANGED <<status, cmdRpm, preCmd>> /\ (sent' <=> sent)
        /\ mpc' = IF fault # {} THEN "clear" ELSE "load"
    BY <1>3 DEF LockMain, MainCheckFault, MainClearCommand, MainAt, MainGoes, cmdVars
  <2>2. passes' = IF passes < 2 THEN passes + 1 ELSE passes
    BY <1>3 DEF LockMain
  <2>3. CASE trip = "locked"
    <3>1. mpc' = "clear"
      BY <2>1, <2>3 DEF Facts, Counting
    <3>2. passes' = 2 => passes \in {1, 2}
      BY <2>2 DEF Facts, LockTypeOK
    <3> QED
      BY <1>1, <2>1, <2>3, <3>1, <3>2 DEF Facts, Lockout, CommandCleared, IdleStored
  <2>4. CASE trip = "released"
    BY <1>1, <2>1, <2>4 DEF Facts, Lockout, CommandCleared, IdleStored
  <2> QED
    BY <1>2, <2>3, <2>4
<1>4. CASE MainClearCommand
  <2>1. /\ mpc = "clear" /\ mpc' = "forceIdle" /\ status' = status
        /\ cmdRpm' = 0 /\ preCmd' = 0 /\ ~sent' /\ passes' = passes
    BY <1>4 DEF LockMain, MainCheckFault, MainClearCommand, MainAt, MainGoes
  <2> QED
    BY <1>1, <2>1 DEF Facts, Lockout, CommandCleared, IdleStored
<1>5. CASE MainForceIdle
  <2>1. /\ mpc = "forceIdle" /\ mpc' = "check" /\ status' = "IDLE"
        /\ UNCHANGED <<cmdRpm, preCmd, passes>> /\ (sent' <=> sent)
    BY <1>5 DEF LockMain, MainCheckFault, MainClearCommand, MainForceIdle, MainAt, MainGoes,
       cmdVars
  <2> QED
    BY <1>1, <2>1 DEF Facts, Lockout, CommandCleared, IdleStored
\* With no command sent main finds nothing to do.
<1>6. CASE MainLoadCommand \/ MainNoCommand \/ MainAct
  <2>1. /\ mpc \in {"load", "act"} /\ UNCHANGED <<status, cmdRpm, preCmd, passes>>
        /\ (sent' <=> sent)
    BY <1>6 DEF LockMain, MainCheckFault, MainClearCommand, MainLoadCommand, MainNoCommand,
       MainAct, MainAt, cmdVars
  <2>2. CASE trip = "locked"
    <3>1. passes = 0
      BY <2>1, <2>2 DEF Facts, Lockout, LockTypeOK
    <3> QED
      BY <1>1, <2>1, <2>2, <3>1 DEF Facts, Lockout, CommandCleared, IdleStored
  <2>3. CASE trip = "released"
    <3>1. preCmd = 0 /\ cmdRpm = 0 /\ status # "DRV_RUN"
      BY <2>3 DEF Facts, Lockout, CommandCleared, IdleStored
    <3>2. mpc' \in {"act", "check"}
      BY <1>6, <3>1 DEF MainLoadCommand, MainNoCommand, MainAct, MainGoes
    <3> QED
      BY <1>1, <2>1, <2>3, <3>1, <3>2 DEF Facts, Lockout, CommandCleared, IdleStored
  <2> QED
    BY <1>2, <2>2, <2>3
<1>7. CASE \/ MainWriteBack \/ MainBrake \/ MainStop \/ MainInitFlags \/ MainInitCalib
           \/ MainInitSeq \/ MainSetDir \/ MainRun
  <2>1. /\ mpc \in {"writeBack", "brake", "stop", "initFlags", "initCalib", "initSeq",
                    "dir", "run"}
        /\ passes' = passes
    BY <1>7 DEF LockMain, MainCheckFault, MainWriteBack, MainBrake, MainStop, MainInitFlags,
       MainInitCalib, MainInitSeq, MainSetDir, MainRun, MainAt
  <2>2. trip # "released"
    BY <2>1 DEF Facts, Lockout
  <2>3. trip = "locked" => passes' = 0
    BY <2>1 DEF Facts, Lockout, LockTypeOK
  <2> QED
    BY <1>1, <2>2, <2>3 DEF Facts, Lockout, CommandCleared, IdleStored
<1> QED
  BY <1>3, <1>4, <1>5, <1>6, <1>7 DEF LockMain, Main

LEMMA LockoutStep ==
    ASSUME ~HostCalibrates
    PROVE  Facts /\ [LockNext]_allVars => Lockout'
<1> SUFFICES ASSUME Facts, [LockNext]_allVars PROVE Lockout'
  OBVIOUS
<1>1. CASE LockSample
  BY <1>1, LockoutOver, LockoutCalm DEF LockSample
<1>2. CASE LockOtherIsr
  BY <1>2, LockoutOtherIsr
<1>3. CASE LockTmr3
  BY <1>3, LockoutTmr3
<1>4. CASE LockHost
  BY <1>4, LockoutHost
<1>5. CASE LockMain
  BY <1>5, LockoutMain
<1>6. CASE UNCHANGED allVars
  <2>1. UNCHANGED <<pwmOn, status, mpc, preCmd, cmdRpm, sent, trip, passes>>
    BY <1>6 DEF allVars, vars, lockVars, bridgeVars, mainVars, cmdVars
  <2> QED
    BY <2>1 DEF Facts, Lockout, CommandCleared, IdleStored
<1> QED
  BY <1>1, <1>2, <1>3, <1>4, <1>5, <1>6 DEF LockNext

\* An over-current trip keeps the bridge off until its release and a new
\* command, of a host that does not calibrate.
THEOREM LockedOut ==
    ASSUME ~HostCalibrates
    PROVE  LockSpec => []TripLocksOut
<1>1. LockInit => Counting /\ Lockout
  BY DEF LockInit, Counting, Lockout, CommandCleared, IdleStored
<1>2. LockTypeOK /\ Counting /\ [LockNext]_allVars => Counting'
  BY CountingStep
<1>3. TypeOK /\ LockTypeOK /\ Counting /\ Lockout /\ [LockNext]_allVars => Lockout'
  BY LockoutStep DEF Facts
<1>4. Lockout => TripLocksOut
  BY DEF Lockout, TripLocksOut
<1>5. LockSpec => []TypeOK
  BY IsDrive, TypeCorrect, PTL
<1> QED
  BY <1>1, <1>2, <1>3, <1>4, <1>5, LockTypeCorrect, PTL DEF LockSpec
=============================================================================
