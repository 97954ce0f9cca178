-------------------------- MODULE MotorDriveProofs --------------------------
(***************************************************************************)
(* Proofs about MotorDrive, for every observer, every speed configuration, *)
(* every list of bus-voltage checks and every host.                        *)
(*                                                                         *)
(* The safety invariants are not inductive alone: that a run begins with   *)
(* its loops open depends on what main has already stored when it reaches  *)
(* the store of DRV_RUN, and on no handler having started the drive since. *)
(* StartPrepared says so.                                                  *)
(*                                                                         *)
(* The last section counts the steps to a stop and to a run in the         *)
(* direction commanded, which the liveness properties wait for.            *)
(***************************************************************************)
EXTENDS MotorDrive, TLAPS

\* While main is inside MotorSW_Init, or has just left it, nobody else can have
\* put the drive into DRV_RUN, and what has been initialised stays so.
StartPrepared ==
    /\ mpc \in {"initFlags", "initCalib", "initSeq", "dir", "run"} => status # "DRV_RUN"
    /\ mpc \in {"initCalib", "initSeq", "dir", "run"} => ~enSpdPid /\ ~enSpdTraj /\ ~enCurPid
    /\ mpc \in {"dir", "run"} => startup = "Initialize"

Safety == PwmOffImpliesZero /\ LoopsFollowStartup /\ CalibrationPowered /\ StartPrepared

-----------------------------------------------------------------------------
\* Each entry of the list of checks names a bit.
LEMMA VbusChecksType == \A i \in 1..Len(VbusChecks) : VbusChecks[i] \in VbusFaults
  BY FaultAssumption

\* Initially no run, no vector, no calibration, main at the top of its loop.
LEMMA InitInvariants == Init => TypeOK /\ Safety
  <1> SUFFICES ASSUME Init PROVE TypeOK /\ Safety
    OBVIOUS
  <1> USE DEF Init
  <1>1. NumbersTypeOK
    BY DEF NumbersTypeOK
  <1>2. TypeOK
    BY <1>1 DEF TypeOK, Statuses, StartupSteps, CalibSteps, MainPcs, TmrPcs, Dirs
  <1>3. Safety
    BY DEF Safety, PwmOffImpliesZero, LoopsFollowStartup, CalibrationPowered, StartPrepared
  <1>4. QED
    BY <1>2, <1>3

\* Every step keeps the integers integers.
LEMMA NumbersStep == TypeOK /\ [Next]_vars => NumbersTypeOK'
  <1> SUFFICES ASSUME NumbersTypeOK, [Next]_vars PROVE NumbersTypeOK'
    BY DEF TypeOK
  <1> USE DEF NumbersTypeOK
  <1>1. CASE AdcIsr
    <2> USE DEF notAdcVars, cmdVars, mainVars, tmrVars, AdcBegin
    <2>1. CASE AdcOffset
      BY <2>1 DEF AdcOffset, calVars
    <2>2. CASE AdcTrip \/ AdcIdle \/ AdcStop
      BY <2>2 DEF AdcTrip, AdcIdle, AdcStop, calVars
    <2>3. CASE AdcCalibrate
      <3>1. outType' \in 0..2
        BY <2>3 DEF AdcCalibrate, CalibrationLoop
      <3>2. QED
        BY <2>3, <3>1 DEF AdcCalibrate
    <2>4. CASE AdcRun
      <3>1. tgtWr' \in Int
        BY <2>4, SpeedAssumption DEF AdcRun, StartupControl
      <3>2. QED
        BY <2>4, <3>1 DEF AdcRun, calVars
    <2>5. QED
      BY <1>1, <2>1, <2>2, <2>3, <2>4 DEF AdcIsr
  <1>2. CASE AdcSpurious
    BY <1>2 DEF AdcSpurious, notAdcVars, cmdVars, mainVars, tmrVars, calVars
  <1>3. CASE Host
    <2>1. cmdRpm' \in Int
      <3>1. CASE HostSetsSpeed
        BY <3>1, SpeedAssumption DEF HostSetsSpeed
      <3>2. CASE HostReverses
        BY <3>2 DEF HostReverses
      <3>3. CASE HostCalibration
        BY <3>3 DEF HostCalibration, cmdVars
      <3>4. QED
        BY <1>3, <3>1, <3>2, <3>3 DEF Host
    <2>2. UNCHANGED <<outType, tgtWr, preCmd, cmdWr, mreg, ti>>
      BY <1>3 DEF Host, HostSetsSpeed, HostReverses, HostCalibration,
                  calVars, trajVars, cmdVars, mainVars, tmrVars
    <2>3. QED
      BY <2>1, <2>2
  <1>4. CASE Tmr3
    <2> USE DEF notTmrVars, calVars, cmdVars, mainVars, TmrReturns
    <2>1. tgtWr' \in Int
      BY <1>4, SpeedAssumption DEF Tmr3, TmrTick, TmrCheckCounts, TmrCheckLoads,
         TmrCheckStores, TmrReturn, TmrRamp, TmrRampedDown, TmrStop, Clip
    <2>2. ti' \in Nat \ {0}
      BY <1>4 DEF Tmr3, TmrTick, TmrCheckCounts, TmrCheckLoads,
         TmrCheckStores, TmrReturn, TmrRamp, TmrRampedDown, TmrStop
    <2>3. UNCHANGED <<outType, cmdRpm, preCmd, cmdWr, mreg>>
      BY <1>4 DEF Tmr3, TmrTick, TmrCheckCounts, TmrCheckLoads,
         TmrCheckStores, TmrReturn, TmrRamp, TmrRampedDown, TmrStop
    <2>4. QED
      BY <2>1, <2>2, <2>3
  <1>5. CASE Main
    <2> USE DEF notMainVars, calVars, trajVars, cmdVars, tmrVars
    <2>1. CASE MainWriteBack
      BY <2>1, SpeedAssumption DEF MainWriteBack, AbsRpm, Abs
    <2>2. CASE \/ MainCheckFault \/ MainForceIdle \/ MainNoCommand \/ MainLoadCommand
               \/ MainAct \/ MainBrake \/ MainStop
      BY <2>2 DEF MainCheckFault, MainForceIdle, MainNoCommand, MainLoadCommand,
                  MainAct, MainBrake, MainStop
    <2>3. CASE \/ MainClearCommand \/ MainInitFlags \/ MainInitCalib \/ MainInitSeq
               \/ MainSetDir \/ MainRun
      BY <2>3 DEF MainClearCommand, MainInitFlags, MainInitCalib, MainInitSeq,
                  MainSetDir, MainRun
    <2>4. QED
      BY <1>5, <2>1, <2>2, <2>3 DEF Main
  <1>6. CASE UNCHANGED vars
    BY <1>6 DEF vars, calVars, trajVars, cmdVars, mainVars, tmrVars
  <1>7. QED
    BY <1>1, <1>2, <1>3, <1>4, <1>5, <1>6 DEF Next

\* Every step keeps the types.
LEMMA TypeStep == TypeOK /\ [Next]_vars => TypeOK'
  <1> SUFFICES ASSUME TypeOK, [Next]_vars PROVE TypeOK'
    OBVIOUS
  <1>n. NumbersTypeOK'
    BY NumbersStep
  <1> USE DEF TypeOK
  <1>1. CASE AdcIsr
    <2> USE DEF notAdcVars, cmdVars, mainVars, tmrVars, loopVars, seqVars, calVars,
                bridgeVars, adcVars
    <2>1. ASSUME AdcBegin PROVE /\ fault' \subseteq VbusFaults \cup AdcFaults
                                /\ adcRdy' \in BOOLEAN /\ sampled' \in BOOLEAN
                                /\ UNCHANGED notAdcVars
      <3>1. fault' \subseteq VbusFaults \cup AdcFaults
        BY <2>1, FaultAssumption DEF AdcBegin, OverCurrent, AdcFaults
      <3>2. QED
        BY <3>1, <2>1 DEF AdcBegin
    <2>2. CASE AdcOffset
      <3>1. fault' \subseteq VbusFaults \cup AdcFaults
        BY <2>2, FaultAssumption DEF AdcOffset, AdcFaults
      <3>2. QED
        BY <1>n, <2>2, <3>1 DEF AdcOffset
    <2>3. CASE AdcTrip \/ AdcIdle
      BY <1>n, <2>3, <2>1 DEF AdcTrip, AdcIdle, FastStop, Statuses
    <2>4. CASE AdcCalibrate
      <3>1. status' \in Statuses /\ calib' \in CalibSteps
        BY <2>4 DEF AdcCalibrate, CalibrationLoop, CalibrationDone, Statuses, CalibSteps
      <3>2. duty' \in {"zero", "vec"} /\ svpwm' \in {"zero", "vec"}
        BY <2>4 DEF AdcCalibrate
      <3>3. QED
        BY <1>n, <2>4, <2>1, <3>1, <3>2 DEF AdcCalibrate
    <2>5. CASE AdcRun
      <3>1. startup' \in StartupSteps
        BY <2>5 DEF AdcRun, StartupControl, StartupSteps
      <3>2. /\ pwmOn' \in BOOLEAN
            /\ enSpdPid' \in BOOLEAN /\ enSpdTraj' \in BOOLEAN /\ enCurPid' \in BOOLEAN
        BY <2>5 DEF AdcRun, StartupControl
      <3>3. duty' \in {"zero", "vec"} /\ svpwm' \in {"zero", "vec"}
        BY <2>5 DEF AdcRun
      <3>4. QED
        BY <1>n, <2>5, <2>1, <3>1, <3>2, <3>3 DEF AdcRun
    <2>6. CASE AdcStop
      BY <1>n, <2>6, <2>1 DEF AdcStop, StopControl, FastStop, Statuses
    <2>7. QED
      BY <1>1, <2>2, <2>3, <2>4, <2>5, <2>6 DEF AdcIsr
  <1>2. CASE AdcSpurious
    <2>1. fault' \subseteq VbusFaults \cup AdcFaults
      BY <1>2, FaultAssumption DEF AdcSpurious, AdcFaults
    <2>2. QED
      BY <1>n, <1>2, <2>1 DEF AdcSpurious, FastStop, Statuses,
         notAdcVars, cmdVars, mainVars, tmrVars, seqVars, calVars, adcVars
  <1>3. CASE Host
    <2> USE DEF bridgeVars, loopVars, seqVars, calVars, trajVars, cmdVars, adcVars,
                mainVars, tmrVars
    <2>1. CASE HostSetsSpeed \/ HostReverses
      BY <1>n, <2>1 DEF HostSetsSpeed, HostReverses
    <2>2. CASE HostCalibration
      BY <1>n, <2>2 DEF HostCalibration, Statuses, CalibSteps
    <2>3. QED
      BY <1>3, <2>1, <2>2 DEF Host
  <1>4. CASE Tmr3
    <2> USE DEF notTmrVars, bridgeVars, loopVars, seqVars, calVars, cmdVars, mainVars,
                TmrReturns, TmrPcs
    <2>1. CASE TmrTick \/ TmrCheckCounts \/ TmrCheckStores \/ TmrReturn \/ TmrRampedDown
      BY <1>n, <2>1 DEF TmrTick, TmrCheckCounts, TmrCheckStores, TmrReturn, TmrRampedDown
    <2>2. CASE TmrCheckLoads
      <3>1. treg' \subseteq VbusFaults \cup AdcFaults
        BY <2>2, VbusChecksType DEF TmrCheckLoads
      <3>2. QED
        BY <1>n, <2>2, <3>1 DEF TmrCheckLoads
    <2>3. CASE TmrRamp \/ TmrStop
      BY <1>n, <2>3 DEF TmrRamp, TmrStop, Statuses
    <2>4. QED
      BY <1>4, <2>1, <2>2, <2>3 DEF Tmr3
  <1>5. CASE Main
    <2> USE DEF MainAt, MainGoes, MainPcs, notMainVars, bridgeVars, loopVars, seqVars,
                calVars, trajVars, cmdVars, adcVars, tmrVars
    <2>1. CASE MainCheckFault \/ MainClearCommand \/ MainForceIdle \/ MainNoCommand
      BY <1>n, <2>1 DEF MainCheckFault, MainClearCommand, MainForceIdle, MainNoCommand, Statuses
    <2>2. CASE MainLoadCommand
      <3>1. cmdDir' \in Dirs
        BY <2>2 DEF MainLoadCommand, Dirs
      <3>2. QED
        BY <1>n, <2>2, <3>1 DEF MainLoadCommand
    <2>3. CASE MainWriteBack
      BY <1>n, <2>3 DEF MainWriteBack
    <2>4. CASE MainAct \/ MainBrake \/ MainStop
      <3>1. mpc' \in MainPcs /\ status' \in Statuses
        BY <2>4 DEF MainAct, MainBrake, MainStop, Statuses
      <3>2. QED
        BY <1>n, <2>4, <3>1 DEF MainAct, MainBrake, MainStop
    <2>5. CASE MainInitFlags \/ MainInitCalib \/ MainInitSeq \/ MainSetDir \/ MainRun
      BY <1>n, <2>5 DEF MainInitFlags, MainInitCalib, MainInitSeq, MainSetDir, MainRun,
                        Statuses, CalibSteps, StartupSteps
    <2>6. QED
      BY <1>5, <2>1, <2>2, <2>3, <2>4, <2>5 DEF Main
  <1>6. CASE UNCHANGED vars
    BY <1>n, <1>6 DEF vars, bridgeVars, loopVars, seqVars, calVars, trajVars, cmdVars,
                      adcVars, mainVars, tmrVars
  <1>7. QED
    BY <1>1, <1>2, <1>3, <1>4, <1>5, <1>6 DEF Next

\* The variables always hold values of their types.
THEOREM TypeCorrect == Spec => []TypeOK
  <1>1. Init => TypeOK
    BY InitInvariants
  <1>2. QED
    BY <1>1, TypeStep, PTL DEF Spec

-----------------------------------------------------------------------------
\* A step of the ADC interrupt keeps the invariants: a stop zeroes what it
\* disables, a start-up step closes the loops it says, and both find main's
\* preparations as they were.
LEMMA SafetyAdc == TypeOK /\ Safety /\ (AdcIsr \/ AdcSpurious) => Safety'
  <1> SUFFICES ASSUME TypeOK, Safety, AdcIsr \/ AdcSpurious PROVE Safety'
    OBVIOUS
  <1> USE DEF Safety, PwmOffImpliesZero, LoopsFollowStartup, CalibrationPowered, StartPrepared,
              notAdcVars, mainVars
  <1>1. CASE AdcOffset
    BY <1>1 DEF AdcOffset, bridgeVars, loopVars, seqVars
  <1>2. CASE AdcTrip \/ AdcIdle \/ AdcSpurious
    <2>1. FastStop
      BY <1>2 DEF AdcTrip, AdcIdle, AdcSpurious
    <2>2. UNCHANGED <<mpc, startup, enSpdTraj>>
      BY <1>2 DEF AdcTrip, AdcIdle, AdcSpurious, AdcBegin, seqVars
    <2>3. QED
      BY <2>1, <2>2 DEF FastStop
  <1>3. CASE AdcCalibrate
    <2>1. status' \in {"CALIBRATE", "IDLE"} /\ pwmOn /\ pwmOn'
      BY <1>3 DEF AdcCalibrate, CalibrationLoop, CalibrationDone
    <2>2. UNCHANGED <<loopVars, seqVars, mpc>>
      BY <1>3 DEF AdcCalibrate, AdcBegin
    <2>3. QED
      BY <2>1, <2>2 DEF loopVars, seqVars
  <1>4. CASE AdcRun
    <2>1. /\ mpc' = mpc /\ mpc \notin {"initFlags", "initCalib", "initSeq", "dir", "run"}
          /\ status = "DRV_RUN" /\ status' = "DRV_RUN"
      BY <1>4 DEF AdcRun, AdcBegin
    <2>2. StartPrepared' /\ CalibrationPowered'
      BY <2>1
    <2>3. PwmOffImpliesZero'
      BY <1>4, <2>1 DEF AdcRun, StartupControl, loopVars
    <2>4. LoopsFollowStartup'
      BY <1>4, <2>1 DEF AdcRun, StartupControl, loopVars
    <2>5. QED
      BY <2>2, <2>3, <2>4
  <1>5. CASE AdcStop
    BY <1>5 DEF AdcStop, StopControl, FastStop, AdcBegin
  <1> HIDE DEF Safety
  <1>6. AdcOffset \/ (AdcTrip \/ AdcIdle \/ AdcSpurious) \/ AdcCalibrate \/ AdcRun \/ AdcStop
    BY DEF AdcIsr
  <1>7. QED
    BY <1>1, <1>2, <1>3, <1>4, <1>5, <1>6

\* So does a step of the main loop: it stores DRV_RUN only over a start-up that
\* is at its first step, with every loop open.
LEMMA SafetyMain == TypeOK /\ Safety /\ Main => Safety'
  <1> SUFFICES ASSUME TypeOK, Safety, Main PROVE Safety'
    OBVIOUS
  <1> USE DEF Safety, PwmOffImpliesZero, LoopsFollowStartup, CalibrationPowered, StartPrepared,
              MainAt, MainGoes, notMainVars, bridgeVars
  <1>1. CASE \/ MainCheckFault \/ MainClearCommand \/ MainLoadCommand \/ MainNoCommand
             \/ MainWriteBack \/ MainBrake
    BY <1>1 DEF MainCheckFault, MainClearCommand, MainLoadCommand, MainNoCommand,
                MainWriteBack, MainBrake, loopVars, seqVars
  <1>2. CASE MainForceIdle \/ MainStop
    BY <1>2 DEF MainForceIdle, MainStop, loopVars, seqVars
  <1>3. CASE MainAct
    <2>1. mpc' \in {"initCalib", "initSeq", "dir", "run"} => FALSE
      BY <1>3 DEF MainAct
    <2>2. mpc' = "initFlags" => status # "DRV_RUN"
      BY <1>3 DEF MainAct
    <2>3. QED
      BY <1>3, <2>1, <2>2 DEF MainAct, loopVars, seqVars
  <1>4. CASE MainInitFlags
    BY <1>4 DEF MainInitFlags, seqVars
  <1>5. CASE MainInitCalib \/ MainInitSeq \/ MainSetDir
    BY <1>5 DEF MainInitCalib, MainInitSeq, MainSetDir, loopVars, seqVars
  <1>6. CASE MainRun
    BY <1>6 DEF MainRun, loopVars, seqVars
  <1>7. QED
    BY <1>1, <1>2, <1>3, <1>4, <1>5, <1>6 DEF Main

\* Every step keeps the invariants.
LEMMA SafetyStep == TypeOK /\ Safety /\ [Next]_vars => Safety'
  <1> SUFFICES ASSUME TypeOK, Safety, [Next]_vars PROVE Safety'
    OBVIOUS
  <1> USE DEF Safety, PwmOffImpliesZero, LoopsFollowStartup, CalibrationPowered, StartPrepared
  <1>1. CASE AdcIsr \/ AdcSpurious
    BY <1>1, SafetyAdc
  <1>2. CASE Host
    BY <1>2 DEF Host, HostSetsSpeed, HostReverses, HostCalibration,
                bridgeVars, loopVars, seqVars, mainVars
  <1>3. CASE Tmr3
    <2>1. /\ status' \in {status, "DRV_STOP"}
          /\ UNCHANGED <<bridgeVars, loopVars, seqVars, mainVars>>
      BY <1>3 DEF Tmr3, TmrTick, TmrCheckCounts, TmrCheckLoads, TmrCheckStores, TmrReturn,
                  TmrRamp, TmrRampedDown, TmrStop, notTmrVars
    <2>2. QED
      BY <2>1 DEF bridgeVars, loopVars, seqVars, mainVars
  <1>4. CASE Main
    BY <1>4, SafetyMain
  <1>5. CASE UNCHANGED vars
    BY <1>5 DEF vars, bridgeVars, loopVars, seqVars, mainVars
  <1>6. QED
    BY <1>1, <1>2, <1>3, <1>4, <1>5 DEF Next

\* The inductive invariant holds in every reachable state.
LEMMA SafetyInvariant == Spec => [](TypeOK /\ Safety)
  <1>1. Init => TypeOK /\ Safety
    BY InitInvariants
  <1>2. TypeOK /\ Safety /\ [Next]_vars => (TypeOK /\ Safety)'
    BY TypeStep, SafetyStep
  <1>3. QED
    BY <1>1, <1>2, PTL DEF Spec

\* Whoever disables the outputs, and however the contexts interleave, no PWM
\* vector is left in the timer or in MotorSvpwm while the outputs are off.
THEOREM OutputsOffZero == Spec => []PwmOffImpliesZero
  <1>1. TypeOK /\ Safety => PwmOffImpliesZero
    BY DEF Safety
  <1>2. QED
    BY <1>1, SafetyInvariant, PTL

\* In a run the loops are closed exactly as the step of the start-up says.
THEOREM LoopsCorrect == Spec => []LoopsFollowStartup
  <1>1. TypeOK /\ Safety => LoopsFollowStartup
    BY DEF Safety
  <1>2. QED
    BY <1>1, SafetyInvariant, PTL

\* A calibration in progress has the bridge on.
THEOREM CalibrationIsPowered == Spec => []CalibrationPowered
  <1>1. TypeOK /\ Safety => CalibrationPowered
    BY DEF Safety
  <1>2. QED
    BY <1>1, SafetyInvariant, PTL

-----------------------------------------------------------------------------
(***************************************************************************)
(* Refinement: every run of the motor is a RunSession.                     *)
(***************************************************************************)

\* The initial state is a session at rest.
LEMMA SessionInit == Init => Session!Init
  BY DEF Init, Session!Init, Stage, ClosedLoops, Dirs

\* The steps that leave the start-up, the status, the direction and the outputs
\* alone are invisible in the session, and those taken outside a run are rest.
LEMMA SessionQuiet ==
  ASSUME TypeOK, TypeOK', Safety, Safety',
         \/ UNCHANGED <<status, startup, loopVars, tgtDir, pwmOn>>
         \/ status # "DRV_RUN" /\ status' # "DRV_RUN"
         \/ status = "DRV_RUN" /\ status' # "DRV_RUN" /\ tgtDir' = tgtDir
  PROVE  [Session!Next]_(Session!vars)
  <1>1. CASE UNCHANGED <<status, startup, loopVars, tgtDir, pwmOn>>
    BY <1>1 DEF Session!vars, Stage, ClosedLoops, loopVars
  <1>2. CASE status # "DRV_RUN" /\ status' # "DRV_RUN"
    <2>1. Session!Rest
      BY <1>2 DEF TypeOK, Session!Rest, Stage, ClosedLoops
    <2>2. QED
      BY <2>1 DEF Session!Next
  <1>3. CASE status = "DRV_RUN" /\ status' # "DRV_RUN" /\ tgtDir' = tgtDir
    <2>1. Session!End
      BY <1>3 DEF TypeOK, Session!End, Stage, ClosedLoops
    <2>2. QED
      BY <2>1 DEF Session!Next
  <1>4. QED
    BY <1>1, <1>2, <1>3

\* A step of Startup_Control is a step of the session or invisible in it.
LEMMA SessionAdcRun ==
  ASSUME TypeOK, TypeOK', Safety, Safety', AdcRun
  PROVE  [Session!Next]_(Session!vars)
  <1>1. status = "DRV_RUN" /\ status' = "DRV_RUN" /\ tgtDir' = tgtDir
    BY DEF AdcRun, AdcBegin, notAdcVars
  <1>2. LoopsFollowStartup /\ LoopsFollowStartup'
    BY DEF Safety
  <1>3. StartupControl
    BY DEF AdcRun
  <1> USE <1>1, <1>2 DEF LoopsFollowStartup, Stage, ClosedLoops
  <1>4. CASE startup = "Initialize" \/ (startup' = startup /\ startup # "BscCharge")
    <2>1. /\ startup = "Initialize" => startup' = "BscCharge"
          /\ pwmOn' = pwmOn
      BY <1>3, <1>4 DEF StartupControl
    <2>2. QED
      BY <1>4, <2>1 DEF TypeOK, Session!vars
  <1>5. CASE startup = "BscCharge"
    <2>1. startup' = "StateDetect" /\ pwmOn' = TRUE
      BY <1>3, <1>5 DEF StartupControl
    <2>2. Session!PowerUp
      BY <1>5, <2>1 DEF TypeOK, Session!PowerUp
    <2>3. QED
      BY <2>2 DEF Session!Next
  <1>6. CASE startup = "StateDetect"
    <2>1. startup' \in {"CLStart", "Align"} /\ pwmOn' = pwmOn
      BY <1>3, <1>6 DEF StartupControl
    <2>2. Session!CloseCurrentLoop
      BY <1>6, <2>1 DEF TypeOK, Session!CloseCurrentLoop
    <2>3. QED
      BY <2>2 DEF Session!Next
  <1>7. CASE startup \in {"Align", "ForceDrive"} /\ startup' # startup
    <2>1. startup' \in {"ForceDrive", "CLStart"} /\ pwmOn' = pwmOn
      BY <1>3, <1>7 DEF StartupControl
    <2>2. QED
      BY <1>7, <2>1 DEF TypeOK, Session!vars
  <1>8. CASE startup = "CLStart"
    <2>1. startup' = "Finish" /\ pwmOn' = pwmOn
      BY <1>3, <1>8 DEF StartupControl
    <2>2. Session!CloseSpeedLoop
      BY <1>8, <2>1 DEF TypeOK, Session!CloseSpeedLoop
    <2>3. QED
      BY <2>2 DEF Session!Next
  <1>9. startup = "Finish" => startup' = startup
    BY <1>3 DEF StartupControl
  <1>10. startup \in StartupSteps
    BY DEF TypeOK
  <1>11. QED
    BY <1>4, <1>5, <1>6, <1>7, <1>8, <1>9, <1>10 DEF StartupSteps

\* Main's store of DRV_RUN begins a session.
LEMMA SessionMainRun ==
  ASSUME TypeOK, TypeOK', Safety, Safety', MainRun
  PROVE  Session!Begin
  <1>1. status # "DRV_RUN" /\ status' = "DRV_RUN" /\ startup' = "Initialize"
    BY DEF MainRun, MainAt, Safety, StartPrepared, seqVars
  <1>2. ~enSpdPid' /\ ~enSpdTraj' /\ ~enCurPid'
    BY <1>1 DEF Safety, LoopsFollowStartup
  <1>3. UNCHANGED <<tgtDir, pwmOn>>
    BY DEF MainRun, trajVars, notMainVars, bridgeVars
  <1>4. QED
    BY <1>1, <1>2, <1>3 DEF Session!Begin, Stage, ClosedLoops

\* Every step of the drive is a step of the session or invisible in it.
LEMMA SessionStep ==
  ASSUME TypeOK, TypeOK', Safety, Safety', [Next]_vars
  PROVE  [Session!Next]_(Session!vars)
  <1> DEFINE Quiet == \/ UNCHANGED <<status, startup, loopVars, tgtDir, pwmOn>>
                      \/ status # "DRV_RUN" /\ status' # "DRV_RUN"
                      \/ status = "DRV_RUN" /\ status' # "DRV_RUN" /\ tgtDir' = tgtDir
  <1>q. ASSUME Quiet PROVE [Session!Next]_(Session!vars)
    BY <1>q, SessionQuiet
  <1>1. CASE AdcRun
    BY <1>1, SessionAdcRun
  <1>2. CASE AdcIsr /\ ~AdcRun
    <2>1. AdcOffset => Quiet
      BY DEF AdcOffset, bridgeVars, seqVars, notAdcVars
    <2>2. AdcTrip \/ AdcIdle \/ AdcStop \/ AdcCalibrate => Quiet
      BY DEF AdcTrip, AdcIdle, AdcStop, AdcCalibrate, StopControl, FastStop, AdcBegin,
             CalibrationLoop, CalibrationDone, notAdcVars
    <2>3. QED
      BY <1>2, <1>q, <2>1, <2>2 DEF AdcIsr
  <1>3. CASE AdcSpurious
    <2>1. Quiet
      BY <1>3 DEF AdcSpurious, FastStop, notAdcVars
    <2>2. QED
      BY <1>q, <2>1
  <1>4. CASE Host
    <2>1. Quiet
      BY <1>4 DEF Host, HostSetsSpeed, HostReverses, HostCalibration, bridgeVars, seqVars,
                  trajVars
    <2>2. QED
      BY <1>q, <2>1
  <1>5. CASE Tmr3
    <2>1. /\ status' \in {status, "DRV_STOP"}
          /\ UNCHANGED <<bridgeVars, loopVars, seqVars, tgtDir>>
      BY <1>5 DEF Tmr3, TmrTick, TmrCheckCounts, TmrCheckLoads, TmrCheckStores, TmrReturn,
                  TmrRamp, TmrRampedDown, TmrStop, notTmrVars
    <2>2. Quiet
      BY <2>1 DEF bridgeVars, seqVars
    <2>3. QED
      BY <1>q, <2>2
  <1>6. CASE MainRun
    BY <1>6, SessionMainRun DEF Session!Next
  <1>7. CASE MainInitFlags \/ MainInitSeq \/ MainSetDir
    <2>1. Quiet
      BY <1>7 DEF MainInitFlags, MainInitSeq, MainSetDir, MainAt, Safety, StartPrepared
    <2>2. QED
      BY <1>q, <2>1
  <1>8. CASE MainForceIdle \/ MainStop
    <2>1. Quiet
      BY <1>8 DEF MainForceIdle, MainStop, seqVars, trajVars, notMainVars, bridgeVars
    <2>2. QED
      BY <1>q, <2>1
  <1>9. CASE \/ MainCheckFault \/ MainClearCommand \/ MainLoadCommand \/ MainNoCommand
             \/ MainWriteBack \/ MainAct \/ MainBrake \/ MainInitCalib
    <2>1. Quiet
      BY <1>9 DEF MainCheckFault, MainClearCommand, MainLoadCommand, MainNoCommand,
                  MainWriteBack, MainAct, MainBrake, MainInitCalib, seqVars, trajVars,
                  notMainVars, bridgeVars
    <2>2. QED
      BY <1>q, <2>1
  <1>10. CASE UNCHANGED vars
    <2>1. Quiet
      BY <1>10 DEF vars, bridgeVars, seqVars, trajVars
    <2>2. QED
      BY <1>q, <2>1
  <1>11. QED
    BY <1>1, <1>2, <1>3, <1>4, <1>5, <1>6, <1>7, <1>8, <1>9, <1>10 DEF Next, Main

\* The drive implements the abstract session: for every observer, host and
\* interleaving, a run starts at rest with its loops open, closes them in order,
\* keeps its direction and its bridge, and ends by going back to rest.
THEOREM SessionRefinement == Spec => SessionSpec
  <1>1. Init => Session!Init
    BY SessionInit
  <1>2. (TypeOK /\ Safety) /\ (TypeOK /\ Safety)' /\ [Next]_vars => [Session!Next]_(Session!vars)
    BY SessionStep
  <1>3. QED
    BY <1>1, <1>2, SafetyInvariant, PTL DEF Spec, SessionSpec, Session!Spec
-----------------------------------------------------------------------------
(***************************************************************************)
(* Cold starts, without calibrations and with faults that stand.           *)
(***************************************************************************)

\* The stores of MotorSW_Init and of DRV_RUN.
InitPcs == {"initFlags", "initCalib", "initSeq", "dir", "run"}

\* Who may find the bridge on.  An IDLE drive has it on only between main's
\* store of IDLE and the next conversion: the fault that made main store it has
\* been set by the tick that has just returned, so the next tick, which could
\* clear it, comes after that conversion, and main does not get past its test.
PoweredRun ==
    /\ status # "CALIBRATE"
    /\ pwmOn => adcRdy /\ mpc \notin InitPcs
    /\ pwmOn /\ status = "DRV_RUN" => startup \notin {"Initialize", "BscCharge"}
    /\ pwmOn /\ status = "IDLE" =>
         tpc = "idle" /\ fault # {} /\ ~sampled /\ mpc \in {"check", "clear", "forceIdle"}
    /\ pwmOn /\ fault # {} /\ tpc = "idle" => ~sampled

ColdNext == Next /\ (MainForceIdle => fault # {})

\* The steps of the ADC interrupt keep PoweredRun: only a run turns the bridge on.
LEMMA PoweredAdc ==
  ASSUME TypeOK, Safety, PoweredRun, AdcIsr \/ AdcSpurious
  PROVE  PoweredRun'
  <1> USE DEF PoweredRun, InitPcs, notAdcVars, mainVars, tmrVars
  <1>1. CASE AdcOffset
    BY <1>1 DEF AdcOffset, bridgeVars
  <1>2. CASE AdcTrip \/ AdcIdle \/ AdcSpurious \/ AdcStop
    BY <1>2 DEF AdcTrip, AdcIdle, AdcSpurious, AdcStop, StopControl, FastStop
  <1>3. CASE AdcRun
    <2>1. /\ status = "DRV_RUN" /\ status' = "DRV_RUN" /\ fault' = {}
          /\ adcRdy /\ adcRdy' = adcRdy /\ mpc' = mpc /\ tpc' = tpc
      BY <1>3 DEF AdcRun, AdcBegin
    <2>2. mpc \notin InitPcs
      BY <2>1 DEF Safety, StartPrepared
    <2>3. pwmOn' => startup' \notin {"Initialize", "BscCharge"}
      BY <1>3, <2>1 DEF AdcRun, StartupControl, TypeOK
    <2>4. QED
      BY <2>1, <2>2, <2>3
  <1>4. CASE AdcCalibrate
    BY <1>4 DEF AdcCalibrate
  <1>5. QED
    BY <1>1, <1>2, <1>3, <1>4 DEF AdcIsr

\* So do the steps of TMR3: it does not tick while main's IDLE stands over a
\* bridge that is on, and a conversion comes before it ticks again.
LEMMA PoweredTmr3 ==
  ASSUME TypeOK, PoweredRun, Tmr3
  PROVE  PoweredRun'
  <1> USE DEF PoweredRun, InitPcs, notTmrVars, bridgeVars, seqVars, mainVars
  <1>1. CASE TmrTick
    BY <1>1 DEF TmrTick
  <1>2. CASE TmrCheckCounts \/ TmrCheckLoads \/ TmrRampedDown
    BY <1>2 DEF TmrCheckCounts, TmrCheckLoads, TmrRampedDown, ChecksDone
  <1>3. CASE TmrCheckStores
    BY <1>3 DEF TmrCheckStores
  <1>4. CASE TmrReturn \/ TmrRamp \/ TmrStop
    BY <1>4 DEF TmrReturn, TmrRamp, TmrStop, TmrReturns, ChecksDone
  <1>5. QED
    BY <1>1, <1>2, <1>3, <1>4 DEF Tmr3

\* And those of main.
LEMMA PoweredMain ==
  ASSUME TypeOK, PoweredRun, Main, MainForceIdle => fault # {}
  PROVE  PoweredRun'
  <1> USE DEF PoweredRun, InitPcs, MainAt, MainGoes, notMainVars, bridgeVars, adcVars, tmrVars
  <1>1. CASE MainCheckFault \/ MainClearCommand
    BY <1>1 DEF MainCheckFault, MainClearCommand, seqVars
  <1>2. CASE MainForceIdle
    BY <1>2 DEF MainForceIdle, seqVars
  <1>3. CASE MainLoadCommand \/ MainNoCommand \/ MainWriteBack
    BY <1>3 DEF MainLoadCommand, MainNoCommand, MainWriteBack, seqVars
  <1>4. CASE MainAct \/ MainBrake \/ MainStop
    BY <1>4 DEF MainAct, MainBrake, MainStop, seqVars
  <1>5. CASE MainInitFlags \/ MainInitCalib \/ MainInitSeq \/ MainSetDir \/ MainRun
    BY <1>5 DEF MainInitFlags, MainInitCalib, MainInitSeq, MainSetDir, MainRun, seqVars
  <1>6. QED
    BY <1>1, <1>2, <1>3, <1>4, <1>5 DEF Main

\* Every step does, if the host does not calibrate.
LEMMA PoweredStep ==
  ASSUME HostCalibrates = FALSE, TypeOK, Safety, PoweredRun, [ColdNext]_vars
  PROVE  PoweredRun'
  <1>1. CASE AdcIsr \/ AdcSpurious
    BY <1>1, PoweredAdc
  <1>2. CASE Host
    BY <1>2 DEF Host, HostSetsSpeed, HostReverses, HostCalibration, PoweredRun, InitPcs,
                bridgeVars, seqVars, adcVars, mainVars, tmrVars
  <1>3. CASE Tmr3
    BY <1>3, PoweredTmr3
  <1>4. CASE Main /\ (MainForceIdle => fault # {})
    BY <1>4, PoweredMain
  <1>5. CASE UNCHANGED vars
    BY <1>5 DEF vars, PoweredRun, InitPcs, bridgeVars, seqVars, adcVars, mainVars, tmrVars
  <1>6. QED
    BY <1>1, <1>2, <1>3, <1>4, <1>5 DEF ColdNext, Next

\* The inductive invariant of the drive without calibrations.
LEMMA PoweredInvariant ==
  ASSUME HostCalibrates = FALSE
  PROVE  ColdSpec => [](TypeOK /\ Safety /\ PoweredRun)
  <1>1. Init => TypeOK /\ Safety /\ PoweredRun
    <2>1. Init => PoweredRun
      BY DEF Init, PoweredRun
    <2>2. QED
      BY <2>1, InitInvariants
  <1>2. TypeOK /\ Safety /\ PoweredRun /\ [ColdNext]_vars => (TypeOK /\ Safety /\ PoweredRun)'
    <2>1. [ColdNext]_vars => [Next]_vars
      BY DEF ColdNext
    <2>2. QED
      BY <2>1, TypeStep, SafetyStep, PoweredStep
  <1>3. ColdSpec <=> Init /\ [][ColdNext]_vars
    BY DEF ColdSpec, ColdNext
  <1>4. QED
    BY <1>1, <1>2, <1>3, PTL

\* Without calibrations, and unless a fault goes away by itself between main's
\* test of it and main's store of IDLE, every run begins with the bridge off and
\* no vector waiting, whatever faults come and go.
THEOREM ColdStarts ==
  ASSUME HostCalibrates = FALSE
  PROVE  ColdSpec => []ColdStart
  <1>1. TypeOK /\ Safety /\ PoweredRun => ColdStart
    BY DEF Safety, PwmOffImpliesZero, PoweredRun, ColdStart
  <1>2. QED
    BY <1>1, PoweredInvariant, PTL

\* Under the same conditions main writes the direction, by which the outputs of
\* two phases are swapped, only while they are disabled.
THEOREM PhaseOrderHeld ==
  ASSUME HostCalibrates = FALSE
  PROVE  ColdSpec => PhaseOrderChangesOnlyWhenOff
  <1>1. PoweredRun /\ [ColdNext]_vars => [tgtDir' # tgtDir => ~pwmOn]_vars
    <2> SUFFICES ASSUME PoweredRun, ColdNext, tgtDir' # tgtDir
                 PROVE  ~pwmOn
      BY DEF vars, trajVars
    <2>1. ~(AdcIsr \/ AdcSpurious)
      BY DEF AdcIsr, AdcSpurious, AdcOffset, AdcTrip, AdcIdle, AdcCalibrate, AdcRun, AdcStop,
             AdcBegin, notAdcVars
    <2>2. ~(Host \/ Tmr3)
      BY DEF Host, HostSetsSpeed, HostReverses, HostCalibration, trajVars, Tmr3, TmrTick,
             TmrCheckCounts, TmrCheckLoads, TmrCheckStores, TmrReturn, TmrRamp,
             TmrRampedDown, TmrStop, notTmrVars
    <2>3. Main => MainSetDir
      BY DEF Main, MainCheckFault, MainClearCommand, MainForceIdle, MainLoadCommand,
             MainNoCommand, MainWriteBack, MainAct, MainBrake, MainStop, MainInitFlags,
             MainInitCalib, MainInitSeq, MainRun, trajVars
    <2>4. MainSetDir
      BY <2>1, <2>2, <2>3 DEF ColdNext, Next
    <2>5. QED
      BY <2>4 DEF MainSetDir, MainAt, PoweredRun, InitPcs
  <1>2. ColdSpec <=> Init /\ [][ColdNext]_vars
    BY DEF ColdSpec, ColdNext
  <1>3. QED
    BY <1>1, <1>2, PoweredInvariant, PTL DEF PhaseOrderChangesOnlyWhenOff

-----------------------------------------------------------------------------
(***************************************************************************)
(* Descent: what the liveness properties wait for gets nearer.             *)
(***************************************************************************)

\* Main's steps from inside MotorSW_Init to its store of DRV_RUN.
StepsOfInit ==
    IF mpc = "initFlags" THEN 5 ELSE IF mpc = "initCalib" THEN 4
    ELSE IF mpc = "initSeq" THEN 3 ELSE IF mpc = "dir" THEN 2 ELSE 1

\* A zero command stands, and no calibration, which ignores commands, runs.
StopOrdered == cmdRpm = 0 /\ status # "CALIBRATE"

\* Main's steps until there is no run and main is not about to begin one.  The
\* zero may find main past its test of the command, with a whole start before it.
StepsToStop ==
    IF mpc = "act" /\ preCmd # 0 THEN 11
    ELSE IF mpc \in InitPcs THEN 5 + StepsOfInit
    ELSE IF status # "DRV_RUN" THEN 0
    ELSE IF mpc = "brake" THEN 6 ELSE IF mpc = "check" THEN 5
    ELSE IF mpc = "load" THEN 4 ELSE IF mpc = "writeBack" THEN 3
    ELSE IF mpc \in {"act", "clear"} THEN 2 ELSE 1

\* A step of main brings it nearer to the stop.
LEMMA StopMain ==
  ASSUME TypeOK, Safety, StopOrdered, StopOrdered', Main
  PROVE  StepsToStop' <= StepsToStop /\ (StepsToStop > 0 => StepsToStop' < StepsToStop)
  <1> USE DEF StepsToStop, StepsOfInit, InitPcs, StopOrdered, MainAt, MainGoes
  <1>1. CASE MainCheckFault
    BY <1>1 DEF MainCheckFault, cmdVars
  <1>2. CASE MainClearCommand \/ MainForceIdle \/ MainStop
    BY <1>2 DEF MainClearCommand, MainForceIdle, MainStop, cmdVars
  <1>3. CASE MainLoadCommand \/ MainNoCommand
    BY <1>3 DEF MainLoadCommand, MainNoCommand, cmdVars
  <1>4. CASE MainWriteBack
    BY <1>4 DEF MainWriteBack
  <1>5. CASE MainAct
    BY <1>5 DEF MainAct, cmdVars
  <1>6. CASE MainBrake
    BY <1>6 DEF MainBrake, cmdVars
  <1>7. CASE MainInitFlags \/ MainInitCalib \/ MainInitSeq \/ MainSetDir
    BY <1>7 DEF MainInitFlags, MainInitCalib, MainInitSeq, MainSetDir, cmdVars
  <1>8. CASE MainRun
    BY <1>8 DEF MainRun, cmdVars
  <1>9. QED
    BY <1>1, <1>2, <1>3, <1>4, <1>5, <1>6, <1>7, <1>8 DEF Main

\* Nobody else puts the stop off: only main stores DRV_RUN.
LEMMA StopOthers ==
  ASSUME TypeOK, StopOrdered, StopOrdered', [Next]_vars, ~Main
  PROVE  StepsToStop' <= StepsToStop
  <1>1. /\ mpc' = mpc /\ preCmd' = preCmd
        /\ status # "DRV_RUN" => status' # "DRV_RUN"
    <2>1. CASE AdcIsr \/ AdcSpurious
      BY <2>1 DEF AdcIsr, AdcSpurious, AdcOffset, AdcTrip, AdcIdle, AdcCalibrate, AdcRun,
         AdcStop, AdcBegin, StopControl, FastStop, StopOrdered, notAdcVars, cmdVars, mainVars
    <2>2. CASE Host
      BY <2>2 DEF Host, HostSetsSpeed, HostReverses, HostCalibration, cmdVars, mainVars
    <2>3. CASE Tmr3
      BY <2>3 DEF Tmr3, TmrTick, TmrCheckCounts, TmrCheckLoads, TmrCheckStores, TmrReturn,
         TmrRamp, TmrRampedDown, TmrStop, notTmrVars, cmdVars, mainVars
    <2>4. CASE UNCHANGED vars
      BY <2>4 DEF vars, cmdVars, mainVars
    <2>5. QED
      BY <2>1, <2>2, <2>3, <2>4 DEF Next
  <1>2. QED
    BY <1>1 DEF StepsToStop, StepsOfInit, InitPcs

\* With no run left a conversion of a ready drive turns the bridge off.
LEMMA StopSampled ==
  ASSUME TypeOK, StopOrdered, StepsToStop = 0, adcRdy, AdcIsr
  PROVE  ~pwmOn'
  <1>1. status # "DRV_RUN"
    BY DEF StepsToStop, StepsOfInit, InitPcs
  <1>2. QED
    BY <1>1 DEF AdcIsr, AdcOffset, AdcTrip, AdcIdle, AdcCalibrate, AdcRun, AdcStop,
       StopControl, FastStop, StopOrdered

\* What StopHonoured rests on.  As long as a zero command stands, whatever main was
\* doing when it came and whatever the other contexts do, the stop is at most 11 of
\* main's steps away; every one of them brings it nearer, nothing puts it off, and
\* once none is left the next conversion turns the bridge off.
THEOREM StopDescends ==
  Spec => /\ [](StepsToStop \in 0..11)
          /\ [][StopOrdered /\ StopOrdered' =>
                   /\ StepsToStop' <= StepsToStop
                   /\ Main /\ StepsToStop > 0 => StepsToStop' < StepsToStop]_vars
          /\ [][StopOrdered /\ StepsToStop = 0 /\ adcRdy /\ AdcIsr => ~pwmOn']_vars
  <1>1. StepsToStop \in 0..11
    BY DEF StepsToStop, StepsOfInit
  <1>2. TypeOK /\ Safety /\ [Next]_vars =>
          [StopOrdered /\ StopOrdered' =>
             /\ StepsToStop' <= StepsToStop
             /\ Main /\ StepsToStop > 0 => StepsToStop' < StepsToStop]_vars
    BY StopMain, StopOthers
  <1>3. TypeOK /\ Safety /\ [Next]_vars =>
          [StopOrdered /\ StepsToStop = 0 /\ adcRdy /\ AdcIsr => ~pwmOn']_vars
    BY StopSampled
  <1>4. QED
    BY <1>1, <1>2, <1>3, SafetyInvariant, PTL DEF Spec

-----------------------------------------------------------------------------
\* A command other than zero stands before a ready drive without a fault or a
\* calibration, and the motor does not yet run in its direction.
CommandStands ==
    /\ adcRdy /\ fault = {} /\ cmdRpm # 0 /\ status # "CALIBRATE"
    /\ ~(status = "DRV_RUN" /\ cmdDir = tgtDir)

\* What is left of a start-up.
StartupLeft ==
    IF startup = "Initialize" THEN 6 ELSE IF startup = "BscCharge" THEN 5
    ELSE IF startup = "StateDetect" THEN 4 ELSE IF startup = "Align" THEN 3
    ELSE IF startup = "ForceDrive" THEN 2 ELSE IF startup = "CLStart" THEN 1 ELSE 0

\* The calls of Stop_Control that may still find bEnSpdTraj set: as long as it is,
\* TMR3 can store DRV_STOP over the IDLE of a drive that has stopped.
StopsLeft ==
    IF ~enSpdTraj THEN 0
    ELSE IF startup = "Finish" /\ stopSt = "Initialize" THEN 2 ELSE 1

\* Without a run: how often, and by whom, the status can still change before it
\* stays IDLE and main finds it so.
RestPhase ==
    IF StopsLeft # 0
    THEN IF status = "DRV_STOP" THEN 4 * StopsLeft
         ELSE IF tpc = "stop" THEN 4 * StopsLeft + 1 ELSE 4 * StopsLeft + 2
    ELSE IF tpc = "stop" THEN IF status = "DRV_STOP" THEN 3 ELSE 2
         ELSE IF status = "DRV_STOP" THEN 1 ELSE 0

\* Main is about to store a status it has decided on before.
MainStores == mpc \in {"clear", "forceIdle", "stop"}

\* The phases a command goes through, the last one 0: a start-up in the wrong
\* direction (29 to 24), the run in it (23), TMR3 about to stop it (22), a store of
\* main's that is late (from 11), and the stops before the restart.
CommandPhase ==
    IF status = "DRV_RUN"
    THEN IF tpc = "stop" THEN 22 ELSE IF BreakEnable THEN 23 ELSE 23 + StartupLeft
    ELSE IF MainStores THEN 11 + RestPhase ELSE RestPhase

\* Main's steps to its store of DRV_STOP over a run in the wrong direction.
StepsToBrake ==
    IF mpc = "check" THEN 6 ELSE IF mpc = "load" THEN 5 ELSE IF mpc = "writeBack" THEN 4
    ELSE IF mpc = "act" THEN 3 ELSE IF mpc = "brake" THEN 2 ELSE 1

\* Main's steps to its store of DRV_RUN over a status that is IDLE.
StepsToRun ==
    IF mpc = "brake" \/ (mpc = "act" /\ preCmd = 0) THEN 10
    ELSE IF mpc = "check" THEN 9 ELSE IF mpc = "load" THEN 8
    ELSE IF mpc = "writeBack" THEN 7 ELSE IF mpc = "act" THEN 6 ELSE StepsOfInit

\* What is left of a phase: main's steps, or the speed that has to go.
LeftInPhase ==
    IF status = "DRV_RUN"
    THEN IF tpc = "stop" THEN 0
         ELSE IF BreakEnable THEN StepsToBrake
         ELSE IF startup = "Finish" /\ tgtWr >= WrMaxStep THEN tgtWr ELSE 0
    ELSE IF MainStores \/ status = "DRV_STOP" \/ tpc = "stop" THEN 0 ELSE StepsToRun

\* The step each phase waits for; each is an action the fairness speaks of.
WaitsForMain ==
    IF status = "DRV_RUN" THEN tpc # "stop" /\ BreakEnable
    ELSE MainStores \/ (status # "DRV_STOP" /\ tpc # "stop")

WaitsForTmr3 ==
    tpc = "stop" /\ (status = "DRV_RUN" \/ (status # "DRV_STOP" /\ ~MainStores))

WaitsForRamp ==
    status = "DRV_RUN" /\ tpc # "stop" /\ ~BreakEnable /\ startup = "Finish"

WaitsForStartup ==
    status = "DRV_RUN" /\ tpc # "stop" /\ ~BreakEnable /\ startup # "Finish"

WaitsForSample == status = "DRV_STOP" /\ ~MainStores

AwaitedStep ==
    \/ WaitsForMain /\ Main
    \/ WaitsForTmr3 /\ Tmr3
    \/ WaitsForRamp /\ (TmrRamp \/ TmrRampedDown)
    \/ WaitsForStartup /\ AdcIsr /\ startup' # startup
    \/ WaitsForSample /\ AdcIsr

Nearer == \/ CommandPhase' < CommandPhase
          \/ CommandPhase' = CommandPhase /\ LeftInPhase' < LeftInPhase

NoFurther == \/ CommandPhase' < CommandPhase
             \/ CommandPhase' = CommandPhase /\ LeftInPhase' <= LeftInPhase

\* When main is about to store DRV_RUN the direction of the run is the command's:
\* nobody else writes either.
DirectionTaken == mpc = "run" => tgtDir = cmdDir

LEMMA DirectionStep == DirectionTaken /\ [Next]_vars => DirectionTaken'
  <1> SUFFICES ASSUME DirectionTaken, [Next]_vars PROVE DirectionTaken'
    OBVIOUS
  <1> USE DEF DirectionTaken
  <1>1. CASE AdcIsr \/ AdcSpurious
    BY <1>1 DEF AdcIsr, AdcSpurious, AdcOffset, AdcTrip, AdcIdle, AdcCalibrate, AdcRun,
       AdcStop, AdcBegin, notAdcVars, cmdVars, mainVars
  <1>2. CASE Host \/ Tmr3
    BY <1>2 DEF Host, HostSetsSpeed, HostReverses, HostCalibration, Tmr3, TmrTick,
       TmrCheckCounts, TmrCheckLoads, TmrCheckStores, TmrReturn, TmrRamp, TmrRampedDown,
       TmrStop, notTmrVars, trajVars, cmdVars, mainVars
  <1>3. CASE Main
    <2>1. mpc' = "run" => MainSetDir
      BY <1>3 DEF Main, MainGoes, MainCheckFault, MainClearCommand, MainForceIdle,
         MainLoadCommand, MainNoCommand, MainWriteBack, MainAct, MainBrake, MainStop,
         MainInitFlags, MainInitCalib, MainInitSeq, MainRun
    <2>2. QED
      BY <2>1 DEF MainSetDir, cmdVars
  <1>4. CASE UNCHANGED vars
    BY <1>4 DEF vars, trajVars, cmdVars, mainVars
  <1>5. QED
    BY <1>1, <1>2, <1>3, <1>4 DEF Next

\* Where the phases lie.
PhaseRanges ==
  /\ StopsLeft \in 0..2 /\ StartupLeft \in 0..6 /\ RestPhase \in 0..10
  /\ status = "DRV_RUN" => CommandPhase \in 22..29
  /\ status = "DRV_RUN" /\ tpc # "stop" /\ ~BreakEnable => CommandPhase = 23 + StartupLeft
  /\ status # "DRV_RUN" /\ MainStores  => CommandPhase = 11 + RestPhase
  /\ status # "DRV_RUN" /\ ~MainStores => CommandPhase = RestPhase
  /\ TypeOK => LeftInPhase \in Nat

LEMMA Phases == PhaseRanges
  <1>1. StopsLeft \in 0..2 /\ StartupLeft \in 0..6
    BY DEF StopsLeft, StartupLeft
  <1>2. RestPhase \in 0..10
    BY <1>1 DEF RestPhase
  <1>3. TypeOK => LeftInPhase \in Nat
    <2> SUFFICES ASSUME TypeOK PROVE LeftInPhase \in Nat
      OBVIOUS
    <2>1. StepsToBrake \in Nat /\ StepsToRun \in Nat
      BY DEF StepsToBrake, StepsToRun, StepsOfInit
    <2>2. tgtWr >= WrMaxStep => tgtWr \in Nat
      BY SpeedAssumption DEF TypeOK, NumbersTypeOK
    <2>3. QED
      BY <2>1, <2>2 DEF LeftInPhase
  <1>4. QED
    BY <1>1, <1>2, <1>3 DEF PhaseRanges, CommandPhase

LEMMA PhasesNext == PhaseRanges'
  BY Phases, PTL

\* A step of main.
LEMMA CommandMain ==
  ASSUME TypeOK, TypeOK', Safety, DirectionTaken, CommandStands, CommandStands', Main
  PROVE  NoFurther /\ (WaitsForMain => Nearer)
  <1> USE Phases, PhasesNext DEF NoFurther, Nearer, PhaseRanges
  <1>0. tpc = "idle" /\ tpc' = "idle"
    BY DEF Main, MainCheckFault, MainClearCommand, MainForceIdle, MainLoadCommand,
           MainNoCommand, MainWriteBack, MainAct, MainBrake, MainStop, MainInitFlags,
           MainInitCalib, MainInitSeq, MainSetDir, MainRun, MainAt, notMainVars, tmrVars
  <1>1. CASE \/ MainCheckFault \/ MainLoadCommand \/ MainNoCommand \/ MainWriteBack
             \/ MainAct \/ MainBrake
    <2>1. /\ UNCHANGED <<loopVars, seqVars>>
          /\ status' = status /\ tgtWr' = tgtWr /\ tgtDir' = tgtDir
      BY <1>1 DEF MainCheckFault, MainLoadCommand, MainNoCommand, MainWriteBack, MainAct,
         MainBrake, trajVars
    <2>2. StopsLeft' = StopsLeft /\ StartupLeft' = StartupLeft /\ startup' = startup
      BY <2>1 DEF StopsLeft, StartupLeft, loopVars, seqVars
    <2>3. RestPhase' = RestPhase
      BY <1>0, <2>1, <2>2 DEF RestPhase
    <2>4. status = "DRV_RUN" => CommandPhase' = CommandPhase
      BY <1>0, <2>1, <2>2 DEF CommandPhase
    <2>5. status # "DRV_RUN" => CommandPhase' = CommandPhase /\ MainStores' = MainStores
      <3> SUFFICES ASSUME status # "DRV_RUN" PROVE MainStores' = MainStores
        BY <2>1, <2>3 DEF CommandPhase
      <3>1. mpc \notin {"clear", "forceIdle", "stop"}
        BY <1>1 DEF MainCheckFault, MainLoadCommand, MainNoCommand, MainWriteBack, MainAct,
           MainBrake, MainAt
      <3>2. mpc' \notin {"clear", "forceIdle", "stop"}
        BY <1>1 DEF MainCheckFault, MainLoadCommand, MainNoCommand, MainWriteBack, MainAct,
           MainBrake, MainGoes, CommandStands
      <3>3. QED
        BY <3>1, <3>2 DEF MainStores
    <2>6. CASE status = "DRV_RUN"
      <3>1. BreakEnable => StepsToBrake' < StepsToBrake
        <4> USE DEF StepsToBrake, MainAt, MainGoes, CommandStands
        <4>1. CASE MainCheckFault \/ MainLoadCommand \/ MainNoCommand \/ MainWriteBack
          BY <4>1 DEF MainCheckFault, MainLoadCommand, MainNoCommand, MainWriteBack
        <4>2. CASE MainAct
          BY <4>2, <2>6 DEF MainAct
        <4>3. CASE MainBrake
          BY <4>3, <2>6, <2>1 DEF MainBrake
        <4>4. QED
          BY <1>1, <4>1, <4>2, <4>3
      <3>2. QED
        <4>1. CommandPhase' = CommandPhase
          BY <2>4, <2>6
        <4>2. CASE BreakEnable
          <5>1. LeftInPhase' < LeftInPhase
            BY <1>0, <2>1, <2>6, <3>1, <4>2 DEF LeftInPhase
          <5>2. QED
            BY <4>1, <5>1
        <4>3. CASE ~BreakEnable
          <5>1. LeftInPhase' = LeftInPhase /\ ~WaitsForMain /\ LeftInPhase \in Int
            BY <1>0, <2>1, <2>2, <2>6, <4>3 DEF LeftInPhase, WaitsForMain, TypeOK, NumbersTypeOK
          <5>2. QED
            BY <4>1, <5>1
        <4>4. QED
          BY <4>2, <4>3
    <2>7. CASE status # "DRV_RUN"
      <3>1. CASE WaitsForMain /\ ~MainStores
        <4>0. status = "IDLE"
          BY <1>0, <2>7, <3>1 DEF WaitsForMain, CommandStands, TypeOK, Statuses
        <4>1. StepsToRun' < StepsToRun
          <5> USE DEF StepsToRun, StepsOfInit, MainAt, MainGoes, CommandStands
          <5>1. CASE MainCheckFault
            BY <5>1 DEF MainCheckFault
          <5>2. CASE MainLoadCommand \/ MainNoCommand
            BY <5>2 DEF MainLoadCommand, MainNoCommand, cmdVars
          <5>3. CASE MainWriteBack
            BY <5>3 DEF MainWriteBack
          <5>4. CASE MainAct
            BY <5>4, <4>0 DEF MainAct
          <5>5. CASE MainBrake
            BY <5>5, <2>7, <2>1 DEF MainBrake
          <5>6. QED
            BY <1>1, <5>1, <5>2, <5>3, <5>4, <5>5
        <4>2. LeftInPhase' = StepsToRun' /\ LeftInPhase = StepsToRun
          BY <1>0, <2>1, <2>5, <2>7, <3>1, <4>0 DEF LeftInPhase
        <4>3. LeftInPhase' < LeftInPhase
          BY <4>1, <4>2
        <4>4. QED
          BY <2>5, <2>7, <4>3
      <3>2. CASE ~(WaitsForMain /\ ~MainStores)
        <4>1. ~MainStores
          BY <1>1 DEF MainStores, MainCheckFault, MainLoadCommand, MainNoCommand,
             MainWriteBack, MainAct, MainBrake, MainAt
        <4>2. LeftInPhase = 0 /\ LeftInPhase' = 0
          BY <1>0, <2>1, <2>7, <3>2, <4>1 DEF WaitsForMain, LeftInPhase
        <4>3. QED
          BY <2>5, <2>7, <3>2, <4>1, <4>2
      <3>3. QED
        BY <3>1, <3>2
    <2>8. QED
      BY <2>6, <2>7
  <1>2. CASE MainForceIdle \/ MainStop
    <2>1. status' # "DRV_RUN" /\ ~MainStores' /\ MainStores
      BY <1>2 DEF MainForceIdle, MainStop, MainStores, MainAt, MainGoes
    <2>2. QED
      BY <2>1
  <1>3. CASE MainInitFlags \/ MainInitCalib \/ MainInitSeq \/ MainSetDir
    <2>1. /\ ~enSpdTraj' /\ status' = status /\ status # "DRV_RUN"
          /\ mpc # "initFlags" => ~enSpdTraj
      BY <1>3 DEF MainInitFlags, MainInitCalib, MainInitSeq, MainSetDir, MainAt, loopVars,
         Safety, StartPrepared
    <2>2. \/ mpc = "initFlags" /\ mpc' = "initCalib"
          \/ mpc = "initCalib" /\ mpc' = "initSeq"
          \/ mpc = "initSeq" /\ mpc' = "dir"
          \/ mpc = "dir" /\ mpc' = "run"
      BY <1>3 DEF MainInitFlags, MainInitCalib, MainInitSeq, MainSetDir, MainAt, MainGoes
    <2>3. ~MainStores /\ ~MainStores'
      BY <2>2 DEF MainStores
    <2>4. RestPhase' <= RestPhase
      <3>1. StopsLeft' = 0
        BY <2>1 DEF StopsLeft
      <3>2. QED
        BY <1>0, <2>1, <3>1 DEF RestPhase
    <2>5. StepsToRun' < StepsToRun
      BY <2>2 DEF StepsToRun, StepsOfInit
    <2>6. \/ LeftInPhase' < LeftInPhase
          \/ ~WaitsForMain /\ LeftInPhase' = LeftInPhase
      BY <1>0, <2>1, <2>3, <2>5 DEF LeftInPhase, WaitsForMain
    <2>7. CommandPhase = RestPhase /\ CommandPhase' = RestPhase'
      BY <2>1, <2>3
    <2>8. QED
      BY <2>4, <2>6, <2>7
  <1>4. ~MainRun
    BY DEF MainRun, DirectionTaken, trajVars, cmdVars, MainAt, CommandStands
  <1>5. ~MainClearCommand
    BY DEF MainClearCommand, CommandStands
  <1>6. QED
    BY <1>1, <1>2, <1>3, <1>4, <1>5 DEF Main

\* A step of the ADC interrupt.
LEMMA CommandSample ==
  ASSUME TypeOK, TypeOK', CommandStands, CommandStands', AdcIsr
  PROVE  /\ NoFurther
         /\ WaitsForSample => Nearer
         /\ WaitsForStartup /\ startup' # startup => Nearer
  <1> USE Phases, PhasesNext DEF NoFurther, Nearer, PhaseRanges
  <1>0. /\ AdcIdle \/ AdcRun \/ AdcStop
        /\ mpc' = mpc /\ preCmd' = preCmd /\ tpc' = tpc /\ MainStores' = MainStores
    <2>1. AdcIdle \/ AdcRun \/ AdcStop
      BY DEF AdcIsr, AdcOffset, AdcTrip, AdcCalibrate, CommandStands
    <2>2. QED
      BY <2>1 DEF AdcIdle, AdcRun, AdcStop, AdcBegin, notAdcVars, cmdVars, mainVars, tmrVars,
         MainStores
  <1>1. CASE AdcIdle
    <2>1. UNCHANGED <<startup, stopSt, enSpdTraj, tgtWr>> /\ status = "IDLE" /\ status' = "IDLE"
      BY <1>1 DEF AdcIdle, FastStop, seqVars
    <2>2. RestPhase' = RestPhase /\ LeftInPhase' = LeftInPhase
      BY <1>0, <2>1 DEF RestPhase, StopsLeft, LeftInPhase, StepsToRun, StepsOfInit
    <2>3. CommandPhase' = CommandPhase
      BY <1>0, <2>1, <2>2 DEF CommandPhase
    <2>4. ~WaitsForSample /\ ~WaitsForStartup
      BY <2>1 DEF WaitsForSample, WaitsForStartup
    <2>5. QED
      BY <2>2, <2>3, <2>4
  <1>2. CASE AdcStop
    <2>1. /\ startup' = startup /\ status = "DRV_STOP" /\ status' = "IDLE" /\ stopSt' = "Finish"
          /\ enSpdTraj' = IF startup = "Finish" /\ stopSt = "Initialize"
                          THEN enSpdTraj ELSE FALSE
      BY <1>2 DEF AdcStop, StopControl, FastStop
    <2>2. StopsLeft = 2 => StopsLeft' = 1
      BY <2>1 DEF StopsLeft
    <2>3. StopsLeft \in {0, 1} => StopsLeft' = 0
      BY <2>1 DEF StopsLeft, TypeOK
    <2>4. RestPhase' < RestPhase
      <3>1. CASE StopsLeft = 2
        BY <1>0, <2>1, <2>2, <3>1 DEF RestPhase
      <3>2. CASE StopsLeft = 1
        BY <1>0, <2>1, <2>3, <3>2 DEF RestPhase
      <3>3. CASE StopsLeft = 0
        BY <1>0, <2>1, <2>3, <3>3 DEF RestPhase
      <3>4. QED
        BY <3>1, <3>2, <3>3
    <2>5. status # "DRV_RUN" /\ status' # "DRV_RUN"
      BY <2>1
    <2>6. CommandPhase' < CommandPhase
      BY <1>0, <2>4, <2>5
    <2>7. QED
      BY <2>6
  <1>3. CASE AdcRun
    <2>1. status = "DRV_RUN" /\ status' = "DRV_RUN"
      BY <1>3 DEF AdcRun
    <2>2. /\ startup' # startup => StartupLeft' < StartupLeft
          /\ startup = "Finish" => startup' = "Finish" /\ tgtWr' = tgtWr
      BY <1>3 DEF AdcRun, StartupControl, StartupLeft
    <2>3. StepsToBrake' = StepsToBrake
      BY <1>0 DEF StepsToBrake
    <2>4. CASE tpc = "stop" \/ BreakEnable
      <3>1. CommandPhase' = CommandPhase /\ LeftInPhase' = LeftInPhase
        BY <1>0, <2>1, <2>3, <2>4 DEF CommandPhase, LeftInPhase
      <3>2. ~WaitsForSample /\ ~WaitsForStartup
        BY <2>1, <2>4 DEF WaitsForSample, WaitsForStartup
      <3>3. QED
        BY <3>1, <3>2
    <2>5. CASE ~(tpc = "stop" \/ BreakEnable)
      <3>1. CASE startup' = startup
        <4>1. StartupLeft' = StartupLeft
          BY <3>1 DEF StartupLeft
        <4>2. CommandPhase' = CommandPhase
          BY <1>0, <2>1, <2>5, <4>1 DEF CommandPhase
        <4>3. LeftInPhase' = LeftInPhase
          BY <1>0, <2>1, <2>2, <2>5, <3>1 DEF LeftInPhase
        <4>4. ~WaitsForSample
          BY <2>1 DEF WaitsForSample
        <4>5. QED
          BY <3>1, <4>2, <4>3, <4>4
      <3>2. CASE startup' # startup
        <4>1. CommandPhase' < CommandPhase
          BY <1>0, <2>1, <2>2, <2>5, <3>2
        <4>2. QED
          BY <4>1
      <3>3. QED
        BY <3>1, <3>2
    <2>6. QED
      BY <2>4, <2>5
  <1>4. QED
    BY <1>0, <1>1, <1>2, <1>3

\* A step of TMR3.
LEMMA CommandTmr3 ==
  ASSUME TypeOK, TypeOK', CommandStands, CommandStands', Tmr3
  PROVE  /\ NoFurther
         /\ WaitsForTmr3 => Nearer
         /\ WaitsForRamp /\ (TmrRamp \/ TmrRampedDown) => Nearer
  <1> USE Phases, PhasesNext DEF NoFurther, Nearer, PhaseRanges
  <1>0. /\ UNCHANGED <<startup, stopSt, enSpdTraj, mpc, preCmd>>
        /\ MainStores' = MainStores /\ StopsLeft' = StopsLeft /\ StartupLeft' = StartupLeft
        /\ StepsToBrake' = StepsToBrake /\ StepsToRun' = StepsToRun
        /\ tpc # "stop" => status' = status
    <2>1. UNCHANGED <<startup, stopSt, enSpdTraj, mpc, preCmd>> /\ (tpc # "stop" => status' = status)
      BY DEF Tmr3, TmrTick, TmrCheckCounts, TmrCheckLoads, TmrCheckStores, TmrReturn, TmrRamp,
         TmrRampedDown, TmrStop, notTmrVars, seqVars, loopVars, cmdVars, mainVars
    <2>2. QED
      BY <2>1 DEF MainStores, StopsLeft, StartupLeft, StepsToBrake, StepsToRun, StepsOfInit
  <1>1. CASE /\ TmrTick \/ TmrCheckCounts \/ TmrCheckLoads \/ TmrCheckStores \/ TmrReturn
             /\ ~TmrRamp /\ ~TmrRampedDown
    <2>1. /\ tpc # "stop" /\ tpc' # "stop" /\ UNCHANGED <<status, tgtWr>>
      BY <1>1 DEF TmrTick, TmrCheckCounts, TmrCheckLoads, TmrCheckStores, TmrReturn,
         TmrReturns, ChecksDone
    <2>2. RestPhase' = RestPhase
      BY <1>0, <2>1 DEF RestPhase
    <2>3. CommandPhase' = CommandPhase
      BY <1>0, <2>1, <2>2 DEF CommandPhase
    <2>4. LeftInPhase' = LeftInPhase
      BY <1>0, <2>1 DEF LeftInPhase
    <2>5. ~WaitsForTmr3
      BY <2>1 DEF WaitsForTmr3
    <2>6. QED
      BY <1>1, <2>3, <2>4, <2>5
  <1>2. CASE TmrRamp
    <2>1. tpc # "stop" /\ tpc' # "stop" /\ status' = status
      BY <1>2 DEF TmrRamp, TmrReturns, ChecksDone
    <2>2. RestPhase' = RestPhase
      BY <1>0, <2>1 DEF RestPhase
    <2>3. CommandPhase' = CommandPhase
      BY <1>0, <2>1, <2>2 DEF CommandPhase
    <2>4. ~WaitsForTmr3
      BY <2>1 DEF WaitsForTmr3
    <2>5. CASE WaitsForRamp
      <3>1. Reversing
        BY <2>5 DEF WaitsForRamp, Reversing, CommandStands
      <3>2. /\ tgtWr >= WrMaxStep /\ tgtWr' = Clip(tgtWr - WrMaxStep, MaxWr)
            /\ tgtWr \in Int /\ tgtWr' \in Int
        BY <1>2, <3>1, SpeedAssumption DEF TmrRamp, TypeOK, NumbersTypeOK
      <3>3. 0 <= tgtWr' /\ tgtWr' < tgtWr
        BY <3>2, SpeedAssumption DEF Clip
      <3>4. LeftInPhase = tgtWr
        BY <2>5, <3>2 DEF LeftInPhase, WaitsForRamp
      <3>5. LeftInPhase' = IF tgtWr' >= WrMaxStep THEN tgtWr' ELSE 0
        BY <1>0, <2>1, <2>5 DEF LeftInPhase, WaitsForRamp
      <3>6. LeftInPhase' < LeftInPhase
        BY <3>2, <3>3, <3>4, <3>5, SpeedAssumption
      <3>7. QED
        BY <2>3, <2>4, <3>6
    <2>6. CASE ~WaitsForRamp
      <3>1. LeftInPhase' = LeftInPhase
        <4>1. CASE status = "DRV_RUN"
          <5>1. BreakEnable \/ startup # "Finish"
            BY <2>1, <2>6, <4>1 DEF WaitsForRamp
          <5>2. QED
            BY <1>0, <2>1, <4>1, <5>1 DEF LeftInPhase
        <4>2. CASE status # "DRV_RUN"
          BY <1>0, <2>1, <4>2 DEF LeftInPhase
        <4>3. QED
          BY <4>1, <4>2
      <3>2. QED
        BY <2>3, <2>4, <2>6, <3>1
    <2>7. QED
      BY <2>5, <2>6
  <1>3. CASE TmrRampedDown
    <2>1. tpc # "stop" /\ tpc' = "stop" /\ status' = status /\ enSpdTraj
      BY <1>3 DEF TmrRampedDown, ChecksDone
    <2>2. ~WaitsForTmr3
      BY <2>1 DEF WaitsForTmr3
    <2>3. CASE status = "DRV_RUN"
      <3>1. CommandPhase = (IF BreakEnable THEN 23 ELSE 23 + StartupLeft) /\ CommandPhase' = 22
        BY <2>1, <2>3 DEF CommandPhase
      <3>2. QED
        BY <2>2, <3>1
    <2>4. CASE status # "DRV_RUN"
      <3>1. StopsLeft \in {1, 2} /\ StopsLeft' = StopsLeft
        BY <1>0, <2>1 DEF StopsLeft
      <3>2. \/ status = "DRV_STOP" /\ RestPhase' = RestPhase
            \/ status # "DRV_STOP" /\ RestPhase' < RestPhase
        BY <2>1, <3>1 DEF RestPhase
      <3>3. \/ status = "DRV_STOP" /\ CommandPhase' = CommandPhase
            \/ status # "DRV_STOP" /\ CommandPhase' < CommandPhase
        BY <1>0, <2>1, <2>4, <3>2
      <3>4. status = "DRV_STOP" => LeftInPhase' = LeftInPhase
        BY <2>1, <2>4 DEF LeftInPhase
      <3>5. ~WaitsForRamp
        BY <2>4 DEF WaitsForRamp
      <3>6. QED
        BY <2>2, <3>3, <3>4, <3>5
    <2>5. QED
      BY <2>3, <2>4
  <1>4. CASE TmrStop
    <2>1. tpc = "stop" /\ tpc' # "stop" /\ status' = "DRV_STOP"
      BY <1>4 DEF TmrStop, TmrReturns
    <2>2. ~WaitsForRamp
      BY <2>1 DEF WaitsForRamp
    <2>3. CASE status = "DRV_RUN"
      <3>1. CommandPhase = 22 /\ CommandPhase' < 22
        <4>1. CommandPhase = 22
          BY <2>1, <2>3 DEF CommandPhase
        <4>2. status' # "DRV_RUN"
          BY <2>1
        <4>3. CommandPhase' \in 11..21 \/ CommandPhase' = RestPhase'
          BY <4>2
        <4>4. QED
          BY <4>1, <4>3
      <3>2. QED
        BY <2>2, <3>1
    <2>4. CASE status # "DRV_RUN"
      <3>1. \/ status = "DRV_STOP" /\ RestPhase' <= RestPhase
            \/ status # "DRV_STOP" /\ RestPhase' < RestPhase
        BY <1>0, <2>1 DEF RestPhase
      <3>2. \/ status = "DRV_STOP" /\ CommandPhase' <= CommandPhase
            \/ status # "DRV_STOP" /\ CommandPhase' < CommandPhase
        BY <1>0, <2>1, <2>4, <3>1
      <3>3. status = "DRV_STOP" => LeftInPhase' = LeftInPhase /\ ~WaitsForTmr3
        BY <2>1, <2>4 DEF LeftInPhase, WaitsForTmr3
      <3>4. CommandPhase \in Int /\ CommandPhase' \in Int
        BY <2>4, <2>1
      <3>5. QED
        BY <2>2, <3>2, <3>3, <3>4
    <2>5. QED
      BY <2>3, <2>4
  <1>5. QED
    BY <1>1, <1>2, <1>3, <1>4 DEF Tmr3

\* The host may change the command, and moves nothing else.
LEMMA CommandHost ==
  ASSUME TypeOK, CommandStands, CommandStands', Host \/ UNCHANGED vars
  PROVE  NoFurther
  <1>1. UNCHANGED <<status, startup, stopSt, enSpdTraj, tgtWr, mpc, preCmd, tpc>>
    <2>1. ~HostCalibration
      BY DEF HostCalibration, CommandStands
    <2>2. CASE HostSetsSpeed \/ HostReverses
      BY <2>2 DEF HostSetsSpeed, HostReverses, seqVars, loopVars, trajVars, mainVars, tmrVars
    <2>3. CASE UNCHANGED vars
      BY <2>3 DEF vars, seqVars, loopVars, trajVars, cmdVars, mainVars, tmrVars
    <2>4. QED
      BY <2>1, <2>2, <2>3 DEF Host
  <1>2. MainStores' = MainStores /\ StopsLeft' = StopsLeft /\ StartupLeft' = StartupLeft
    BY <1>1 DEF MainStores, StopsLeft, StartupLeft
  <1>3. StepsToBrake' = StepsToBrake /\ StepsToRun' = StepsToRun
    BY <1>1 DEF StepsToBrake, StepsToRun, StepsOfInit
  <1>4. RestPhase' = RestPhase
    BY <1>1, <1>2 DEF RestPhase
  <1>5. CommandPhase' = CommandPhase
    BY <1>1, <1>2, <1>4 DEF CommandPhase
  <1>6. LeftInPhase' = LeftInPhase
    BY <1>1, <1>2, <1>3 DEF LeftInPhase
  <1>7. LeftInPhase \in Nat
    BY Phases DEF PhaseRanges
  <1>8. QED
    BY <1>5, <1>6, <1>7 DEF NoFurther

\* What ReversalCompletes rests on, for a start as well as for a reversal.  As long as
\* a command stands that the motor does not follow, every phase waits for one of the
\* contexts; the step waited for brings the run in its direction nearer, by a phase or
\* within one, and no step of any context, late stores of main and TMR3 among them,
\* puts it off.  There is a bounded number of phases.
THEOREM ReversalDescends ==
  Spec => /\ [](CommandPhase \in 0..29 /\ LeftInPhase \in Nat)
          /\ [](CommandStands => \/ WaitsForMain \/ WaitsForTmr3 \/ WaitsForRamp
                                 \/ WaitsForStartup \/ WaitsForSample)
          /\ [][CommandStands /\ CommandStands' => NoFurther /\ (AwaitedStep => Nearer)]_vars
  <1>1. TypeOK => CommandPhase \in 0..29 /\ LeftInPhase \in Nat
    BY Phases DEF PhaseRanges
  <1>2. TypeOK => (CommandStands => \/ WaitsForMain \/ WaitsForTmr3 \/ WaitsForRamp
                                    \/ WaitsForStartup \/ WaitsForSample)
    BY DEF TypeOK, Statuses, WaitsForMain, WaitsForTmr3, WaitsForRamp, WaitsForStartup,
           WaitsForSample
  <1>3. /\ TypeOK /\ Safety /\ DirectionTaken /\ (TypeOK /\ Safety /\ DirectionTaken)'
        /\ [Next]_vars
        => [CommandStands /\ CommandStands' => NoFurther /\ (AwaitedStep => Nearer)]_vars
    <2> SUFFICES ASSUME TypeOK, TypeOK', Safety, DirectionTaken, [Next]_vars, CommandStands,
                        CommandStands'
                 PROVE  NoFurther /\ (AwaitedStep => Nearer)
      OBVIOUS
    <2>1. ~AdcSpurious
      BY DEF AdcSpurious, CommandStands
    <2>2. NoFurther
      BY <2>1, CommandMain, CommandSample, CommandTmr3, CommandHost DEF Next
    <2>3. AwaitedStep => Nearer
      <3>1. TmrRamp \/ TmrRampedDown => Tmr3
        BY DEF Tmr3
      <3>2. WaitsForMain /\ Main => Nearer
        BY CommandMain
      <3>3. WaitsForTmr3 /\ Tmr3 => Nearer
        BY CommandTmr3
      <3>4. WaitsForRamp /\ (TmrRamp \/ TmrRampedDown) => Nearer
        BY <3>1, CommandTmr3
      <3>5. WaitsForStartup /\ AdcIsr /\ startup' # startup => Nearer
        BY CommandSample
      <3>6. WaitsForSample /\ AdcIsr => Nearer
        BY CommandSample
      <3>7. QED
        BY <3>2, <3>3, <3>4, <3>5, <3>6 DEF AwaitedStep
    <2>4. QED
      BY <2>2, <2>3
  <1>4. Spec => []DirectionTaken
    <2>1. Init => DirectionTaken
      BY DEF Init, DirectionTaken
    <2>2. QED
      BY <2>1, DirectionStep, PTL DEF Spec
  <1>5. QED
    BY <1>1, <1>2, <1>3, <1>4, SafetyInvariant, PTL DEF Spec
=============================================================================
