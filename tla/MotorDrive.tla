----------------------------- MODULE MotorDrive -----------------------------
(***************************************************************************)
(* The drive core of the firmware: who may turn the three-phase bridge on  *)
(* and off, and in which order.  Four execution contexts share             *)
(* MotorRunPara, MotorStartup, MotorStopCtrl, MotorCalibCtrl and           *)
(* MotorCmdSpdSet without any critical section:                            *)
(*                                                                         *)
(*   main loop   Speed_CmdSpdSet, polled for ever, lowest priority;        *)
(*   TMR3 ISR    Motor_SysTickerIsrHandler, preempts main;                 *)
(*   ADC ISR     Adc_CheckOffset, then Motor_MainIsrHandler, preempts main *)
(*               and TMR3;                                                 *)
(*   USB ISR     parse_frame, same priority as the ADC ISR.                *)
(*                                                                         *)
(* The ADC and USB handlers cannot be interrupted, so each is one step.    *)
(* TMR3 and main are cut at their accesses to words that a handler of      *)
(* higher priority reads or writes.  TMR3 returns before main goes on.     *)
(*                                                                         *)
(* Abstracted: currents, voltages and angles (a PWM vector is "zero" or    *)
(* "vec"), and the counters that only delay an exit (the exit is a choice; *)
(* fairness says it comes).  A speed is an integer in command units.       *)
(***************************************************************************)
EXTENDS Integers, Sequences

CONSTANTS
    ObserverType,   \* MotorCfg.i32ObserverType
    BreakEnable,    \* MotorCfg.i32BreakEnable
    MinRpm,         \* MotorCfg.i32MinSpeedRpm
    MaxWr,          \* MotorSpdCtrl.f32_MaxWr
    WrMaxStep,      \* MotorSpdCtrl.f32_WrMaxStep
    WrEstimates,    \* speeds an observer may report when the loop closes
    HostRpms,       \* speeds the host may send (frames 0x01, 0x02, 0x15)
    HostCalibrates, \* whether the host may send the calibration frame 0x03
    VbusChecks,     \* the checks of Prot_MonitorVbus, in order
    IsrFaults       \* faults the ADC interrupt may raise in this instance

Observers     == {"ENCODER", "SMO", "FLUX", "HFI", "HFI_SMO", "HFI_FLUX"}
VbusFaults    == {"OV", "UV", "ABNORM"}
AdcFaults     == {"AD_OFFSET", "OC_PEAK", "UNDEF_INT"}

ASSUME ObserverAssumption == ObserverType \in Observers
ASSUME ConfigAssumption   == /\ BreakEnable \in BOOLEAN
                             /\ HostCalibrates \in BOOLEAN
ASSUME SpeedAssumption    == /\ MinRpm \in Nat \ {0}
                             /\ MaxWr \in Nat
                             /\ WrMaxStep \in Nat \ {0}
                             /\ WrEstimates \subseteq Int
                             /\ HostRpms \subseteq Int
ASSUME FaultAssumption    == /\ VbusChecks \in Seq(VbusFaults)
                             /\ IsrFaults \subseteq AdcFaults

VARIABLES
    status,    \* MotorRunPara.u32MotorStatus
    fault,     \* MotorRunPara.u32FaultCode, as the set of its bits
    pwmOn,     \* the channel enables of TMR1
    duty,      \* the compare registers of TMR1
    svpwm,     \* MotorSvpwm.u16Uon, u16Von, u16Won
    enSpdPid, enSpdTraj, enCurPid,   \* MotorRunPara.bEn...
    startup,   \* MotorStartup.status
    stopSt,    \* MotorStopCtrl.Status
    calib,     \* MotorCalibCtrl.e_CalibStep
    outType,   \* MotorCalibCtrl.i32_OutputType
    tgtDir,    \* MotorRunPara.i32TgtWrDir
    tgtWr,     \* MotorSpdCtrl.f32_TgtWr
    cmdRpm,    \* MotorCmdSpdSet.i32CmdRpm
    preCmd,    \* MotorCmdSpdSet.i32PreCmdRpm
    cmdDir,    \* MotorRunPara.i32CmdWrDir
    cmdWr,     \* MotorRunPara.f32_CmdWr
    adcRdy,    \* MotorAdcSample.bAdcRdy
    sampled,   \* a conversion interrupt has run since TMR3 last returned
    mpc, mreg, \* main: next statement, the command it has loaded
    tpc, ti, treg \* TMR3: next statement, index of the Vbus check, the fault
                  \* word it is about to store

bridgeVars == <<pwmOn, duty, svpwm>>
loopVars   == <<enSpdPid, enSpdTraj, enCurPid>>
seqVars    == <<startup, stopSt>>
calVars    == <<calib, outType>>
trajVars   == <<tgtDir, tgtWr>>
cmdVars    == <<cmdRpm, preCmd, cmdDir, cmdWr>>
adcVars    == <<adcRdy, sampled>>
mainVars   == <<mpc, mreg>>
tmrVars    == <<tpc, ti, treg>>

\* What the ADC handler leaves alone whatever path it takes.
notAdcVars == <<tgtDir, cmdVars, mainVars, tmrVars>>

vars == <<status, fault, bridgeVars, loopVars, seqVars, calVars, trajVars,
          cmdVars, adcVars, mainVars, tmrVars>>

-----------------------------------------------------------------------------
Statuses == {"IDLE", "DRV_RUN", "DRV_STOP", "CALIBRATE"}
StartupSteps == {"Initialize", "BscCharge", "StateDetect", "Align",
                 "ForceDrive", "CLStart", "Finish"}
CalibSteps == {"NULL", "R_START", "R_LOOP", "R_END", "L_START", "L_LOOP",
               "L_END", "PP_START", "PP_LOOP", "PP_END"}
MainPcs == {"check", "clear", "forceIdle", "load", "writeBack", "act", "brake",
            "stop", "initFlags", "initCalib", "initSeq", "dir", "run"}
TmrPcs == {"idle", "check", "store", "stop"}
Dirs == {"CCW", "CW"}

NumbersTypeOK ==
    /\ outType \in 0..2
    /\ tgtWr \in Int /\ cmdRpm \in Int /\ preCmd \in Int /\ cmdWr \in Int /\ mreg \in Int
    /\ ti \in Nat \ {0}

TypeOK ==
    /\ NumbersTypeOK
    /\ status \in Statuses
    /\ fault \subseteq VbusFaults \cup AdcFaults
    /\ pwmOn \in BOOLEAN /\ duty \in {"zero", "vec"} /\ svpwm \in {"zero", "vec"}
    /\ enSpdPid \in BOOLEAN /\ enSpdTraj \in BOOLEAN /\ enCurPid \in BOOLEAN
    /\ startup \in StartupSteps
    /\ stopSt \in {"Initialize", "Finish"}
    /\ calib \in CalibSteps
    /\ tgtDir \in Dirs /\ cmdDir \in Dirs
    /\ adcRdy \in BOOLEAN /\ sampled \in BOOLEAN
    /\ mpc \in MainPcs /\ tpc \in TmrPcs
    /\ treg \subseteq VbusFaults \cup AdcFaults

\* After MotorHW_Init and MotorSW_Init, interrupts just enabled.
Init ==
    /\ status = "IDLE" /\ fault = {}
    /\ pwmOn = FALSE /\ duty = "zero" /\ svpwm = "zero"
    /\ enSpdPid = FALSE /\ enSpdTraj = FALSE /\ enCurPid = FALSE
    /\ startup = "Initialize" /\ stopSt = "Initialize"
    /\ calib = "NULL" /\ outType = 0
    /\ tgtDir = "CCW" /\ tgtWr = 0
    /\ cmdRpm = 0 /\ preCmd = 0 /\ cmdDir = "CCW" /\ cmdWr = 0
    /\ adcRdy = FALSE /\ sampled = FALSE
    /\ mpc = "check" /\ mreg = 0
    /\ tpc = "idle" /\ ti = 1 /\ treg = {}

-----------------------------------------------------------------------------
(***************************************************************************)
(* The ADC interrupt                                                       *)
(***************************************************************************)

\* Mutant: the vector stays in MotorSvpwm.
FastStopKeepsVector ==
    /\ pwmOn' = FALSE /\ duty' = "zero" /\ svpwm' = svpwm
    /\ status' = "IDLE" /\ enSpdPid' = FALSE /\ enCurPid' = FALSE

\* Mutant: a zero vector instead of disabled outputs.
FastStopKeepsOutputs ==
    /\ pwmOn' = pwmOn /\ duty' = "zero" /\ svpwm' = "zero"
    /\ status' = "IDLE" /\ enSpdPid' = FALSE /\ enCurPid' = FALSE

\* Mutant: the status is left to the caller.
FastStopKeepsStatus ==
    /\ pwmOn' = FALSE /\ duty' = "zero" /\ svpwm' = "zero"
    /\ status' = status /\ enSpdPid' = FALSE /\ enCurPid' = FALSE

\* Motor_FastStop.  bEnSpdTraj is not among the flags it clears.
FastStop ==
    /\ pwmOn' = FALSE /\ duty' = "zero" /\ svpwm' = "zero"
    /\ status' = "IDLE"
    /\ enSpdPid' = FALSE /\ enCurPid' = FALSE

\* Prot_MotorOverCurrent: below the limit long enough to trip, or calm long
\* enough to clear, is a choice here; the Protection module counts.
OverCurrent ==
    fault' \in IF "OC_PEAK" \in fault
               THEN {fault, fault \ {"OC_PEAK"}}
               ELSE {fault} \cup {fault \cup {f} : f \in IsrFaults \cap {"OC_PEAK"}}

HighFrequencyObserver == ObserverType \in {"HFI", "HFI_SMO", "HFI_FLUX"}

\* One switch of Startup_Control.  It leaves the PWM vector to the caller.
StartupControl ==
    \/ /\ startup = "Initialize"
       /\ enSpdPid' = FALSE /\ enSpdTraj' = FALSE /\ enCurPid' = FALSE
       /\ startup' = "BscCharge"
       /\ UNCHANGED <<pwmOn, tgtWr>>
    \/ /\ startup = "BscCharge"
       /\ pwmOn' = TRUE
       /\ startup' = "StateDetect"
       /\ UNCHANGED <<loopVars, tgtWr>>
    \/ /\ startup = "StateDetect"
       /\ enCurPid' = TRUE
       /\ startup' = IF HighFrequencyObserver THEN "CLStart" ELSE "Align"
       /\ UNCHANGED <<pwmOn, enSpdPid, enSpdTraj, tgtWr>>
    \/ /\ startup = "Align"
       /\ startup' \in {"Align", IF ObserverType = "ENCODER"
                                 THEN "CLStart" ELSE "ForceDrive"}
       /\ UNCHANGED <<pwmOn, loopVars, tgtWr>>
    \/ /\ startup = "ForceDrive"
       /\ startup' \in {"ForceDrive", "CLStart"}
       /\ UNCHANGED <<pwmOn, loopVars, tgtWr>>
    \/ /\ startup = "CLStart"
       /\ enSpdPid' = TRUE /\ enSpdTraj' = TRUE
       /\ tgtWr' \in IF HighFrequencyObserver THEN {tgtWr} ELSE WrEstimates
       /\ startup' = "Finish"
       /\ UNCHANGED <<pwmOn, enCurPid>>
    \/ /\ startup = "Finish"
       /\ UNCHANGED <<pwmOn, startup, loopVars, tgtWr>>

\* Mutant: a stop during the start-up waits for it to finish.
StopControlAfterStartup ==
    IF startup = "Finish"
    THEN FastStop /\ stopSt' = "Finish" /\ enSpdTraj' = enSpdTraj
    ELSE UNCHANGED <<bridgeVars, status, loopVars, stopSt>>

\* Stop_Control.  bEnBrakeStop is FALSE from MotorSW_Init on, so every path
\* ends in Motor_FastStop; only the first stop of a finished start-up leaves
\* bEnSpdTraj set.
StopControl ==
    /\ FastStop
    /\ stopSt' = "Finish"
    /\ enSpdTraj' = IF startup = "Finish" /\ stopSt = "Initialize"
                    THEN enSpdTraj ELSE FALSE

\* Mutant: the status stays CALIBRATE.
CalibrationDoneKeepsStatus == calib' = "NULL" /\ status' = status

CalibrationDone == calib' = "NULL" /\ status' = "IDLE"

\* Calibration_Loop: the next step, the output type and, at the end, the
\* motor status.
CalibrationLoop ==
    \/ /\ calib = "NULL"
       /\ UNCHANGED <<calib, outType, status>>
    \/ /\ calib = "R_LOOP"
       /\ \/ outType' = 2 /\ calib' \in {"R_LOOP", "R_END"}
          \/ outType' = 0 /\ calib' = "R_END"       \* more than 2 V needed
       /\ UNCHANGED status
    \/ /\ calib = "L_LOOP"
       /\ \/ outType' = 2 /\ calib' = "L_LOOP"
          \/ outType' = 0 /\ calib' = "L_END"
       /\ UNCHANGED status
    \/ /\ calib \in {"R_START", "R_END", "L_START"}
       /\ calib' = CASE calib = "R_START" -> "R_LOOP"
                     [] calib = "R_END"   -> "L_START"
                     [] calib = "L_START" -> "L_LOOP"
       /\ UNCHANGED <<outType, status>>
    \/ /\ calib = "L_END" /\ ObserverType = "ENCODER"
       /\ calib' = "PP_START"
       /\ UNCHANGED <<outType, status>>
    \/ /\ calib = "L_END" /\ ObserverType # "ENCODER"
       /\ CalibrationDone
       /\ UNCHANGED outType
    \/ /\ calib = "PP_START"
       /\ outType' = 1 /\ calib' \in {"PP_START", "PP_LOOP"}
       /\ UNCHANGED status
    \/ /\ calib = "PP_LOOP"
       /\ outType' = 1 /\ calib' \in {"PP_LOOP", "PP_END"}
       /\ UNCHANGED status
    \/ /\ calib = "PP_END"
       /\ outType' = 0 /\ CalibrationDone

\* Adc_CheckOffset.  An offset out of bounds is divided again at every later
\* call and stays out of bounds: the fault latches and the drive is never ready.
AdcOffset ==
    /\ ~adcRdy
    /\ \/ UNCHANGED <<fault, adcRdy>>
       \/ /\ "AD_OFFSET" \notin fault
          /\ adcRdy' = TRUE /\ UNCHANGED fault
       \/ /\ "AD_OFFSET" \in IsrFaults
          /\ fault' = fault \cup {"AD_OFFSET"} /\ UNCHANGED adcRdy
    /\ sampled' = TRUE
    /\ UNCHANGED <<status, bridgeVars, loopVars, seqVars, calVars, tgtWr, notAdcVars>>

\* ADC1_2_IRQHandler without a finished conversion.
AdcSpurious ==
    /\ "UNDEF_INT" \in IsrFaults
    /\ FastStop
    /\ fault' = fault \cup {"UNDEF_INT"}
    /\ UNCHANGED <<enSpdTraj, seqVars, calVars, tgtWr, adcVars, notAdcVars>>

\* Motor_MainIsrHandler up to the dispatch on u32MotorStatus.
AdcBegin ==
    /\ adcRdy
    /\ OverCurrent
    /\ sampled' = TRUE
    /\ UNCHANGED <<adcRdy, notAdcVars>>

\* A fault stops the drive; the status is then IDLE, which stops it again.
AdcTrip ==
    /\ AdcBegin /\ fault' # {}
    /\ FastStop
    /\ UNCHANGED <<enSpdTraj, seqVars, calVars, tgtWr>>

AdcIdle ==
    /\ AdcBegin /\ fault' = {} /\ status = "IDLE"
    /\ FastStop
    /\ UNCHANGED <<enSpdTraj, seqVars, calVars, tgtWr>>

AdcCalibrate ==
    /\ AdcBegin /\ fault' = {} /\ status = "CALIBRATE"
    /\ CalibrationLoop
    /\ svpwm' = IF outType' = 0 THEN svpwm ELSE "vec"
    /\ duty'  = IF outType' = 0 THEN "zero" ELSE "vec"
    /\ UNCHANGED <<pwmOn, loopVars, seqVars, tgtWr>>

\* With the current loop closed a new vector is computed; otherwise the last
\* contents of MotorSvpwm go to the timer.
AdcRun ==
    /\ AdcBegin /\ fault' = {} /\ status = "DRV_RUN"
    /\ StartupControl
    /\ svpwm' = IF enCurPid' THEN "vec" ELSE svpwm
    /\ duty'  = svpwm'
    /\ UNCHANGED <<status, stopSt, calVars>>

AdcStop ==
    /\ AdcBegin /\ fault' = {} /\ status = "DRV_STOP"
    /\ StopControl
    /\ UNCHANGED <<startup, calVars, tgtWr>>

AdcIsr ==
    \/ AdcOffset \/ AdcTrip \/ AdcIdle \/ AdcCalibrate \/ AdcRun \/ AdcStop

-----------------------------------------------------------------------------
(***************************************************************************)
(* The USB interrupt: parse_frame                                          *)
(***************************************************************************)

HostSetsSpeed ==
    /\ cmdRpm' \in HostRpms
    /\ UNCHANGED <<status, fault, bridgeVars, loopVars, seqVars, calVars, trajVars,
                   preCmd, cmdDir, cmdWr, adcVars, mainVars, tmrVars>>

HostReverses ==
    /\ cmdRpm' = -cmdRpm
    /\ UNCHANGED <<status, fault, bridgeVars, loopVars, seqVars, calVars, trajVars,
                   preCmd, cmdDir, cmdWr, adcVars, mainVars, tmrVars>>

\* Calibration_Start looks neither at the status nor at the fault code, and
\* leaves i32_OutputType as it is.
HostCalibration ==
    /\ HostCalibrates
    /\ pwmOn' = TRUE
    /\ calib' = "R_START"
    /\ status' = "CALIBRATE"
    /\ UNCHANGED <<fault, duty, svpwm, loopVars, seqVars, outType, trajVars, cmdVars,
                   adcVars, mainVars, tmrVars>>

Host == HostSetsSpeed \/ HostReverses \/ HostCalibration

-----------------------------------------------------------------------------
(***************************************************************************)
(* The TMR3 interrupt: Motor_SysTickerIsrHandler                           *)
(***************************************************************************)

\* What TMR3 never writes.
notTmrVars == <<bridgeVars, loopVars, seqVars, calVars, tgtDir, cmdVars, adcRdy,
                mainVars>>

\* Mutant: the checks of the next tick start one too early.
TmrReturnsTooFar == tpc' = "idle" /\ ti' = 0 /\ sampled' = FALSE

\* TMR3 ticks at 4 kHz, the conversion interrupt comes at 20 kHz and above it:
\* at least one conversion lies between the end of a tick and the next tick.
TmrReturns == tpc' = "idle" /\ ti' = 1 /\ sampled' = FALSE

TmrTick ==
    /\ tpc = "idle" /\ adcRdy /\ sampled
    /\ tpc' = "check"
    /\ UNCHANGED <<status, fault, tgtWr, sampled, ti, treg, notTmrVars>>

\* A check of Prot_MonitorVbus that only moves its counter.
TmrCheckCounts ==
    /\ tpc = "check" /\ ti \in 1..Len(VbusChecks)
    /\ ti' = ti + 1
    /\ UNCHANGED <<status, fault, tgtWr, sampled, tpc, treg, notTmrVars>>

\* A check that sets or clears its bit: u32FaultCode |= or &= is a load ...
TmrCheckLoads ==
    /\ tpc = "check" /\ ti \in 1..Len(VbusChecks)
    /\ treg' \in {fault \cup {VbusChecks[ti]}, fault \ {VbusChecks[ti]}}
    /\ tpc' = "store"
    /\ UNCHANGED <<status, fault, tgtWr, sampled, ti, notTmrVars>>

\* ... and a store of the whole word.
TmrCheckStores ==
    /\ tpc = "store"
    /\ fault' = treg /\ treg' = {}
    /\ tpc' = "check" /\ ti' = ti + 1
    /\ UNCHANGED <<status, tgtWr, sampled, notTmrVars>>

ChecksDone == tpc = "check" /\ ti > Len(VbusChecks)

\* The tick is over: speed regulation is not due, or bEnSpdTraj is clear.
TmrReturn ==
    /\ ChecksDone
    /\ TmrReturns
    /\ UNCHANGED <<status, fault, tgtWr, treg, notTmrVars>>

Clip(wr, bound) == IF wr > bound THEN bound ELSE IF wr < -bound THEN -bound ELSE wr

\* Mutant: the comparison of the two directions is inverted.
ReversingWhenAgreed == cmdDir = tgtDir /\ ~BreakEnable

Reversing == cmdDir # tgtDir /\ ~BreakEnable

\* Speed_TgtSpdTraj, ramp branches.
TmrRamp ==
    /\ ChecksDone /\ enSpdTraj
    /\ ~(Reversing /\ tgtWr < WrMaxStep)
    /\ tgtWr' = Clip(IF Reversing THEN tgtWr - WrMaxStep
                                  ELSE tgtWr + Clip(cmdWr - tgtWr, WrMaxStep), MaxWr)
    /\ TmrReturns
    /\ UNCHANGED <<status, fault, treg, notTmrVars>>

\* Speed_TgtSpdTraj, slow enough to stop: the test ...
TmrRampedDown ==
    /\ ChecksDone /\ enSpdTraj
    /\ Reversing /\ tgtWr < WrMaxStep
    /\ tpc' = "stop"
    /\ UNCHANGED <<status, fault, tgtWr, sampled, ti, treg, notTmrVars>>

\* ... and the store of the status, whatever it has become.
TmrStop ==
    /\ tpc = "stop"
    /\ status' = "DRV_STOP"
    /\ tgtWr' = Clip(WrMaxStep, MaxWr)
    /\ TmrReturns
    /\ UNCHANGED <<fault, treg, notTmrVars>>

Tmr3 == \/ TmrTick \/ TmrCheckCounts \/ TmrCheckLoads \/ TmrCheckStores
        \/ TmrReturn \/ TmrRamp \/ TmrRampedDown \/ TmrStop

-----------------------------------------------------------------------------
(***************************************************************************)
(* The main loop: Speed_CmdSpdSet and, inside it, MotorSW_Init             *)
(***************************************************************************)

\* Main runs when no handler does.
MainAt(pc) == mpc = pc /\ tpc = "idle"
MainGoes(pc) == mpc' = pc
notMainVars == <<fault, bridgeVars, adcVars, tmrVars>>

MainCheckFault ==
    /\ MainAt("check")
    /\ MainGoes(IF fault # {} THEN "clear" ELSE "load")
    /\ UNCHANGED <<status, loopVars, seqVars, calVars, trajVars, cmdVars, mreg, notMainVars>>

MainClearCommand ==
    /\ MainAt("clear")
    /\ cmdRpm' = 0 /\ preCmd' = 0 /\ cmdWr' = 0
    /\ MainGoes("forceIdle")
    /\ UNCHANGED <<status, loopVars, seqVars, calVars, trajVars, cmdDir, mreg, notMainVars>>

MainForceIdle ==
    /\ MainAt("forceIdle")
    /\ status' = "IDLE"
    /\ MainGoes("check")
    /\ UNCHANGED <<loopVars, seqVars, calVars, trajVars, cmdVars, mreg, notMainVars>>

\* The command differs from the last one taken: load it, note its direction.
MainLoadCommand ==
    /\ MainAt("load") /\ cmdRpm # preCmd
    /\ mreg' = cmdRpm
    /\ cmdDir' = IF cmdRpm > 0 THEN "CCW" ELSE IF cmdRpm < 0 THEN "CW" ELSE cmdDir
    /\ MainGoes("writeBack")
    /\ UNCHANGED <<status, loopVars, seqVars, calVars, trajVars, cmdRpm, preCmd, cmdWr,
                   notMainVars>>

MainNoCommand ==
    /\ MainAt("load") /\ cmdRpm = preCmd
    /\ MainGoes("act")
    /\ UNCHANGED <<status, loopVars, seqVars, calVars, trajVars, cmdVars, mreg, notMainVars>>

Abs(rpm) == IF rpm < 0 THEN -rpm ELSE rpm
AbsRpm(rpm) == IF rpm = 0 THEN 0 ELSE IF Abs(rpm) < MinRpm THEN MinRpm ELSE Abs(rpm)

\* The clamped command is written over whatever the host has stored since.
MainWriteBack ==
    /\ MainAt("writeBack")
    /\ cmdRpm' = IF mreg < 0 THEN -AbsRpm(mreg) ELSE AbsRpm(mreg)
    /\ preCmd' = cmdRpm'
    /\ cmdWr' = AbsRpm(mreg)
    /\ mreg' = 0
    /\ MainGoes("act")
    /\ UNCHANGED <<status, loopVars, seqVars, calVars, trajVars, cmdDir, notMainVars>>

\* Mutant: any status but DRV_RUN counts as stopped.
MainActUnlessRunning ==
    /\ MainAt("act")
    /\ MainGoes(CASE preCmd = 0 /\ status = "DRV_RUN" -> "stop"
                  [] preCmd # 0 /\ status # "DRV_RUN" -> "initFlags"
                  [] preCmd # 0 /\ status = "DRV_RUN" /\ BreakEnable -> "brake"
                  [] OTHER -> "check")
    /\ UNCHANGED <<status, loopVars, seqVars, calVars, trajVars, cmdVars, mreg, notMainVars>>

\* The tests on u32MotorStatus; what they lead to is written later.
MainAct ==
    /\ MainAt("act")
    /\ MainGoes(CASE preCmd = 0 /\ status = "DRV_RUN" -> "stop"
                  [] preCmd # 0 /\ status = "IDLE" -> "initFlags"
                  [] preCmd # 0 /\ status # "IDLE" /\ BreakEnable -> "brake"
                  [] OTHER -> "check")
    /\ UNCHANGED <<status, loopVars, seqVars, calVars, trajVars, cmdVars, mreg, notMainVars>>

MainBrake ==
    /\ MainAt("brake")
    /\ MainGoes(IF status = "DRV_RUN" /\ cmdDir # tgtDir THEN "stop" ELSE "check")
    /\ UNCHANGED <<status, loopVars, seqVars, calVars, trajVars, cmdVars, mreg, notMainVars>>

MainStop ==
    /\ MainAt("stop")
    /\ status' = "DRV_STOP"
    /\ MainGoes("check")
    /\ UNCHANGED <<loopVars, seqVars, calVars, trajVars, cmdVars, mreg, notMainVars>>

\* Mutant: bEnSpdTraj, which Motor_FastStop leaves set, is not cleared here either.
MainInitFlagsKeepTraj ==
    /\ MainAt("initFlags")
    /\ enSpdPid' = FALSE /\ enCurPid' = FALSE
    /\ MainGoes("initCalib")
    /\ UNCHANGED <<status, enSpdTraj, seqVars, calVars, trajVars, cmdVars, mreg, notMainVars>>

\* MotorSW_Init, in three groups of stores.
MainInitFlags ==
    /\ MainAt("initFlags")
    /\ enSpdPid' = FALSE /\ enSpdTraj' = FALSE /\ enCurPid' = FALSE
    /\ MainGoes("initCalib")
    /\ UNCHANGED <<status, seqVars, calVars, trajVars, cmdVars, mreg, notMainVars>>

MainInitCalib ==
    /\ MainAt("initCalib")
    /\ calib' = "NULL" /\ outType' = 0
    /\ MainGoes("initSeq")
    /\ UNCHANGED <<status, loopVars, seqVars, trajVars, cmdVars, mreg, notMainVars>>

\* Mutant: Startup_Init is not called again.
MainInitSeqKeepsStartup ==
    /\ MainAt("initSeq")
    /\ tgtWr' = 0
    /\ stopSt' = "Initialize"
    /\ MainGoes("dir")
    /\ UNCHANGED <<status, startup, loopVars, calVars, tgtDir, cmdVars, mreg, notMainVars>>

MainInitSeq ==
    /\ MainAt("initSeq")
    /\ tgtWr' = 0
    /\ startup' = "Initialize" /\ stopSt' = "Initialize"
    /\ MainGoes("dir")
    /\ UNCHANGED <<status, loopVars, calVars, tgtDir, cmdVars, mreg, notMainVars>>

MainSetDir ==
    /\ MainAt("dir")
    /\ tgtDir' = cmdDir
    /\ MainGoes("run")
    /\ UNCHANGED <<status, loopVars, seqVars, calVars, tgtWr, cmdVars, mreg, notMainVars>>

MainRun ==
    /\ MainAt("run")
    /\ status' = "DRV_RUN"
    /\ MainGoes("check")
    /\ UNCHANGED <<loopVars, seqVars, calVars, trajVars, cmdVars, mreg, notMainVars>>

Main == \/ MainCheckFault \/ MainClearCommand \/ MainForceIdle
        \/ MainLoadCommand \/ MainNoCommand \/ MainWriteBack
        \/ MainAct \/ MainBrake \/ MainStop
        \/ MainInitFlags \/ MainInitCalib \/ MainInitSeq \/ MainSetDir \/ MainRun

-----------------------------------------------------------------------------
Next == AdcIsr \/ AdcSpurious \/ Host \/ Tmr3 \/ Main

Spec == Init /\ [][Next]_vars

(***************************************************************************)
(* Fairness.  The conversion and tick interrupts keep coming and a handler *)
(* that has begun goes on; a count-down that stays selected runs out (the  *)
(* offset, Align, ForceDrive and calibration counters only move one way);  *)
(* a tick in which speed regulation is due comes again and again; main is  *)
(* preempted but never starved, since the handlers leave time between      *)
(* them.  Nothing is assumed of the host, and no fault has to happen.      *)
(***************************************************************************)
Fairness ==
    /\ WF_vars(AdcIsr)
    /\ WF_vars(AdcOffset /\ <<fault, adcRdy>>' # <<fault, adcRdy>>)
    /\ WF_vars(AdcRun /\ startup' # startup)
    /\ WF_vars(AdcCalibrate /\ calib' # calib)
    /\ WF_vars(Tmr3)
    /\ SF_vars(TmrRamp \/ TmrRampedDown)
    /\ SF_vars(Main)

FairSpec == Spec /\ Fairness

\* The drive when no fault goes away by itself between main's test of the fault
\* word and its store of IDLE (speed_set.c:49 and 53).  If one does, main stores
\* IDLE over a run that the bridge is on for.
ColdSpec == Init /\ [][Next /\ (MainForceIdle => fault # {})]_vars

-----------------------------------------------------------------------------
(***************************************************************************)
(* Safety                                                                  *)
(***************************************************************************)

\* While the outputs are disabled the timer and MotorSvpwm hold the zero
\* vector, so InitMcu_EnMotorPwm(TRUE), which loads nothing, never starts from
\* a vector left by an earlier run or calibration.
PwmOffImpliesZero == ~pwmOn => duty = "zero" /\ svpwm = "zero"

\* In a run each control loop is closed exactly when Startup_Control has
\* reached the step that closes it, and the bridge is on from BscCharge on.
\* Main, TMR3 and the ADC handler all write these words.
LoopsFollowStartup ==
    status = "DRV_RUN" =>
        /\ enSpdPid  <=> startup = "Finish"
        /\ enSpdTraj <=> startup = "Finish"
        /\ enCurPid  <=> startup \notin {"Initialize", "BscCharge", "StateDetect"}
        /\ startup \notin {"Initialize", "BscCharge"} => pwmOn

\* A calibration in progress has the bridge on: nothing that disables the
\* outputs leaves CALIBRATE standing.
CalibrationPowered == status = "CALIBRATE" => pwmOn

\* Without calibrations a run starts cold: the bridge is off, with no vector
\* waiting, until BscCharge turns it on.  (A calibration that ends just before
\* main starts the motor leaves the bridge on and its last vector in MotorSvpwm.)
ColdStart ==
    status = "DRV_RUN" /\ startup \in {"Initialize", "BscCharge"} =>
        ~pwmOn /\ duty = "zero" /\ svpwm = "zero"

\* Without calibrations the phase order, which i32TgtWrDir selects, only
\* changes while the outputs are disabled.
PhaseOrderChangesOnlyWhenOff == [][tgtDir' # tgtDir => ~pwmOn]_vars

\* The stage of the current run, and the control loops closed in it.
Stage ==
    IF status # "DRV_RUN" THEN "rest"
    ELSE IF startup \in {"Initialize", "BscCharge"} THEN "arming"
    ELSE IF startup = "StateDetect" THEN "powered"
    ELSE IF startup = "Finish" THEN "speed" ELSE "current"

ClosedLoops ==
    IF status # "DRV_RUN" THEN {}
    ELSE (IF enCurPid THEN {"current"} ELSE {}) \cup (IF enSpdPid THEN {"speed"} ELSE {})
           \cup (IF enSpdTraj THEN {"ramp"} ELSE {})

\* Every run of the motor is a RunSession, whatever lands inside MotorSW_Init.
Session == INSTANCE RunSession WITH
    stage <- Stage, dir <- tgtDir, on <- pwmOn, loops <- ClosedLoops

SessionSpec == Session!Spec

-----------------------------------------------------------------------------
(***************************************************************************)
(* Liveness                                                                *)
(***************************************************************************)

\* Once the drive is ready a fault takes the bridge off, or goes away by
\* itself: no path leaves a faulted bridge driven for ever.
FaultShutsBridge == (adcRdy /\ fault # {}) ~> (~pwmOn \/ fault = {})

\* A zero command that stays takes the bridge off, in whatever step of its poll
\* or of MotorSW_Init main was when it came.  A command that main writes back
\* over it, a new command, and a calibration, which ignores commands, excuse.
StopHonoured ==
    (adcRdy /\ cmdRpm = 0) ~> (~pwmOn \/ cmdRpm # 0 \/ status = "CALIBRATE")

\* A command for the other direction is carried out: unless it is withdrawn, or
\* a fault or a calibration comes between, the motor runs in its direction.
ReversalCompletes ==
    (status = "DRV_RUN" /\ cmdDir # tgtDir) ~>
        \/ status = "DRV_RUN" /\ cmdDir = tgtDir
        \/ cmdRpm = 0 \/ fault # {} \/ status = "CALIBRATE"

\* A calibration of a ready drive ends, unless the host starts it again.
CalibrationEnds ==
    (adcRdy /\ status = "CALIBRATE") ~> (status # "CALIBRATE" \/ calib = "R_START")

=============================================================================
