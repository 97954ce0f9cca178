------------------------------ MODULE Startup ------------------------------
(***************************************************************************)
(* Startup_Init and Startup_Control with their counters and ramps: the     *)
(* three align times, the forced current and speed, the current references *)
(* they produce and the encoder offset they latch.  MotorDrive takes the   *)
(* end of a start-up step as a choice; here it is computed, over runs that *)
(* may be broken off at any sample and begun again.                        *)
(*                                                                         *)
(* One sample of the ADC interrupt is one step.  Currents and speeds are   *)
(* integers in a unit of the reader's choice, so the quotient f32_AlignDIq *)
(* is a constant that may be rounded either way.  An angle is an integer   *)
(* modulo Turn, which is what utils_norm_angle_rad makes of it.            *)
(***************************************************************************)
EXTENDS Integers

CONSTANTS
    ObserverType,                 \* MotorCfg.i32ObserverType
    AlignTime,                    \* the three align times in samples
    AlignIq, AlignDIq,            \* f32_AlignIq and f32_AlignDIq
    ForceMaxIq, ForceDIq,         \* f32_ForceMaxIq and f32_ForceDIq
    ForceMaxWr, ForceAccRate,     \* f32_ForceMaxWr and f32_ForceAccRate
    WrEstimates,                  \* speeds an observer may report
    PidOutputs,                   \* what the speed controller may ask for
    Turn                          \* angles of an electrical turn

ASSUME AlignAssumption ==
    /\ AlignTime \in [0..2 -> Int]
    /\ AlignIq \in Nat \ {0} /\ AlignDIq \in Nat \ {0}
    /\ IF AlignTime[0] <= 0
       THEN AlignDIq = AlignIq
       ELSE /\ AlignDIq * AlignTime[0] < AlignIq + AlignTime[0]
            /\ AlignDIq * AlignTime[0] > AlignIq - AlignTime[0]

\* The configured aligning current, 1 A, is not above the starting current, 1.5 A.
ASSUME ForceAssumption ==
    /\ ForceMaxIq \in Nat /\ AlignIq <= ForceMaxIq /\ ForceDIq \in Nat \ {0}
    /\ ForceMaxWr \in Nat /\ ForceAccRate \in Nat \ {0}

ASSUME InputAssumption ==
    /\ WrEstimates \subseteq Int /\ PidOutputs \subseteq Int
    /\ Turn \in Nat \ {0}

VARIABLES
    running,  \* u32MotorStatus is DRV_RUN
    status,   \* MotorStartup.status
    align,    \* u8Status_Align
    left,     \* i32Align1stTime, i32Align2ndTime, i32Align3rdTime
    forceIq, forceWr,   \* f32_ForceIq, f32_ForceWr
    idRef, iqRef,       \* MotorRunPara.IqdRef
    offset,   \* Encoder.f32_Offset
    pwmOn, enSpdPid, enSpdTraj, enCurPid,
    tgtWr,    \* MotorSpdCtrl.f32_TgtWr, as CLStart leaves it
    regulating,  \* TMR3 has found bEnSpdPid set and not yet stored its output
    \* Not in the program:
    rotor,    \* the angle the encoder has read in this sample
    held      \* samples Align has taken in this run

rampVars  == <<forceIq, forceWr>>
refVars   == <<idRef, iqRef>>
alignVars == <<align, left, offset, held>>
driveVars == <<pwmOn, enSpdPid, enSpdTraj, enCurPid, tgtWr>>
vars == <<running, status, rampVars, refVars, alignVars, driveVars, regulating, rotor>>

Angles == 0 .. Turn - 1
HighFrequencyObserver == ObserverType \in {"HFI", "HFI_SMO", "HFI_FLUX"}

NumbersOK ==
    /\ align \in 0..2 /\ left \in [0..2 -> Int]
    /\ forceIq \in Nat /\ forceWr \in Nat
    /\ idRef \in Int /\ iqRef \in Int /\ tgtWr \in Int
    /\ offset \in Angles /\ rotor \in Angles /\ held \in Nat

TypeOK ==
    /\ NumbersOK
    /\ running \in BOOLEAN /\ regulating \in BOOLEAN
    /\ status \in {"Initialize", "BscCharge", "StateDetect", "Align", "ForceDrive",
                   "CLStart", "Finish"}
    /\ pwmOn \in BOOLEAN /\ enSpdPid \in BOOLEAN /\ enSpdTraj \in BOOLEAN
    /\ enCurPid \in BOOLEAN

\* The first two times are raised to 0, the third is not.
AlignTimes == [i \in 0..2 |-> IF i < 2 /\ AlignTime[i] <= 0 THEN 0 ELSE AlignTime[i]]

Init ==
    /\ running = FALSE /\ status = "Initialize"
    /\ align = 0 /\ left = AlignTimes /\ held = 0
    /\ forceIq = 0 /\ forceWr = 0 /\ idRef = 0 /\ iqRef = 0
    /\ offset = 0 /\ rotor = 0
    /\ pwmOn = FALSE /\ enSpdPid = FALSE /\ enSpdTraj = FALSE /\ enCurPid = FALSE
    /\ tgtWr = 0 /\ regulating = FALSE

-----------------------------------------------------------------------------
StartupInit ==
    /\ status' = "Initialize"
    /\ align' = 0 /\ left' = AlignTimes
    /\ forceIq' = 0 /\ forceWr' = 0

\* Speed_CmdSpdSet starts the motor: MotorSW_Init, direction, DRV_RUN.
\* Encoder_Init, in it, leaves f32_Offset alone.  TMR3 is not at work then.
Start ==
    /\ ~running /\ running' = TRUE
    /\ ~regulating
    /\ StartupInit
    /\ enSpdPid' = FALSE /\ enSpdTraj' = FALSE /\ enCurPid' = FALSE
    /\ tgtWr' = 0 /\ held' = 0
    /\ UNCHANGED <<pwmOn, refVars, offset, regulating, rotor>>

\* Main, TMR3 or the host stores another status; the loops stay as they are.
Leave ==
    /\ running /\ running' = FALSE
    /\ UNCHANGED <<status, rampVars, refVars, alignVars, driveVars, regulating, rotor>>

\* Motor_FastStop, for a fault and in every sample the motor does not run;
\* Stop_Control may clear bEnSpdTraj before it.
Halt ==
    /\ running' = FALSE
    /\ pwmOn' = FALSE /\ enSpdPid' = FALSE /\ enCurPid' = FALSE
    /\ enSpdTraj' \in {enSpdTraj, FALSE}
    /\ idRef' = 0 /\ iqRef' = 0
    /\ UNCHANGED <<status, rampVars, alignVars, tgtWr, regulating, rotor>>

\* Speed regulation of the TMR3 interrupt: the test of bEnSpdPid ...
RegulationBegins ==
    /\ ~regulating /\ enSpdPid
    /\ regulating' = TRUE
    /\ UNCHANGED <<running, status, rampVars, refVars, alignVars, driveVars, rotor>>

\* ... and, samples or a stop later, the store of what the controller asks for.
RegulationStores ==
    /\ regulating
    /\ regulating' = FALSE
    /\ idRef' = 0 /\ iqRef' \in PidOutputs
    /\ UNCHANGED <<running, status, rampVars, alignVars, driveVars, rotor>>

-----------------------------------------------------------------------------
(***************************************************************************)
(* A sample in DRV_RUN: Encoder_Loop reads the rotor, then Startup_Control *)
(***************************************************************************)

SampleAt(step) ==
    /\ running /\ status = step
    /\ rotor' \in Angles
    /\ UNCHANGED <<running, regulating>>

\* Encoder.f32_Phase of this sample, computed with the offset so far.
Phase == (rotor' - offset) % Turn

Initialize ==
    /\ SampleAt("Initialize")
    /\ enSpdPid' = FALSE /\ enSpdTraj' = FALSE /\ enCurPid' = FALSE
    /\ status' = "BscCharge"
    /\ UNCHANGED <<rampVars, refVars, alignVars, pwmOn, tgtWr>>

BscCharge ==
    /\ SampleAt("BscCharge")
    /\ pwmOn' = TRUE
    /\ status' = "StateDetect"
    /\ UNCHANGED <<rampVars, refVars, alignVars, enSpdPid, enSpdTraj, enCurPid, tgtWr>>

\* Mutant: the references are taken as Motor_FastStop left them.
StateDetectKeepsReferences ==
    /\ SampleAt("StateDetect")
    /\ enCurPid' = TRUE
    /\ status' = IF HighFrequencyObserver THEN "CLStart" ELSE "Align"
    /\ UNCHANGED <<rampVars, refVars, alignVars, pwmOn, enSpdPid, enSpdTraj, tgtWr>>

\* Mutant: the current loop stays open.
StateDetectLeavesLoopOpen ==
    /\ SampleAt("StateDetect")
    /\ idRef' = 0 /\ iqRef' = 0
    /\ status' = IF HighFrequencyObserver THEN "CLStart" ELSE "Align"
    /\ UNCHANGED <<rampVars, alignVars, driveVars>>

StateDetect ==
    /\ SampleAt("StateDetect")
    /\ idRef' = 0 /\ iqRef' = 0
    /\ enCurPid' = TRUE
    /\ status' = IF HighFrequencyObserver THEN "CLStart" ELSE "Align"
    /\ UNCHANGED <<rampVars, alignVars, pwmOn, enSpdPid, enSpdTraj, tgtWr>>

\* Mutant: the limit itself is still increased.
RampThroughLimit(iq, step, limit) == IF iq <= limit THEN iq + step ELSE limit

\* A current ramp compares before it increases.
Ramp(iq, step, limit) == IF iq < limit THEN iq + step ELSE limit

\* Mutant: the offset of the last run is still in the phase that is latched.
LatchWithoutReset == offset' =
    IF align = 2 /\ left'[2] <= 0 /\ ObserverType = "ENCODER" THEN Phase ELSE offset

\* The offset is cleared at the end of the first align time, for every observer,
\* and latched at the end of the third.
Latch == offset' =
    IF align = 0 /\ left'[0] <= 0 THEN 0
    ELSE IF align = 2 /\ left'[2] <= 0 /\ ObserverType = "ENCODER" THEN Phase ELSE offset

\* Mutant: the third align time has a successor too.
NextAlignTooFar == align' = IF left'[align] <= 0 THEN align + 1 ELSE align

\* Mutant: a time ends one sample late.
NextAlignLate == align' = IF left'[align] < 0 /\ align < 2 THEN align + 1 ELSE align

NextAlign == align' = IF left'[align] <= 0 /\ align < 2 THEN align + 1 ELSE align

Align ==
    /\ SampleAt("Align")
    /\ forceIq' = Ramp(forceIq, AlignDIq, AlignIq)
    /\ left' = [left EXCEPT ![align] = @ - 1]
    /\ NextAlign /\ Latch
    /\ status' = IF align = 2 /\ left'[2] <= 0
                 THEN IF ObserverType = "ENCODER" THEN "CLStart" ELSE "ForceDrive"
                 ELSE "Align"
    /\ idRef' = IF ObserverType = "ENCODER" THEN forceIq' ELSE 0
    /\ iqRef' = IF ObserverType = "ENCODER" THEN 0 ELSE forceIq'
    /\ held' = held + 1
    /\ UNCHANGED <<forceWr, driveVars>>

\* Mutant: the forced speed is held at its maximum, which is not above it.
ForceDriveClamps ==
    /\ SampleAt("ForceDrive")
    /\ forceIq' = Ramp(forceIq, ForceDIq, ForceMaxIq)
    /\ idRef' = 0 /\ iqRef' = forceIq'
    /\ forceWr' = IF forceWr + ForceAccRate > ForceMaxWr THEN ForceMaxWr
                  ELSE forceWr + ForceAccRate
    /\ status' = IF forceWr' > ForceMaxWr THEN "CLStart" ELSE "ForceDrive"
    /\ UNCHANGED <<alignVars, driveVars>>

ForceDrive ==
    /\ SampleAt("ForceDrive")
    /\ forceIq' = Ramp(forceIq, ForceDIq, ForceMaxIq)
    /\ idRef' = 0 /\ iqRef' = forceIq'
    /\ forceWr' = forceWr + ForceAccRate
    /\ status' = IF forceWr' > ForceMaxWr THEN "CLStart" ELSE "ForceDrive"
    /\ UNCHANGED <<alignVars, driveVars>>

CLStart ==
    /\ SampleAt("CLStart")
    /\ enSpdPid' = TRUE /\ enSpdTraj' = TRUE
    /\ tgtWr' \in IF HighFrequencyObserver THEN {tgtWr} ELSE WrEstimates
    /\ status' = "Finish"
    /\ UNCHANGED <<rampVars, refVars, alignVars, pwmOn, enCurPid>>

Finish ==
    /\ SampleAt("Finish")
    /\ UNCHANGED <<status, rampVars, refVars, alignVars, driveVars>>

StartupControl ==
    Initialize \/ BscCharge \/ StateDetect \/ Align \/ ForceDrive \/ CLStart \/ Finish

Next == Start \/ Leave \/ Halt \/ RegulationBegins \/ RegulationStores \/ StartupControl

Spec == Init /\ [][Next]_vars

\* While the motor runs the conversion interrupt keeps coming.
FairSpec == Spec /\ WF_vars(StartupControl /\ status # "Finish")

-----------------------------------------------------------------------------
(***************************************************************************)
(* Properties                                                              *)
(***************************************************************************)

\* A current ramp passes its target by less than one of its steps and the
\* forced speed ends at most one step above its maximum, for every align time
\* and wherever an earlier run was broken off.
OvershootBelowOneStep ==
    running =>
        /\ status = "Align" => forceIq < AlignIq + AlignDIq
        /\ forceIq < AlignIq + AlignDIq \/ forceIq < ForceMaxIq + ForceDIq
        /\ forceWr <= ForceMaxWr + ForceAccRate

\* No sample of a start-up changes the reference the closed current loop follows
\* by more than one step of a ramp: not the first of a run, though TMR3 may have
\* stored an output of the speed controller after the stop, not the hand-over
\* from Align to ForceDrive, not the closing of the speed loop.
MaxStep == IF AlignDIq > ForceDIq THEN AlignDIq ELSE ForceDIq
Reference == IF enCurPid THEN idRef + iqRef ELSE 0
NoCurrentKick ==
    [][StartupControl => /\ Reference' <= Reference + MaxStep
                         /\ Reference' >= Reference - MaxStep]_vars

\* The rotor is held for the three configured times, a time of 0 or less
\* counting as one sample, also in a run that follows one broken off in Align.
AtLeastOne(t) == IF t <= 0 THEN 1 ELSE t
AlignLastsItsTime ==
    [][Align /\ status' # "Align" =>
         held' = AtLeastOne(AlignTime[0]) + AtLeastOne(AlignTime[1])
                   + AtLeastOne(AlignTime[2])]_vars

\* With an encoder the offset that is latched is the angle of the rotor itself,
\* with no remainder of the offset of an earlier run in it, so the speed loop
\* closes with the aligned rotor at electrical angle 0.
OffsetIsRotorAngle ==
    [][Align /\ status' = "CLStart" => offset' = rotor']_vars

\* Every sample of a run is a step of the StartupControl of MotorDrive.
Drive == INSTANCE MotorDrive WITH
    startup <- status, status <- "DRV_RUN", fault <- {}, duty <- "zero", svpwm <- "zero",
    stopSt <- "Initialize", calib <- "NULL", outType <- 0, tgtDir <- "CCW", cmdRpm <- 0,
    preCmd <- 0, cmdDir <- "CCW", cmdWr <- 0, adcRdy <- TRUE, sampled <- TRUE,
    mpc <- "check", mreg <- 0, tpc <- "idle", ti <- 1, treg <- {},
    BreakEnable <- FALSE, MinRpm <- 1, MaxWr <- 0, WrMaxStep <- 1, HostRpms <- {},
    HostCalibrates <- FALSE, VbusChecks <- <<>>, IsrFaults <- {}

IsStartupControl == [][StartupControl => Drive!StartupControl]_vars

\* A run that is not stopped reaches closed-loop operation: the counters of
\* Align and the ramp of ForceDrive come to their end.
StartupFinishes == running ~> (status = "Finish" \/ ~running)

=============================================================================
