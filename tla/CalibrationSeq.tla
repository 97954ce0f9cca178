--------------------------- MODULE CalibrationSeq ---------------------------
(***************************************************************************)
(* Calibration_Loop with its counters and the vectors it drives, one ADC   *)
(* sample in CALIBRATE per step.  The host may start it again at any       *)
(* moment, a fault (Motor_FastStop) or MotorSW_Init may break it off, and  *)
(* a run of the motor may come between two calibrations.                   *)
(*                                                                         *)
(* Of a voltage only its origin is kept: "zero", "this" calibration, or    *)
(* "old", left by an earlier one or by a run; of f32_TestVoltage in L_LOOP *)
(* its sign.  Phase is counted in steps of calib_phase_vel * f32_Ts.       *)
(***************************************************************************)
EXTENDS Integers

CONSTANTS
    MotorObserver,  \* MotorCfg.i32ObserverType
    NumR, NumL,     \* num_R_cycles, num_L_cycles
    HoldTime,       \* samples in the 2 s of CS_DIR_PP_START
    PhaseEnd        \* phase steps in four electrical turns

ASSUME CalibrationParameters ==
    /\ NumR \in Nat \ {0} /\ NumL \in Nat \ {0}
    /\ HoldTime \in Nat \ {0} /\ PhaseEnd \in Nat \ {0}
    /\ MotorObserver \in {"ENCODER", "SMO"}

Steps == {"NULL", "R_START", "R_LOOP", "R_END", "L_START", "L_LOOP", "L_END",
          "PP_START", "PP_LOOP", "PP_END"}
Origins == {"zero", "this", "old"}

VARIABLES
    step,         \* MotorCalibCtrl.e_CalibStep
    calibrating,  \* u32MotorStatus is CALIBRATE
    loopCount,    \* u32_LoopCount
    outType,      \* i32_OutputType
    sign,         \* the sign of f32_TestVoltage
    phase,        \* f32_PhaseSet
    uab,          \* MotorRunPara.Uab
    uqd,          \* MotorRunPara.UqdRef
    duty,         \* what this sample has given to the timer
    \* Histories, not in the program:
    looped,       \* samples spent in the loop step at work
    push          \* signs of the L_LOOP voltages driven, added up

calVars   == <<step, calibrating, loopCount, outType, sign, phase>>
outVars   == <<uab, uqd, duty>>
calibVars == <<calVars, outVars, looped, push>>

\* u32_LoopCount and the histories are only compared with these.
CountMax == NumR + NumL + HoldTime + PhaseEnd
Bump(n) == IF n = CountMax THEN n ELSE n + 1

CalibTypeOK ==
    /\ step \in Steps /\ calibrating \in BOOLEAN
    /\ loopCount \in 0..CountMax /\ looped \in 0..CountMax
    /\ outType \in 0..2 /\ sign \in {-1, 1} /\ phase \in 0..PhaseEnd
    /\ uab \in Origins /\ uqd \in Origins /\ duty \in Origins
    /\ push \in Int

CalibInit ==
    /\ step = "NULL" /\ calibrating = FALSE /\ loopCount = 0 /\ outType = 0
    /\ sign = 1 /\ phase = 0
    /\ uab = "zero" /\ uqd = "zero" /\ duty = "zero"
    /\ looped = 0 /\ push = 0

-----------------------------------------------------------------------------
Aged(origin) == IF origin = "this" THEN "old" ELSE origin

\* Calibration_Start.  i32_OutputType and the voltages stay.
CalibrationStart ==
    /\ step' = "R_START" /\ calibrating' = TRUE
    /\ loopCount' = 0 /\ sign' = 1 /\ phase' = 0
    /\ uab' = Aged(uab) /\ uqd' = Aged(uqd)
    /\ looped' = 0 /\ push' = 0
    /\ UNCHANGED <<outType, duty>>

\* Motor_FastStop, as every sample calls it outside CALIBRATE and a run.
Halts ==
    /\ calibrating' = FALSE
    /\ uab' = "zero" /\ duty' = "zero"
    /\ UNCHANGED <<step, loopCount, outType, sign, phase, uqd, looped, push>>

\* Calibration_Init, in main's MotorSW_Init: the host may have started a
\* calibration inside it, or do so before main goes on to the run.
CalibrationInit ==
    /\ step' = "NULL" /\ loopCount' = 0 /\ outType' = 0 /\ sign' = 1 /\ phase' = 0
    /\ looped' = 0 /\ push' = 0
    /\ UNCHANGED <<calibrating, outVars>>

MotorRuns ==
    /\ calibrating' = FALSE
    /\ uab' = "old" /\ uqd' = "old" /\ duty' = "old"
    /\ UNCHANGED <<step, loopCount, outType, sign, phase, looped, push>>

-----------------------------------------------------------------------------
(***************************************************************************)
(* The ADC handler in CALIBRATE: Calibration_Loop, then the output         *)
(***************************************************************************)

\* What is sent out, by i32_OutputType: IPARK_Calc turns UqdRef into Uab first,
\* or Uab as it is, or nothing.  newUab is Uab as the step leaves it.
Outputs(newUab) ==
    /\ uab'  = IF outType' = 1 THEN uqd' ELSE newUab
    /\ duty' = IF outType' = 0 THEN "zero" ELSE uab'

At(s) == calibrating /\ step = s
Counts == loopCount' = Bump(loopCount) /\ looped' = Bump(looped)
Resets == loopCount' = Bump(0) /\ looped' = 0

\* A step that only moves on: CS_NULL, and the ends of the resistance loop.
Passes(from, to) ==
    /\ At(from) /\ step' = to
    /\ UNCHANGED <<calibrating, outType, sign, phase, uqd, push>>
    /\ Outputs(uab)

Idles  == Passes("NULL", "NULL") /\ Counts
RStart == Passes("R_START", "R_LOOP") /\ Resets
REnd   == Passes("R_END", "L_START") /\ Counts

\* The voltage is raised until the current is there; above 2 V it is given up.
RLoop ==
    /\ At("R_LOOP")
    /\ UNCHANGED <<calibrating, phase, uqd, push>>
    /\ sign' \in {-1, 1} /\ outType' \in {0, 2}
    /\ step' = IF outType' = 0 \/ loopCount >= NumR THEN "R_END" ELSE "R_LOOP"
    /\ Outputs(IF loopCount >= NumR THEN "zero" ELSE IF outType' = 0 THEN uab ELSE "this")
    /\ Counts

LStart ==
    /\ At("L_START")
    /\ UNCHANGED <<calibrating, outType, phase, uqd, push>>
    /\ step' = "L_LOOP" /\ sign' = 1
    /\ Resets /\ Outputs(uab)

\* Mutant: the sign is not flipped.
LLoopKeepsSign ==
    /\ At("L_LOOP")
    /\ UNCHANGED <<calibrating, phase, uqd>>
    /\ sign' = sign
    /\ IF loopCount >= NumL THEN outType' = 0 /\ step' = "L_END"
                        ELSE outType' = 2 /\ step' = "L_LOOP"
    /\ push' = IF outType' = 2 THEN push + sign' ELSE push
    /\ Counts /\ Outputs("this")

\* The voltage is flipped at every sample; the last one is not driven.
LLoop ==
    /\ At("L_LOOP")
    /\ UNCHANGED <<calibrating, phase, uqd>>
    /\ sign' = -sign
    /\ IF loopCount >= NumL THEN outType' = 0 /\ step' = "L_END"
                        ELSE outType' = 2 /\ step' = "L_LOOP"
    /\ push' = IF outType' = 2 THEN push + sign' ELSE push
    /\ Counts /\ Outputs("this")

LEnd ==
    /\ At("L_END")
    /\ UNCHANGED <<outType, sign, uqd, push>>
    /\ phase' = 0
    /\ IF MotorObserver = "ENCODER"
       THEN step' = "PP_START" /\ UNCHANGED calibrating
       ELSE step' = "NULL" /\ calibrating' = FALSE
    /\ Resets /\ Outputs(uab)

PPStart ==
    /\ At("PP_START")
    /\ UNCHANGED <<calibrating, sign, phase, push>>
    /\ uqd' = "this" /\ outType' = 1
    /\ step' = IF loopCount >= HoldTime THEN "PP_LOOP" ELSE "PP_START"
    /\ loopCount' = Bump(loopCount) /\ looped' = IF step' = step THEN Bump(looped) ELSE 0
    /\ Outputs(uab)

PPLoop ==
    /\ At("PP_LOOP")
    /\ UNCHANGED <<calibrating, sign, push>>
    /\ phase' = phase + 1
    /\ uqd' = "this" /\ outType' = 1
    /\ step' = IF phase' >= PhaseEnd THEN "PP_END" ELSE "PP_LOOP"
    /\ Counts /\ Outputs(uab)

\* Mutant: the output is left on.
PPEndKeepsOutput ==
    /\ At("PP_END")
    /\ UNCHANGED <<outType, sign, phase, uqd, push>>
    /\ step' = "NULL" /\ calibrating' = FALSE
    /\ Counts /\ Outputs(uab)

PPEnd ==
    /\ At("PP_END")
    /\ UNCHANGED <<sign, phase, uqd, push>>
    /\ outType' = 0 /\ step' = "NULL" /\ calibrating' = FALSE
    /\ Counts /\ Outputs(uab)

CalibrationLoop == Idles \/ RStart \/ RLoop \/ REnd \/ LStart \/ LLoop \/ LEnd
                     \/ PPStart \/ PPLoop \/ PPEnd

CalibNext == CalibrationStart \/ Halts \/ CalibrationInit \/ MotorRuns \/ CalibrationLoop

CalibSpec == CalibInit /\ [][CalibNext]_calibVars

-----------------------------------------------------------------------------
(***************************************************************************)
(* Properties, of a step                                                   *)
(***************************************************************************)

\* A calibration may follow one broken off at any sample, whose output type and
\* voltages nothing resets.  What it left is driven at most by the first sample,
\* and only when it was broken off while UqdRef turned the vector: from its
\* second sample on a calibration drives its own voltages or none.
OldVectorOnlyAtFirstSample ==
    CalibrationLoop /\ duty' = "old" => step \in {"R_START", "NULL"}

\* The inductance is measured over exactly num_L_cycles samples with voltages
\* of alternate sign, so that the current it leaves behind is that of one sample
\* at most, and the rotor is held still for the whole two seconds before its
\* turns are counted over exactly four electrical ones, whatever was broken off
\* before and at whatever count.
LoopsHaveTheirLength ==
    /\ LLoop /\ step' = "L_END" => looped' = NumL /\ push' \in {-1, 0, 1}
    /\ PPStart /\ step' = "PP_LOOP" => looped + 1 = HoldTime
    /\ PPLoop /\ step' = "PP_END" => looped' = PhaseEnd

\* Its loops have their length, and only its first sample may drive a vector
\* left over.
CalibrationIsComplete ==
    [][LoopsHaveTheirLength /\ OldVectorOnlyAtFirstSample]_calibVars

\* Every sample is a step of the CalibrationLoop of MotorDrive, which leaves
\* open when the loops end.
Drive == INSTANCE MotorDrive WITH
    ObserverType <- MotorObserver,
    calib <- step, status <- IF calibrating THEN "CALIBRATE" ELSE "IDLE",
    fault <- {}, pwmOn <- TRUE, duty <- "vec", svpwm <- "vec",
    enSpdPid <- FALSE, enSpdTraj <- FALSE, enCurPid <- FALSE,
    startup <- "Initialize", stopSt <- "Initialize", tgtDir <- "CCW", tgtWr <- 0,
    cmdRpm <- 0, preCmd <- 0, cmdDir <- "CCW", cmdWr <- 0, adcRdy <- TRUE, sampled <- TRUE,
    mpc <- "check", mreg <- 0, tpc <- "idle", ti <- 1, treg <- {},
    BreakEnable <- FALSE, MinRpm <- 1, MaxWr <- 0, WrMaxStep <- 1, WrEstimates <- {},
    HostRpms <- {}, HostCalibrates <- TRUE, VbusChecks <- <<>>, IsrFaults <- {}

IsCalibrationLoop == [][CalibrationLoop => Drive!CalibrationLoop]_calibVars

=============================================================================
