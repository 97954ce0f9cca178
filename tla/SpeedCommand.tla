---------------------------- MODULE SpeedCommand ----------------------------
(***************************************************************************)
(* The speed command with the width of an int32_t: the host stores or      *)
(* negates i32CmdRpm, main (Speed_CmdSpdSet) takes it on and writes it     *)
(* back raised to the minimum speed, TMR3 (Speed_TgtSpdTraj) ramps towards *)
(* it.  MotorDrive has the same words among the rest of the drive, with    *)
(* integers that do not wrap.                                              *)
(*                                                                         *)
(* One rpm is one unit of f32_CmdWr; i32BreakEnable is FALSE, as shipped.  *)
(***************************************************************************)
EXTENDS Integers

CONSTANTS
    IntMax,      \* INT32_MAX; the smallest integer is -IntMax - 1
    MinRpm,      \* i32MinRpm
    MaxWr,       \* f32_MaxWr
    WrMaxStep,   \* f32_WrMaxStep
    HostRpms,    \* what a frame 0x15 may carry
    WrEstimates  \* speeds the start-up hands over to the ramp

IntMin  == -IntMax - 1
Int32   == IntMin..IntMax

ASSUME SpeedAssumption ==
    /\ IntMax \in Nat /\ MinRpm \in 1..IntMax /\ MaxWr \in Nat
    /\ WrMaxStep \in Nat \ {0}
    /\ HostRpms \subseteq Int32 /\ WrEstimates \subseteq Int

VARIABLES
    cmd,      \* MotorCmdSpdSet.i32CmdRpm
    pre,      \* MotorCmdSpdSet.i32PreCmdRpm
    cmdDir,   \* MotorRunPara.i32CmdWrDir
    cmdWr,    \* MotorRunPara.f32_CmdWr
    pollPc,   \* where main is in Speed_CmdSpdSet
    reg,      \* the command main has loaded
    running,  \* the ramp is enabled
    tgtDir,   \* MotorRunPara.i32TgtWrDir
    tgtWr     \* MotorSpdCtrl.f32_TgtWr

mainVars  == <<pre, cmdDir, cmdWr, pollPc, reg>>
rampVars  == <<running, tgtDir, tgtWr>>
speedVars == <<cmd, mainVars, rampVars>>

SpeedTypeOK ==
    /\ cmd \in Int32 /\ pre \in Int32 /\ reg \in Int32
    /\ cmdWr \in Int /\ tgtWr \in Int
    /\ cmdDir \in {"CCW", "CW"} /\ tgtDir \in {"CCW", "CW"}
    /\ pollPc \in {"test", "store"} /\ running \in BOOLEAN

SpeedInit ==
    /\ cmd = 0 /\ pre = 0 /\ cmdDir = "CCW" /\ cmdWr = 0
    /\ pollPc = "test" /\ reg = 0
    /\ running = FALSE /\ tgtDir = "CCW" /\ tgtWr = 0

-----------------------------------------------------------------------------
\* The negation of an int32_t: the smallest one is its own.
Neg(n) == IF n = IntMin THEN n ELSE -n

HostSets     == cmd' \in HostRpms /\ UNCHANGED <<mainVars, rampVars>>
HostReverses == cmd' = Neg(cmd) /\ UNCHANGED <<mainVars, rampVars>>

-----------------------------------------------------------------------------
\* Main's test of i32CmdRpm, and the direction it stores.
Loads ==
    /\ pollPc = "test" /\ cmd # pre
    /\ reg' = cmd /\ pollPc' = "store"
    /\ cmdDir' = CASE cmd > 0 -> "CCW" [] cmd < 0 -> "CW" [] cmd = 0 -> cmdDir
    /\ UNCHANGED <<cmd, pre, cmdWr, rampVars>>

\* Mutant: compared as unsigned, the absolute value of the smallest int32_t is
\* large and not raised.
AbsRpmUnsigned(n) ==
    LET abs == IF n > 0 THEN n ELSE Neg(n)
    IN  IF n = 0 THEN 0 ELSE IF 0 <= abs /\ abs < MinRpm THEN MinRpm ELSE abs

AbsRpm(n) ==
    LET abs == IF n > 0 THEN n ELSE Neg(n)
    IN  IF n = 0 THEN 0 ELSE IF abs < MinRpm THEN MinRpm ELSE abs

\* Mutant: i32CmdRpm is not written back.
StoresOnlyPre ==
    /\ pollPc = "store" /\ pollPc' = "test"
    /\ pre' = IF reg < 0 THEN Neg(AbsRpm(reg)) ELSE AbsRpm(reg)
    /\ cmdWr' = AbsRpm(reg)
    /\ UNCHANGED <<cmd, cmdDir, reg, rampVars>>

\* The command is written back; one that came since Loads is lost.
Stores ==
    /\ pollPc = "store" /\ pollPc' = "test"
    /\ cmd' = IF reg < 0 THEN Neg(AbsRpm(reg)) ELSE AbsRpm(reg)
    /\ pre' = cmd'
    /\ cmdWr' = AbsRpm(reg)
    /\ UNCHANGED <<cmdDir, reg, rampVars>>

\* A fault, or the drive not ready: the command is dropped, the direction kept.
Drops ==
    /\ pollPc = "test"
    /\ cmd' = 0 /\ pre' = 0 /\ cmdWr' = 0
    /\ running' = FALSE
    /\ UNCHANGED <<cmdDir, pollPc, reg, tgtDir, tgtWr>>

\* Command 0 while running, or a command while not: the stop and the start-up
\* are cut short.
Stops ==
    /\ pollPc = "test" /\ cmd = pre /\ pre = 0 /\ running
    /\ running' = FALSE
    /\ UNCHANGED <<cmd, mainVars, tgtDir, tgtWr>>

Starts ==
    /\ pollPc = "test" /\ cmd = pre /\ pre # 0 /\ ~running
    /\ running' = TRUE /\ tgtDir' = cmdDir
    /\ tgtWr' \in WrEstimates
    /\ UNCHANGED <<cmd, mainVars>>

-----------------------------------------------------------------------------
\* CLAMP(x, -limit, limit)
Clip(x, limit) == IF x > limit THEN limit ELSE IF x < -limit THEN -limit ELSE x

Ramps ==
    /\ running /\ cmdDir = tgtDir
    /\ tgtWr' = Clip(tgtWr + Clip(cmdWr - tgtWr, WrMaxStep), MaxWr)
    /\ UNCHANGED <<cmd, mainVars, running, tgtDir>>

\* Against the new direction: down, and at the end DRV_STOP.
RampsDown ==
    /\ running /\ cmdDir # tgtDir
    /\ running' = (tgtWr >= WrMaxStep)
    /\ tgtWr' = Clip(IF tgtWr >= WrMaxStep THEN tgtWr - WrMaxStep ELSE WrMaxStep, MaxWr)
    /\ UNCHANGED <<cmd, mainVars, tgtDir>>

HostCommands == HostSets \/ HostReverses
Poll == Loads \/ Stores \/ Drops \/ Stops \/ Starts
Tmr3 == Ramps \/ RampsDown
SpeedNext == HostCommands \/ Poll \/ Tmr3

SpeedSpec == SpeedInit /\ [][SpeedNext]_speedVars

-----------------------------------------------------------------------------
(***************************************************************************)
(* Properties                                                              *)
(***************************************************************************)

\* Between two polls the four words agree: the speed is the size of the command
\* taken on, never negative, the command is 0 or not below the minimum speed,
\* and the direction is its sign.  So although the smallest int32_t has no
\* absolute value, it runs the motor the way it says.
CommandAgrees ==
    pollPc = "test" =>
        /\ cmdWr >= 0 /\ pre \in {cmdWr, -cmdWr}
        /\ pre # 0 => cmdWr >= MinRpm /\ cmdDir = (IF pre > 0 THEN "CCW" ELSE "CW")

\* Once the host is quiet and no fault drops the command, main stops writing it
\* back, and the motor ends up stopped or with its target at the command, cut at
\* the maximum, in the direction commanded: whatever was lost on the way, and
\* although a reversal has to ramp down, stop and start again.
SettlesAtCommand ==
    <>[][~HostCommands /\ ~Drops]_speedVars =>
        <>[](/\ cmd = pre
             /\ running => tgtDir = cmdDir /\ tgtWr = Clip(cmdWr, MaxWr)
             /\ running = (pre # 0))

=============================================================================
