--------------------------------- MODULE Hfi ---------------------------------
(***************************************************************************)
(* High-frequency injection: the polarity search of HFI_Calculate, the     *)
(* sign of the injected voltage and of its demodulation, and what the      *)
(* start-up does meanwhile.  Samples come from the ADC handler in DRV_RUN  *)
(* and DRV_STOP; main initialises in MotorSW_Init with interrupts enabled. *)
(*                                                                         *)
(* MotorHFI.f32_WrF, which nothing writes, is 0, so HFI2Observer_Calculate *)
(* takes its first branch at every sample: the injection is enabled, at    *)
(* f32_InjectMagMin, and the angle is HFI's.  The PLL is left out.         *)
(***************************************************************************)
EXTENDS Integers

CONSTANTS
    ObserverType,  \* MotorCfg.i32ObserverType
    Settle,        \* samples before the first pulse, 10400
    Pulse,         \* samples a pulse is held before it is measured, 200
    Take,          \* samples added up, 10
    Pause,          \* samples between the pulses, 200
    Responses      \* f32_IdHigh

ASSUME HfiParameters ==
    /\ ObserverType \in {"HFI", "HFI_SMO", "HFI_FLUX"}
    /\ Settle \in Nat \ {0} /\ Pulse \in Nat \ {0}
    /\ Take \in Nat \ {0} /\ Pause \in Nat \ {0}
    /\ Responses \subseteq Nat

\* The counts at which HFI_Calculate changes over.
Positive     == Settle
TakePositive == Positive + Pulse
Zero         == TakePositive + Take
Negative     == Zero + Pause
TakeNegative == Negative + Pulse
Over         == TakeNegative + Take

VARIABLES
    status,      \* MotorRunPara.u32MotorStatus
    startup,     \* MotorStartup.status
    closed,      \* bEnCurrentPid
    dRef,        \* IqdRef.f32_D
    memsetAt,    \* main, in HFI_Init: the memset has reached the flags
    sampleDir,   \* u8_Dir
    nsdFlag,     \* u8_NSDFlag
    nsdOut,      \* u8_NSDOut
    enable,      \* u8_Enable
    nsdCount,    \* u16_NSDCount
    sum1, sum2,  \* f32_NSDSum1, f32_NSDSum2
    idRef,       \* MotorHFI.f32_IdRef
    turned,      \* half turns added to f32_ThetaEst
    \* Histories, not in the program:
    injected,    \* the sign of the voltage the last sample has injected, 0 for none
    held,        \* samples idRef has had its value for, up to Pulse
    n1, n2,      \* samples in sum1 and sum2
    tornHfi      \* a sample fell into the memset

driveVars == <<status, startup, closed, dRef>>
flagVars  == <<sampleDir, nsdFlag, nsdOut, enable>>
nsdVars   == <<nsdCount, sum1, sum2, idRef, turned, held, n1, n2>>
hfiVars   == <<driveVars, flagVars, nsdVars, memsetAt, injected, tornHfi>>

HfiTypeOK ==
    /\ status \in {"IDLE", "DRV_RUN", "DRV_STOP"}
    /\ startup \in {"Initialize", "BscCharge", "StateDetect", "CLStart", "Finish"}
    /\ closed \in BOOLEAN /\ dRef = 0 /\ memsetAt \in {"elsewhere", "memset"}
    /\ sampleDir \in {0, 1} /\ nsdFlag \in {0, 1} /\ nsdOut \in {0, 1} /\ enable \in {0, 1}
    /\ nsdCount \in 0..Over /\ sum1 \in Nat /\ sum2 \in Nat /\ idRef \in {-5, 0, 5}
    /\ turned \in 0..2 /\ injected \in {-1, 0, 1} /\ held \in 0..Pulse
    /\ n1 \in 0..Take /\ n2 \in 0..Take /\ tornHfi \in BOOLEAN

\* main has run MotorSW_Init once.
HfiInit ==
    /\ status = "IDLE" /\ startup = "Initialize" /\ closed = FALSE /\ dRef = 0
    /\ memsetAt = "elsewhere"
    /\ sampleDir = 0 /\ nsdFlag = 0 /\ nsdOut = 0 /\ enable = 0
    /\ nsdCount = 0 /\ sum1 = 0 /\ sum2 = 0 /\ idRef = 0 /\ turned = 0
    /\ injected = 0 /\ held = 0 /\ n1 = 0 /\ n2 = 0 /\ tornHfi = FALSE

-----------------------------------------------------------------------------
(***************************************************************************)
(* HFI_Calculate, HFI2Observer_Calculate                                   *)
(***************************************************************************)

\* f32_IdRef at a count; at the last one it stays.
RefAt(n) == IF n > Over THEN idRef
            ELSE IF n < Zero THEN 5
            ELSE IF n >= Negative /\ n < Over THEN -5 ELSE 0

Takes1(n) == n >= TakePositive /\ n < Zero

\* Mutant: the second sum is begun with the pulse.
Takes2Early(n) == n >= Negative /\ n < Negative + Take

Takes2(n) == n >= TakeNegative /\ n < Over

\* The polarity search, u8_NSDFlag == 0.
Searches(response) ==
    LET n == nsdCount + 1 IN
    /\ nsdCount' = IF n > Over THEN 0 ELSE n
    /\ idRef' = RefAt(n)
    /\ held' = IF idRef' # idRef THEN 1 ELSE IF held = Pulse THEN held ELSE held + 1
    /\ sum1' = (IF Takes1(n) THEN sum1 + response ELSE sum1)
    /\ sum2' = (IF Takes2(n) THEN sum2 + response ELSE sum2)
    /\ n1' = (IF Takes1(n) THEN n1 + 1 ELSE n1)
    /\ n2' = (IF Takes2(n) THEN n2 + 1 ELSE n2)
    /\ nsdFlag' = IF n > Over THEN 1 ELSE 0
    /\ nsdOut' = IF n > Over THEN (IF sum2 > sum1 THEN 1 ELSE 0) ELSE nsdOut
    /\ UNCHANGED turned

\* After it: a verdict not yet used turns the estimate by half a turn.
Tracks ==
    /\ turned' = turned + nsdOut
    /\ nsdOut' = 0
    /\ UNCHANGED <<nsdFlag, nsdCount, sum1, sum2, idRef, held, n1, n2>>

\* The sign with which a sample takes the difference of the currents.
Demodulates == IF sampleDir = 0 THEN 1 ELSE -1

Calculates ==
    /\ sampleDir' = 1 - sampleDir
    /\ IF nsdFlag = 0 THEN \E r \in Responses : Searches(r) ELSE Tracks
    /\ enable' = IF ObserverType = "HFI" THEN enable ELSE 1

-----------------------------------------------------------------------------
(***************************************************************************)
(* The ADC handler                                                         *)
(***************************************************************************)

\* Startup_Control for this observer: the loop is closed at StateDetect, and the
\* next two samples end the start-up.
StartupControl ==
    /\ startup' = CASE startup = "Initialize"  -> "BscCharge"
                    [] startup = "BscCharge"   -> "StateDetect"
                    [] startup = "StateDetect" -> "CLStart"
                    [] startup \in {"CLStart", "Finish"} -> "Finish"
    /\ closed' = (closed \/ startup = "StateDetect")
    /\ dRef' = IF startup = "StateDetect" THEN 0 ELSE dRef

\* The d voltage: f32_Uin is added or subtracted.
Injects == injected' = IF closed' /\ enable' = 1 THEN (IF sampleDir' = 0 THEN 1 ELSE -1) ELSE 0

RunSample ==
    /\ status = "DRV_RUN"
    /\ Calculates /\ StartupControl /\ Injects
    /\ UNCHANGED <<status, memsetAt, tornHfi>>

FastStop ==
    /\ status' = "IDLE" /\ closed' = FALSE /\ dRef' = 0 /\ injected' = 0
    /\ UNCHANGED startup

\* Stop_Control stops at its first sample.
StopSample ==
    /\ status = "DRV_STOP"
    /\ Calculates /\ FastStop
    /\ tornHfi' = (tornHfi \/ memsetAt = "memset")
    /\ UNCHANGED memsetAt

\* A fault, or a sample in IDLE.
Trips ==
    /\ status # "DRV_STOP" /\ FastStop
    /\ UNCHANGED <<flagVars, nsdVars, memsetAt, tornHfi>>

-----------------------------------------------------------------------------
(***************************************************************************)
(* Main and TMR3                                                           *)
(***************************************************************************)

\* HFI_Init, in MotorSW_Init: its memset clears the flags ...
InitFlags ==
    /\ status = "IDLE" /\ memsetAt = "elsewhere"
    /\ sampleDir' = 0 /\ nsdFlag' = 0 /\ nsdOut' = 0 /\ enable' = 0
    /\ memsetAt' = "memset" /\ tornHfi' = FALSE
    /\ UNCHANGED <<driveVars, nsdVars, injected>>

\* ... then the rest.  Startup_Init, and DRV_RUN.
InitRest ==
    /\ memsetAt = "memset"
    /\ nsdCount' = 0 /\ sum1' = 0 /\ sum2' = 0 /\ idRef' = 0 /\ turned' = 0
    /\ held' = 0 /\ n1' = 0 /\ n2' = 0
    /\ memsetAt' = "elsewhere" /\ startup' = "Initialize" /\ closed' = FALSE
    /\ status' = "DRV_RUN"
    /\ UNCHANGED <<dRef, flagVars, injected, tornHfi>>

\* Main or TMR3 ends the run; TMR3 may also store DRV_STOP while main is in
\* MotorSW_Init (speed_set.c:107).  (The memset is shorter than a sample period:
\* one sample at most falls into it.)
RunStops ==
    /\ status = "DRV_RUN" \/ (memsetAt = "memset" /\ ~tornHfi)
    /\ status' = "DRV_STOP"
    /\ UNCHANGED <<startup, closed, dRef, flagVars, nsdVars, memsetAt, injected, tornHfi>>

HfiNext == RunSample \/ StopSample \/ Trips \/ InitFlags \/ InitRest \/ RunStops
HfiSpec == HfiInit /\ [][HfiNext]_hfiVars

-----------------------------------------------------------------------------
(***************************************************************************)
(* Properties                                                              *)
(***************************************************************************)

\* The polarity is decided on exactly Take samples of either sign, each taken
\* after its reference has been held for Pulse samples, whatever run before was
\* broken off and wherever its search stood.
DecidedOnHeldPulses ==
    [][/\ n1' > n1 => idRef = 5 /\ held = Pulse
       /\ n2' > n2 => idRef = -5 /\ held = Pulse
       /\ nsdFlag' > nsdFlag => n1 = Take /\ n2 = Take]_hfiVars

\* The estimate is turned once and only if the verdict says so.  A stopping
\* sample inside the memset is the excuse: it may end the old search, and the
\* new run goes by its verdict.
TurnedByVerdict ==
    /\ turned <= 1
    /\ nsdFlag = 1 /\ nsdOut = 0 /\ ~tornHfi => (turned = 1 <=> sum2 > sum1)

\* A sample is demodulated with the sign of the voltage that was injected before
\* it, across stops and new runs.
DemodulatesWhatIsInjected == injected # 0 => injected = Demodulates

\* The polarity search decides on whole windows after held references, its
\* verdict turns the angle once, and each sample is demodulated with the sign it
\* was injected with.
PolarityIsDecidedOnce ==
    [](TurnedByVerdict /\ DemodulatesWhatIsInjected) /\ DecidedOnHeldPulses

\* hfi.c:63 says that stage 1 applies a current pulse of +5 A: with the loop
\* closed, its d reference is that of the search.
PulseIsApplied ==
    closed /\ nsdFlag = 0 /\ nsdCount >= Positive /\ nsdCount < TakePositive => dRef = 5

=============================================================================
