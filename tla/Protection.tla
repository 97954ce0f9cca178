----------------------------- MODULE Protection -----------------------------
(***************************************************************************)
(* The counters behind MotorRunPara.u32FaultCode.  Prot_MonitorVbus, in    *)
(* the TMR3 interrupt, debounces the bus voltage with three up/down        *)
(* counters; Prot_MotorOverCurrent, in the ADC interrupt that preempts it, *)
(* counts samples to a trip and calm samples to its release.  Both update  *)
(* the one fault word, TMR3 with a load and a store between which the ADC  *)
(* interrupt may run, so either side's bit can be lost or come back.       *)
(*                                                                         *)
(* A voltage is abstracted to the thresholds it passes and a current       *)
(* sample to whether a phase is above the limit.  The times are computed   *)
(* from the configuration as MotorSW_Init computes them.                   *)
(***************************************************************************)
EXTENDS Integers

CONSTANTS
    SysTickerFreqHz,      \* MotorCfg.f32SysTickerFreqHz
    OverVoltageTimeUs, UnderVoltageTimeUs, AbnormalVbusTimeUs, PeakOverCurrTimeUs,
    PeakOcpTime,          \* MotorProtectOC.i32PeakOcpTime, in samples
    ErrClrTime            \* MotorProtectOC.i32ErrClrTime, in samples

Ticks(us) == (SysTickerFreqHz * us) \div 1000000

Checks == {"OV", "UV", "ABNORM"}

\* MotorProtectVbus.i32OvpTime comes from the over-current time.
CheckTime ==
    [c \in Checks |-> Ticks(CASE c = "OV" -> PeakOverCurrTimeUs
                              [] c = "UV" -> UnderVoltageTimeUs
                              [] c = "ABNORM" -> AbnormalVbusTimeUs)]

ASSUME TimesAssumption ==
    /\ SysTickerFreqHz \in Nat
    /\ OverVoltageTimeUs \in Nat /\ UnderVoltageTimeUs \in Nat
    /\ AbnormalVbusTimeUs \in Nat /\ PeakOverCurrTimeUs \in Nat
    /\ PeakOcpTime \in Nat \ {0}
    /\ ErrClrTime \in Nat /\ ErrClrTime >= PeakOcpTime

\* The thresholds a voltage passes: 6 V < 8 V < 26 V < 28 V.
Levels == {"abnormalLow", "low", "normal", "high", "abnormalHigh"}
Passes(level) ==
    {c \in Checks : \/ c = "OV" /\ level \in {"high", "abnormalHigh"}
                    \/ c = "UV" /\ level \in {"low", "abnormalLow"}
                    \/ c = "ABNORM" /\ level \in {"abnormalHigh", "abnormalLow"}}

VARIABLES
    fault,    \* MotorRunPara.u32FaultCode, as the set of its bits
    cnt,      \* i32OvpCnt, i32UvpCnt, i32AbnormalCnt
    ocpCnt,   \* i32PeakOcpCnt
    tpc,      \* TMR3: the check of Prot_MonitorVbus it is at, or "idle"
    level,    \* the filtered bus voltage of this tick
    loaded,   \* whether TMR3 is between the load and the store of the fault word
    treg,     \* the word it is about to store
    hit,      \* a conversion has fallen between a load and a store of this tick
    sampled,  \* a conversion has come since TMR3 last returned
    \* Histories, not in the program:
    above, below,  \* consecutive ticks a check's condition has held, has not
    over, calm     \* consecutive samples above the limit, not above it

tmrVars == <<cnt, tpc, level, loaded, treg, above, below>>
ocVars  == <<ocpCnt, over, calm>>
vars    == <<fault, tmrVars, ocVars, hit, sampled>>

TypeOK ==
    /\ fault \subseteq Checks \cup {"OC_PEAK"}
    /\ cnt \in [Checks -> Nat]
    /\ ocpCnt \in -1 .. ErrClrTime
    /\ tpc \in Checks \cup {"idle"}
    /\ level \in Levels
    /\ loaded \in BOOLEAN /\ (loaded => tpc # "idle")
    /\ treg \subseteq Checks \cup {"OC_PEAK"}
    /\ hit \in BOOLEAN /\ sampled \in BOOLEAN
    /\ above \in [Checks -> Nat] /\ below \in [Checks -> Nat]
    /\ over \in Nat /\ calm \in Nat

\* Interrupts are enabled with the fault word and the counters clear.
Init ==
    /\ fault = {} /\ cnt = [c \in Checks |-> 0] /\ ocpCnt = 0
    /\ tpc = "idle" /\ level = "normal" /\ loaded = FALSE /\ treg = {}
    /\ hit = FALSE /\ sampled = FALSE
    /\ above = [c \in Checks |-> 0] /\ below = [c \in Checks |-> 0]
    /\ over = 0 /\ calm = 0

\* Histories saturate one past the time they are compared with.
Bump(n, time) == IF n > time THEN n ELSE n + 1

-----------------------------------------------------------------------------
(***************************************************************************)
(* TMR3: Prot_MonitorVbus                                                  *)
(***************************************************************************)

\* At least one conversion lies between two ticks (20 kHz against 4 kHz).
TmrTick ==
    /\ tpc = "idle" /\ sampled
    /\ tpc' = "OV"
    /\ level' \in Levels
    /\ hit' = FALSE
    /\ UNCHANGED <<fault, cnt, loaded, treg, above, below, ocVars, sampled>>

Goes(c) == tpc' = CASE c = "OV" -> "UV" [] c = "UV" -> "ABNORM" [] c = "ABNORM" -> "idle"
Returns(c) == sampled' = IF c = "ABNORM" THEN FALSE ELSE sampled

Remember(c) ==
    IF c \in Passes(level)
    THEN /\ above' = [above EXCEPT ![c] = Bump(@, CheckTime[c])]
         /\ below' = [below EXCEPT ![c] = 0]
    ELSE /\ above' = [above EXCEPT ![c] = 0]
         /\ below' = [below EXCEPT ![c] = Bump(@, CheckTime[c])]

\* Mutant: one tick more before the bit is set.
TmrCountsLate(c) ==
    /\ tpc = c /\ ~loaded
    /\ \/ c \in Passes(level) /\ cnt[c] <= CheckTime[c] /\ cnt' = [cnt EXCEPT ![c] = @ + 1]
       \/ c \notin Passes(level) /\ cnt[c] > 0 /\ cnt' = [cnt EXCEPT ![c] = @ - 1]
    /\ Remember(c)
    /\ Goes(c) /\ Returns(c)
    /\ UNCHANGED <<fault, level, loaded, treg, ocVars, hit>>

\* The counter moves: up while the condition holds, down while it does not.
TmrCounts(c) ==
    /\ tpc = c /\ ~loaded
    /\ \/ c \in Passes(level) /\ cnt[c] < CheckTime[c] /\ cnt' = [cnt EXCEPT ![c] = @ + 1]
       \/ c \notin Passes(level) /\ cnt[c] > 0 /\ cnt' = [cnt EXCEPT ![c] = @ - 1]
    /\ Remember(c)
    /\ Goes(c) /\ Returns(c)
    /\ UNCHANGED <<fault, level, loaded, treg, ocVars, hit>>

\* The counter is at its end: the fault word is loaded and the bit set in it
\* or cleared in it ...
TmrLoads(c) ==
    /\ tpc = c /\ ~loaded
    /\ \/ c \in Passes(level) /\ ~(cnt[c] < CheckTime[c]) /\ treg' = fault \cup {c}
       \/ c \notin Passes(level) /\ ~(cnt[c] > 0) /\ treg' = fault \ {c}
    /\ loaded' = TRUE
    /\ Remember(c)
    /\ UNCHANGED <<fault, cnt, tpc, level, ocVars, hit, sampled>>

\* ... and stored.
TmrStores(c) ==
    /\ tpc = c /\ loaded
    /\ fault' = treg
    /\ loaded' = FALSE /\ treg' = {}
    /\ Goes(c) /\ Returns(c)
    /\ UNCHANGED <<cnt, level, above, below, ocVars, hit>>

-----------------------------------------------------------------------------
(***************************************************************************)
(* The ADC interrupt: Prot_MotorOverCurrent                                *)
(***************************************************************************)

\* The load-store windows of one tick lie within a few microseconds of each
\* other and conversions are 50 us apart: at most one falls into a window.
SampleBegins ==
    /\ ~(loaded /\ hit)
    /\ hit' = (hit \/ loaded)
    /\ sampled' = TRUE

\* Mutant: strictly more samples than i32PeakOcpTime.
SampleOverStrict ==
    /\ SampleBegins
    /\ over' = Bump(over, PeakOcpTime) /\ calm' = 0
    /\ IF "OC_PEAK" \in fault
       THEN ocpCnt' = ErrClrTime /\ UNCHANGED fault
       ELSE IF ocpCnt + 1 > PeakOcpTime
       THEN ocpCnt' = ErrClrTime /\ fault' = fault \cup {"OC_PEAK"}
       ELSE ocpCnt' = ocpCnt + 1 /\ UNCHANGED fault
    /\ UNCHANGED tmrVars

\* Mutant: the release count goes on where it was.
SampleOverResumes ==
    /\ SampleBegins
    /\ over' = Bump(over, PeakOcpTime) /\ calm' = 0
    /\ IF "OC_PEAK" \in fault
       THEN UNCHANGED <<ocpCnt, fault>>
       ELSE IF ocpCnt + 1 >= PeakOcpTime
       THEN ocpCnt' = ErrClrTime /\ fault' = fault \cup {"OC_PEAK"}
       ELSE ocpCnt' = ocpCnt + 1 /\ UNCHANGED fault
    /\ UNCHANGED tmrVars

\* A phase is above the limit.
SampleOver ==
    /\ SampleBegins
    /\ over' = Bump(over, PeakOcpTime) /\ calm' = 0
    /\ IF "OC_PEAK" \in fault
       THEN ocpCnt' = ErrClrTime /\ UNCHANGED fault
       ELSE IF ocpCnt + 1 >= PeakOcpTime
       THEN ocpCnt' = ErrClrTime /\ fault' = fault \cup {"OC_PEAK"}
       ELSE ocpCnt' = ocpCnt + 1 /\ UNCHANGED fault
    /\ UNCHANGED tmrVars

\* Mutant: the release is tested with = instead of <=.
SampleCalmExactly ==
    /\ SampleBegins
    /\ over' = 0 /\ calm' = Bump(calm, ErrClrTime)
    /\ IF "OC_PEAK" \in fault
       THEN /\ ocpCnt' = ocpCnt - 1
            /\ fault' = IF ocpCnt - 1 = 0 THEN fault \ {"OC_PEAK"} ELSE fault
       ELSE ocpCnt' = 0 /\ UNCHANGED fault
    /\ UNCHANGED tmrVars

\* No phase is.
SampleCalm ==
    /\ SampleBegins
    /\ over' = 0 /\ calm' = Bump(calm, ErrClrTime)
    /\ IF "OC_PEAK" \in fault
       THEN /\ ocpCnt' = ocpCnt - 1
            /\ fault' = IF ocpCnt - 1 <= 0 THEN fault \ {"OC_PEAK"} ELSE fault
       ELSE ocpCnt' = 0 /\ UNCHANGED fault
    /\ UNCHANGED tmrVars

Sample == SampleOver \/ SampleCalm

Next == \/ TmrTick
        \/ \E c \in Checks : TmrCounts(c) \/ TmrLoads(c) \/ TmrStores(c)
        \/ Sample

Spec == Init /\ [][Next]_vars

-----------------------------------------------------------------------------
(***************************************************************************)
(* Properties                                                              *)
(***************************************************************************)

\* The bus-voltage bits follow a sustained level although the ADC handler
\* rewrites the same word: once a condition has held for one tick more than its
\* time the bit is set, once it has not held for as long the bit is clear.
\* (Not while TMR3 is between loading and storing the word for that check.)
VbusFollowsSustainedLevel ==
    \A c \in Checks : ~(loaded /\ tpc = c) =>
        /\ above[c] > CheckTime[c] => c \in fault
        /\ below[c] > CheckTime[c] => c \notin fault

\* A store by TMR3 may erase a trip the ADC handler has just recorded, but an
\* over-current that goes on is not missed: with more than i32PeakOcpTime
\* samples in a row above the limit the handler leaves with the bit set.
SustainedOvercurrentTrips ==
    [][SampleOver /\ over' > PeakOcpTime => "OC_PEAK" \in fault']_vars

\* The handler itself releases a trip only after i32ErrClrTime calm samples in
\* a row, also when a store by TMR3 has brought the bit back.
OvercurrentReleasedOnlyAfterCalm ==
    [][Sample /\ "OC_PEAK" \in fault /\ "OC_PEAK" \notin fault' =>
         calm' >= ErrClrTime]_vars

\* An over-voltage trips when its counter has reached the time configured for
\* over-voltage ("Over voltage (V)", i32OverVoltageTimeUs).
OvervoltageTripsAtItsOwnTime ==
    [][TmrLoads("OV") /\ "OV" \in treg' => cnt["OV"] >= Ticks(OverVoltageTimeUs)]_vars

=============================================================================
