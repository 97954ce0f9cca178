----------------------------- MODULE OffsetCheck -----------------------------
(***************************************************************************)
(* Adc_CheckOffset, called by every ADC interrupt until the drive is       *)
(* ready: wait, add up readings of the three phases, divide and compare.   *)
(* The sums are exact: 1000 readings of 12 bits fit a float32_t.           *)
(*                                                                         *)
(* f32IuOffset and its like are kept as the fraction off[p] / den.  What   *)
(* has been divided past DenMax has become 0, as a float32_t does.         *)
(***************************************************************************)
EXTENDS Integers

CONSTANTS
    DelayTime,   \* i32DelayTime
    DetectTime,  \* i32OffsetDetectTime
    RefOffset,   \* i32RefOffset
    MaxBias,     \* i32MaxOffsetBias
    Readings,    \* what the converter may read
    DenMax       \* bound on the denominators

\* The last conjunct: the bounds exclude what a second division can give.
ASSUME OffsetAssumption ==
    /\ DelayTime \in Nat /\ DetectTime \in Nat \ {0, 1}
    /\ RefOffset \in Nat /\ MaxBias \in Nat /\ MaxBias < RefOffset
    /\ DenMax \in Nat /\ DetectTime <= DenMax
    /\ Readings \subseteq Nat
    /\ \A r \in Readings : r < DetectTime * (RefOffset - MaxBias)

Phases == {"U", "V", "W"}

VARIABLES
    delay,      \* i32DelayTime as it runs down
    detectCnt,  \* i32OffsetDetectCnt
    off,        \* the numerators of the offsets
    den,        \* their denominator
    fault,      \* ERR_AD_OFFSET is in u32FaultCode
    ready       \* bAdcRdy

offsetVars == <<delay, detectCnt, off, den, fault, ready>>

OffsetTypeOK ==
    /\ delay \in 0..DelayTime /\ detectCnt \in 0..DetectTime
    /\ off \in [Phases -> Nat] /\ den \in 1..DenMax
    /\ fault \in BOOLEAN /\ ready \in BOOLEAN

\* Adc_InitSample.
OffsetInit ==
    /\ delay = DelayTime /\ detectCnt = 0
    /\ off = [p \in Phases |-> 0] /\ den = 1
    /\ fault = FALSE /\ ready = FALSE

-----------------------------------------------------------------------------
Wait ==
    /\ ~ready /\ delay > 0
    /\ delay' = delay - 1
    /\ UNCHANGED <<detectCnt, off, den, fault, ready>>

Accumulate ==
    /\ ~ready /\ delay = 0 /\ detectCnt < DetectTime
    /\ \E r \in [Phases -> Readings] : off' = [p \in Phases |-> off[p] + r[p]]
    /\ detectCnt' = detectCnt + 1
    /\ UNCHANGED <<delay, den, fault, ready>>

\* fabsf(offset - i32RefOffset) <= i32MaxOffsetBias
InBounds(num, d) == (RefOffset - MaxBias) * d <= num /\ num <= (RefOffset + MaxBias) * d

\* The offset is divided where it is, at every call.
Divided ==
    IF den * detectCnt <= DenMax
    THEN den' = den * detectCnt /\ off' = off
    ELSE den' = den /\ off' = [p \in Phases |-> 0]

\* Mutant: below the bounds is accepted.
CheckAbove ==
    /\ ~ready /\ delay = 0 /\ detectCnt >= DetectTime
    /\ Divided
    /\ IF \A p \in {"U", "V"} : off'[p] <= (RefOffset + MaxBias) * den'
       THEN ready' = TRUE /\ fault' = fault
       ELSE fault' = TRUE /\ ready' = ready
    /\ UNCHANGED <<delay, detectCnt>>

\* Phase W is divided and not compared.
Check ==
    /\ ~ready /\ delay = 0 /\ detectCnt >= DetectTime
    /\ Divided
    /\ IF \A p \in {"U", "V"} : InBounds(off'[p], den')
       THEN ready' = TRUE /\ fault' = fault
       ELSE fault' = TRUE /\ ready' = ready
    /\ UNCHANGED <<delay, detectCnt>>

CheckOffset == Wait \/ Accumulate \/ Check

\* From then on the interrupt calls Motor_MainIsrHandler instead.
Sampling == ready /\ UNCHANGED offsetVars

OffsetNext == CheckOffset \/ Sampling
OffsetSpec == OffsetInit /\ [][OffsetNext]_offsetVars

-----------------------------------------------------------------------------
(***************************************************************************)
(* Properties                                                              *)
(***************************************************************************)

\* The drive becomes ready only with the mean of exactly DetectTime readings,
\* divided once, and with that of U and of V within the bias.
ReadyOnMeans ==
    ready => /\ den = DetectTime /\ detectCnt = DetectTime
             /\ \A p \in {"U", "V"} : InBounds(off[p], DetectTime)

\* A bad measurement is final.  The code measures nothing again but divides the
\* same offset at every interrupt: however far that goes, it never drifts into
\* the bounds, so that the drive does not start on an offset it has made up.
OffsetFaultIsFinal == ~(fault /\ ready)

=============================================================================
