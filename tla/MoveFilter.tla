----------------------------- MODULE MoveFilter -----------------------------
(***************************************************************************)
(* FluxMoveFilter, the moving average of the flux observer's speed.  The   *)
(* ADC handler fills it (MoveFilter_Fill), the TMR3 handler that it may    *)
(* preempt averages it (MoveFilter_Calc), and main initialises it inside   *)
(* MotorSW_Init (FluxObserver_Init, MoveFilter_Init) with interrupts       *)
(* enabled.  The ADC handler fills only while the drive runs or stops; the *)
(* status may become DRV_STOP during MotorSW_Init, since bEnSpdTraj stays  *)
(* set after a trip and TMR3 then ends the reversal of the stopped drive   *)
(* (speed_set.c:107), so a Fill may fall anywhere into the initialisation. *)
(*                                                                         *)
(* Values are integers and no rounding is lost.  An average is kept as its *)
(* numerator and denominator.                                              *)
(***************************************************************************)
EXTENDS Integers, Sequences

CONSTANTS
    BufferSize,   \* the size MoveFilter_Init is called with
    Values        \* speeds the observer may report

ASSUME FilterParameters == BufferSize \in Nat \ {0} /\ Values \subseteq Int

Slots == 0 .. BufferSize - 1

VARIABLES
    \* FluxMoveFilter:
    buffer, size, index, filled, bufSum,
    null,         \* pBuffer is not set
    initAt,       \* main: its next statement in FluxObserver_Init
    slot,         \* the loop variable of MoveFilter_Init
    calcAt,       \* TMR3 in MoveFilter_Calc: "idle", or its next load
    num, sumDen,  \* its result: the sum it has loaded and what it divides by
    \* Histories, not in the program:
    recent,       \* the values filled since the initialisation, the last of them
    tornInit,     \* a Fill fell into the present initialisation
    late          \* a Fill fell between the two loads of this Calc

ringVars   == <<buffer, size, index, filled, bufSum, null>>
initVars   == <<initAt, slot>>
calcVars   == <<calcAt, num, sumDen>>
filterVars == <<ringVars, initVars, calcVars, recent, tornInit, late>>

FilterTypeOK ==
    /\ buffer \in [Slots -> Values \cup {0}]
    /\ size \in {0, BufferSize} /\ index \in Slots /\ filled \in 0..BufferSize
    /\ bufSum \in Int /\ null \in BOOLEAN
    /\ initAt \in {"elsewhere", "buffer", "size", "zero"} /\ slot \in 0..BufferSize
    /\ calcAt \in {"idle", "sum", "divide"}
    /\ num \in Int /\ sumDen \in 0..BufferSize
    /\ Len(recent) <= BufferSize
    /\ tornInit \in BOOLEAN /\ late \in BOOLEAN

\* main has run MotorSW_Init once before it enables interrupts.
FilterInit ==
    /\ buffer = [s \in Slots |-> 0] /\ size = BufferSize
    /\ index = 0 /\ filled = 0 /\ bufSum = 0 /\ null = FALSE
    /\ initAt = "elsewhere" /\ slot = 0
    /\ calcAt = "idle" /\ num = 0 /\ sumDen = 0
    /\ recent = <<>> /\ tornInit = FALSE /\ late = FALSE

-----------------------------------------------------------------------------
(***************************************************************************)
(* ADC: MoveFilter_Fill                                                    *)
(***************************************************************************)

Remembers(val) ==
    /\ recent' = LET all == Append(recent, val)
                 IN  IF Len(all) > BufferSize THEN Tail(all) ELSE all
    /\ tornInit' = (tornInit \/ initAt # "elsewhere")
    /\ late' = (late \/ calcAt # "idle")

FilterFill(val) ==
    /\ ~null
    /\ bufSum' = bufSum - buffer[index] + val
    /\ buffer' = [buffer EXCEPT ![index] = val]
    /\ index' = IF index + 1 >= size THEN 0 ELSE index + 1
    /\ filled' = IF filled < size THEN filled + 1 ELSE filled
    /\ Remembers(val)
    /\ UNCHANGED <<size, null, initVars, calcVars>>

\* pBuffer is NULL: the word at address 0 goes into the sum, and stays there if
\* the write to it is ignored.  (A fault handler would stop everything.)
FillNull(val) ==
    /\ null
    /\ bufSum' = 0 \/ bufSum' = val
    /\ Remembers(val)
    /\ UNCHANGED <<buffer, size, index, filled, null, initVars, calcVars>>

\* At most one conversion falls into a Calc (20 kHz against microseconds).
AdcFills == ~late /\ \E val \in Values : FilterFill(val) \/ FillNull(val)

-----------------------------------------------------------------------------
(***************************************************************************)
(* TMR3: MoveFilter_Calc                                                   *)
(***************************************************************************)

\* Nothing filled: Calc returns 0.  Otherwise the denominator is loaded ...
CalcLoads ==
    /\ calcAt = "idle" /\ filled # 0
    /\ sumDen' = IF filled < size THEN filled ELSE size
    /\ calcAt' = "sum" /\ late' = FALSE
    /\ UNCHANGED <<ringVars, initVars, num, recent, tornInit>>

\* ... and then the sum, which a Fill may have changed.
CalcSums ==
    /\ calcAt = "sum"
    /\ num' = bufSum /\ calcAt' = "divide"
    /\ UNCHANGED <<ringVars, initVars, sumDen, recent, tornInit, late>>

CalcReturns ==
    /\ calcAt = "divide"
    /\ calcAt' = "idle" /\ num' = 0 /\ sumDen' = 0 /\ late' = FALSE
    /\ UNCHANGED <<ringVars, initVars, recent, tornInit>>

FilterCalc == CalcLoads \/ CalcSums \/ CalcReturns

-----------------------------------------------------------------------------
(***************************************************************************)
(* Main: FluxObserver_Init.  TMR3 returns before main goes on.             *)
(***************************************************************************)

\* memset(&FluxMoveFilter, 0, sizeof(MoveFilter_t))
InitClears ==
    /\ initAt = "elsewhere" /\ calcAt = "idle"
    /\ size' = 0 /\ index' = 0 /\ filled' = 0 /\ bufSum' = 0 /\ null' = TRUE
    /\ initAt' = "buffer"
    /\ recent' = <<>> /\ tornInit' = FALSE
    /\ UNCHANGED <<buffer, slot, calcVars, late>>

InitSetsBuffer ==
    /\ initAt = "buffer" /\ calcAt = "idle"
    /\ null' = FALSE /\ initAt' = "size"
    /\ UNCHANGED <<buffer, size, index, filled, bufSum, slot, calcVars, recent, tornInit, late>>

InitSetsSize ==
    /\ initAt = "size" /\ calcAt = "idle"
    /\ size' = BufferSize /\ slot' = 0 /\ initAt' = "zero"
    /\ UNCHANGED <<buffer, index, filled, bufSum, null, calcVars, recent, tornInit, late>>

\* Mutant: the last slot keeps its value.
InitZeroesOneLess ==
    /\ initAt = "zero" /\ calcAt = "idle"
    /\ IF slot < size - 1
       THEN buffer' = [buffer EXCEPT ![slot] = 0] /\ slot' = slot + 1 /\ initAt' = initAt
       ELSE buffer' = buffer /\ slot' = 0 /\ initAt' = "elsewhere"
    /\ UNCHANGED <<size, index, filled, bufSum, null, calcVars, recent, tornInit, late>>

InitZeroes ==
    /\ initAt = "zero" /\ calcAt = "idle"
    /\ IF slot < size
       THEN buffer' = [buffer EXCEPT ![slot] = 0] /\ slot' = slot + 1 /\ initAt' = initAt
       ELSE buffer' = buffer /\ slot' = 0 /\ initAt' = "elsewhere"
    /\ UNCHANGED <<size, index, filled, bufSum, null, calcVars, recent, tornInit, late>>

MainInit == InitClears \/ InitSetsBuffer \/ InitSetsSize \/ InitZeroes

FilterNext == AdcFills \/ FilterCalc \/ MainInit

FilterSpec == FilterInit /\ [][FilterNext]_filterVars

-----------------------------------------------------------------------------
(***************************************************************************)
(* Properties                                                              *)
(***************************************************************************)

\* The sum of a sequence, from the sums of its beginnings.
Sums(values) ==
    LET upTo[n \in 0 .. Len(values)] == IF n = 0 THEN 0 ELSE upTo[n - 1] + values[n]
    IN  upTo

Total(values) == Sums(values)[Len(values)]

\* The running sum is the sum of the last BufferSize values filled since the
\* initialisation, over any number of turns of the ring and any old contents of
\* the buffer.  A Fill inside the initialisation is the excuse: its value, or
\* what it took out, stays in f32_BufSum for as long as the motor runs.
SumIsOfRecentValues ==
    initAt = "elsewhere" /\ ~tornInit =>
        bufSum = Total(recent) /\ filled = Len(recent)

\* MoveFilter_Calc never divides by 0, and divides the sum of the values filled
\* by their number; a Fill between its two loads adds one value to the sum of a
\* filter not yet full, or replaces one in the sum of a full one.
AverageOfRecentValues ==
    calcAt = "divide" /\ initAt = "elsewhere" /\ ~tornInit =>
        /\ sumDen # 0
        /\ ~late => num = Total(recent) /\ sumDen = Len(recent)
        /\ sumDen \in {Len(recent), Len(recent) - 1}

\* MoveFilter_Calc returns the average of the latest values, and the running sum
\* is theirs.
AverageIsOfRecentValues == SumIsOfRecentValues /\ AverageOfRecentValues

=============================================================================
