------------------------------ MODULE BaseTimer ------------------------------
(***************************************************************************)
(* The time base: BTimer_IRQHandler, at every overflow of TMR3, and main's *)
(* OneMs_Define, which has to see its flag twice before the main loop (and *)
(* with it the host's commands) comes to run.                              *)
(*                                                                         *)
(* The flag is read at every turn of the wait: it is not volatile, and the *)
(* project is built without optimisation.                                  *)
(***************************************************************************)
EXTENDS Integers

CONSTANTS
    TicksPerMs,   \* 4
    MsPer100,     \* 100, of u8Time1ms
    HundredsPerS, \* 10, of u8Time100ms
    MaxTicks      \* bound: interrupts

ASSUME TimerParameters ==
    /\ TicksPerMs \in Nat /\ TicksPerMs >= 2
    /\ MsPer100 \in Nat \ {0} /\ HundredsPerS \in Nat \ {0} /\ MaxTicks \in Nat

VARIABLES
    tick,      \* u32TimeTickCnt
    ms,        \* u8Time1ms
    hundreds,  \* u8Time100ms
    seconds,   \* u32Time1s
    uevFlag,   \* u8BaseTimUevFlag
    waitAt,    \* main's next statement in OneMs_Define
    \* Histories, not in the program:
    ticks,     \* interrupts so far
    begun      \* ticks when main's first wait ended

clock     == <<tick, ms, hundreds, seconds>>
timerVars == <<clock, uevFlag, waitAt, ticks, begun>>

TimerTypeOK ==
    /\ tick \in 0 .. TicksPerMs - 1 /\ ms \in 0 .. MsPer100 - 1
    /\ hundreds \in 0 .. HundredsPerS - 1 /\ seconds \in Nat
    /\ uevFlag \in BOOLEAN /\ waitAt \in {"sync", "clear", "measure", "clearAgain", "loop"}
    /\ ticks \in Nat /\ begun \in Nat

TimerInit ==
    /\ tick = 0 /\ ms = 0 /\ hundreds = 0 /\ seconds = 0
    /\ uevFlag = FALSE /\ waitAt = "sync"
    /\ ticks = 0 /\ begun = 0

-----------------------------------------------------------------------------
\* n has reached its radix.
Carries(n, radix) == n >= radix

\* Main's next statement is not a millisecond away.
TimerIrq ==
    /\ ticks < MaxTicks /\ ~(uevFlag /\ tick = TicksPerMs - 1 /\ waitAt # "loop")
    /\ LET toMs == Carries(tick + 1, TicksPerMs)
           to100 == toMs /\ Carries(ms + 1, MsPer100)
           toS == to100 /\ Carries(hundreds + 1, HundredsPerS)
           Next1(n, carries) == IF carries THEN 0 ELSE n + 1
       IN  /\ tick' = Next1(tick, toMs)
           /\ uevFlag' = (uevFlag \/ toMs)
           /\ ms' = IF toMs THEN Next1(ms, to100) ELSE ms
           /\ hundreds' = IF to100 THEN Next1(hundreds, toS) ELSE hundreds
           /\ seconds' = IF toS THEN seconds + 1 ELSE seconds
    /\ ticks' = ticks + 1
    /\ UNCHANGED <<waitAt, begun>>

\* while (!u8BaseTimUevFlag)
Waits(from, to) ==
    /\ waitAt = from /\ uevFlag /\ waitAt' = to
    /\ UNCHANGED <<clock, uevFlag, ticks>>

Syncs    == Waits("sync", "clear") /\ begun' = ticks
Measures == Waits("measure", "clearAgain") /\ UNCHANGED begun

\* Mutant: the flag of the first wait is left.
ClearsNothing ==
    /\ waitAt \in {"clear", "clearAgain"}
    /\ waitAt' = IF waitAt = "clear" THEN "measure" ELSE "loop"
    /\ UNCHANGED <<clock, uevFlag, ticks, begun>>

Clears ==
    /\ waitAt \in {"clear", "clearAgain"}
    /\ uevFlag' = FALSE
    /\ waitAt' = IF waitAt = "clear" THEN "measure" ELSE "loop"
    /\ UNCHANGED <<clock, ticks, begun>>

OneMsDefine == Syncs \/ Measures \/ Clears

\* At the bound nothing more is explored.
Bounded == ticks = MaxTicks /\ waitAt = "loop" /\ UNCHANGED timerVars

TimerNext == TimerIrq \/ OneMsDefine \/ Bounded
TimerSpec == TimerInit /\ [][TimerNext]_timerVars

-----------------------------------------------------------------------------
(***************************************************************************)
(* Properties                                                              *)
(***************************************************************************)

\* The four counters together are the number of interrupts: none is lost or
\* counted twice at a carry.
CountersAgree ==
    ticks = ((seconds * HundredsPerS + hundreds) * MsPer100 + ms) * TicksPerMs + tick

\* The wait that sizes delay_ms is a millisecond long, but for what main is late
\* at either end: one flag lies between the two, neither none, though the first
\* is set when the wait begins, nor two.
MeasuresOneMs ==
    [][Measures => ticks \div TicksPerMs = begun \div TicksPerMs + 1]_timerVars

\* No interrupt is lost or counted twice by the time base, and main measures one
\* millisecond.
KeepsTime == []CountersAgree /\ MeasuresOneMs

=============================================================================
