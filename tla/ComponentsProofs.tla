--------------------------- MODULE ComponentsProofs ---------------------------
(***************************************************************************)
(* Proofs about the components beside the drive.  First what main's loop   *)
(* lives on: SpeedCommand, the command it takes over, for every width of   *)
(* the integers, every minimum and maximum speed and every host;           *)
(* BaseTimer, the millisecond it waits for, for every radix of the         *)
(* counters; UsbLink, the packets it sends: one at a time for every host   *)
(* that neither halts endpoint 1, nor clears a halt, nor configures a      *)
(* configured device again, the agreement on the configuration and the     *)
(* steps to the next packet for every host.  Then all the components of    *)
(* MCComponents together.                                                  *)
(***************************************************************************)
EXTENDS MCComponents, EncoderProofs, ObserverProofs, PowerStageProofs, TLAPS

-----------------------------------------------------------------------------
(***************************************************************************)
(* SpeedCommand                                                            *)
(***************************************************************************)

\* Negating an int32_t, and raising its size to the minimum speed, stay within
\* the int32_t; the smallest, which has no absolute value, counts as the minimum.
LEMMA RpmSizes ==
  ASSUME NEW n \in Int32
  PROVE  /\ Neg(n) \in Int32 /\ Neg(AbsRpm(n)) = -AbsRpm(n)
         /\ AbsRpm(n) \in 0..IntMax
         /\ n # 0 => AbsRpm(n) >= MinRpm
         /\ n = 0 => AbsRpm(n) = 0
  <1>1. /\ IntMax \in Int /\ MinRpm \in Int /\ 1 <= MinRpm /\ MinRpm <= IntMax
        /\ IntMin = -IntMax - 1 /\ n \in Int /\ IntMin <= n /\ n <= IntMax
    BY SpeedAssumption DEF Int32, IntMin
  <1>2. Neg(n) \in Int32
    BY <1>1 DEF Neg, Int32
  <1>3. QED
    BY <1>1, <1>2 DEF Neg, AbsRpm

\* CLAMP yields an integer.
LEMMA ClipInt == ASSUME NEW x \in Int, NEW limit \in Int PROVE Clip(x, limit) \in Int
  BY DEF Clip

-----------------------------------------------------------------------------
\* Every word of the command stays within the int32_t.
THEOREM SpeedTypeCorrect == SpeedSpec => []SpeedTypeOK
<1> USE SpeedAssumption
<1>0. 0 \in Int32 /\ Int32 \subseteq Int
  BY DEF Int32, IntMin
<1>1. SpeedInit => SpeedTypeOK
  BY <1>0 DEF SpeedInit, SpeedTypeOK
<1>2. SpeedTypeOK /\ [SpeedNext]_speedVars => SpeedTypeOK'
  <2> SUFFICES ASSUME SpeedTypeOK, [SpeedNext]_speedVars PROVE SpeedTypeOK'
    OBVIOUS
  <2> USE DEF SpeedTypeOK
  <2>1. CASE HostSets
    BY <2>1 DEF HostSets, mainVars, rampVars
  <2>2. CASE HostReverses
    <3>1. cmd' \in Int32
      BY <2>2, RpmSizes DEF HostReverses
    <3> QED
      BY <2>2, <3>1 DEF HostReverses, mainVars, rampVars
  <2>3. CASE Loads
    <3>1. UNCHANGED <<cmd, pre, cmdWr, running, tgtDir, tgtWr>> /\ reg' = cmd /\ pollPc' = "store"
      BY <2>3 DEF Loads, rampVars
    <3>2. cmdDir' \in {"CCW", "CW"}
      <4>1. cmd > 0 \/ cmd < 0 \/ cmd = 0
        BY DEF Int32, IntMin
      <4> QED
        BY <2>3, <4>1 DEF Loads, Int32, IntMin
    <3> QED
      BY <3>1, <3>2
  <2>4. CASE Stores
    <3>1. cmd' \in Int32 /\ cmdWr' \in Int
      <4>1. AbsRpm(reg) \in 0..IntMax /\ Neg(AbsRpm(reg)) = -AbsRpm(reg)
        BY RpmSizes
      <4>2. AbsRpm(reg) \in Int32 /\ -AbsRpm(reg) \in Int32 /\ AbsRpm(reg) \in Int
        BY <4>1 DEF Int32, IntMin
      <4> QED
        BY <2>4, <4>1, <4>2 DEF Stores
    <3>2. pre' = cmd' /\ pollPc' = "test"
      BY <2>4 DEF Stores
    <3>3. UNCHANGED <<cmdDir, reg, running, tgtDir, tgtWr>>
      BY <2>4 DEF Stores, rampVars
    <3> QED
      BY <3>1, <3>2, <3>3
  <2>5. CASE Drops
    BY <2>5, <1>0 DEF Drops
  <2>6. CASE Stops
    BY <2>6 DEF Stops, mainVars
  <2>7. CASE Starts
    <3>1. tgtWr' \in Int
      BY <2>7 DEF Starts
    <3> QED
      BY <2>7, <3>1 DEF Starts, mainVars
  <2>8. CASE Ramps \/ RampsDown
    <3>1. UNCHANGED <<cmd, pre, cmdDir, cmdWr, pollPc, reg, tgtDir>>
      BY <2>8 DEF Ramps, RampsDown, mainVars
    <3>2. running' \in BOOLEAN
      <4>1. (tgtWr >= WrMaxStep) \in BOOLEAN
        OBVIOUS
      <4> QED
        BY <2>8, <4>1, Zenon DEF Ramps, RampsDown
    <3>3. tgtWr' \in Int
      <4>1. /\ Clip(tgtWr + Clip(cmdWr - tgtWr, WrMaxStep), MaxWr) \in Int
            /\ Clip(tgtWr - WrMaxStep, MaxWr) \in Int /\ Clip(WrMaxStep, MaxWr) \in Int
        <5>1. /\ cmdWr - tgtWr \in Int /\ WrMaxStep \in Int /\ MaxWr \in Int
              /\ tgtWr - WrMaxStep \in Int /\ tgtWr \in Int
          OBVIOUS
        <5>2. tgtWr + Clip(cmdWr - tgtWr, WrMaxStep) \in Int
          <6>1. Clip(cmdWr - tgtWr, WrMaxStep) \in Int
            BY <5>1, ClipInt
          <6> QED
            BY <5>1, <6>1
        <5> QED
          BY <5>1, <5>2, ClipInt
      <4> QED
        BY <2>8, <4>1 DEF Ramps, RampsDown
    <3> QED
      BY <3>1, <3>2, <3>3
  <2>9. CASE UNCHANGED speedVars
    BY <2>9 DEF speedVars, mainVars, rampVars
  <2> QED
    BY <2>1, <2>2, <2>3, <2>4, <2>5, <2>6, <2>7, <2>8, <2>9 DEF SpeedNext, HostCommands, Poll, Tmr3
<1> QED
  BY <1>1, <1>2, PTL DEF SpeedSpec

-----------------------------------------------------------------------------
\* What main has loaded when it stores: a direction already that of reg.
Loaded ==
    pollPc = "store" =>
        /\ reg > 0 => cmdDir = "CCW"
        /\ reg < 0 => cmdDir = "CW"

\* The command taken on, its size and its direction.
TakenOn ==
    /\ cmdWr >= 0 /\ pre \in {cmdWr, -cmdWr}
    /\ pollPc = "test" /\ pre # 0 =>
        cmdWr >= MinRpm /\ cmdDir = (IF pre > 0 THEN "CCW" ELSE "CW")

\* Between two polls command, speed and direction agree, whatever the host sends
\* and wherever it cuts in.
THEOREM CommandsAgree == SpeedSpec => []CommandAgrees
<1> USE SpeedAssumption
<1>1. SpeedInit => Loaded /\ TakenOn
  BY DEF SpeedInit, Loaded, TakenOn
<1>2. SpeedTypeOK /\ Loaded /\ TakenOn /\ [SpeedNext]_speedVars => Loaded' /\ TakenOn'
  <2> SUFFICES ASSUME SpeedTypeOK, Loaded, TakenOn, [SpeedNext]_speedVars PROVE Loaded' /\ TakenOn'
    OBVIOUS
  <2>0. /\ cmd \in Int /\ pre \in Int /\ reg \in Int /\ cmdWr \in Int
        /\ reg \in Int32 /\ pollPc \in {"test", "store"}
    BY DEF SpeedTypeOK, Int32, IntMin
  <2>1. CASE HostSets \/ HostReverses
    BY <2>1, <2>0 DEF HostSets, HostReverses, mainVars, Loaded, TakenOn
  <2>2. CASE Loads
    <3>1. UNCHANGED <<pre, cmdWr>> /\ reg' = cmd /\ pollPc' = "store"
      BY <2>2 DEF Loads
    <3>2. /\ cmd > 0 => cmdDir' = "CCW"
          /\ cmd < 0 => cmdDir' = "CW"
      BY <2>2, <2>0 DEF Loads
    <3> QED
      BY <3>1, <3>2, <2>0 DEF Loaded, TakenOn
  <2>3. CASE Stores
    <3>1. /\ AbsRpm(reg) \in 0..IntMax /\ Neg(AbsRpm(reg)) = -AbsRpm(reg)
          /\ reg # 0 => AbsRpm(reg) >= MinRpm
          /\ reg = 0 => AbsRpm(reg) = 0
      BY <2>0, RpmSizes
    <3>2. /\ pollPc = "store" /\ pollPc' = "test" /\ cmdDir' = cmdDir /\ cmdWr' = AbsRpm(reg)
          /\ pre' = (IF reg < 0 THEN Neg(AbsRpm(reg)) ELSE AbsRpm(reg))
      BY <2>3 DEF Stores
    <3>3. cmdWr' >= 0 /\ pre' \in {cmdWr', -cmdWr'}
      BY <3>1, <3>2
    <3>4. pre' # 0 => cmdWr' >= MinRpm
      BY <3>1, <3>2, <2>0
    <3>5. /\ pre' > 0 => reg > 0
          /\ pre' < 0 => reg < 0
      BY <3>1, <3>2, <2>0
    <3>6. pre' # 0 => cmdDir' = (IF pre' > 0 THEN "CCW" ELSE "CW")
      <4>1. pre' \in Int
        BY <3>1, <3>2
      <4>2. CASE pre' > 0
        BY <4>2, <3>5, <3>2 DEF Loaded
      <4>3. CASE pre' < 0
        <5>1. ~(pre' > 0) /\ reg < 0
          BY <4>1, <4>3, <3>5
        <5> QED
          BY <5>1, <3>2 DEF Loaded
      <4>4. pre' > 0 \/ pre' < 0 \/ pre' = 0
        BY <4>1
      <4> QED
        BY <4>2, <4>3, <4>4
    <3> QED
      BY <3>2, <3>3, <3>4, <3>6 DEF Loaded, TakenOn
  <2>4. CASE Drops
    BY <2>4 DEF Drops, Loaded, TakenOn
  <2>5. CASE Stops \/ Starts
    BY <2>5 DEF Stops, Starts, mainVars, Loaded, TakenOn
  <2>6. CASE Ramps \/ RampsDown
    BY <2>6 DEF Ramps, RampsDown, mainVars, Loaded, TakenOn
  <2>7. CASE UNCHANGED speedVars
    BY <2>7 DEF speedVars, mainVars, Loaded, TakenOn
  <2> QED
    BY <2>1, <2>2, <2>3, <2>4, <2>5, <2>6, <2>7 DEF SpeedNext, HostCommands, Poll, Tmr3
<1>3. TakenOn => CommandAgrees
  BY DEF TakenOn, CommandAgrees
<1> QED
  BY <1>1, <1>2, <1>3, SpeedTypeCorrect, PTL DEF SpeedSpec

-----------------------------------------------------------------------------
\* The speed the ramp goes for, and a step towards it from a speed to the next:
\* by the whole step or onto it, never past it.
Goal == Clip(cmdWr, MaxWr)
Approaches(from, to, goal) ==
    \/ to = goal
    \/ from < goal /\ to < goal /\ to >= from + WrMaxStep
    \/ from > goal /\ to > goal /\ to <= from - WrMaxStep

LEMMA RampStep ==
  ASSUME NEW from \in Int, NEW want \in Int
  PROVE  Approaches(from, Clip(from + Clip(want - from, WrMaxStep), MaxWr), Clip(want, MaxWr))
<1>1. MaxWr \in Nat /\ WrMaxStep \in Nat /\ WrMaxStep > 0
  BY SpeedAssumption
<1>2. CASE want - from > WrMaxStep
  <2>1. Clip(want - from, WrMaxStep) = WrMaxStep
    BY <1>2 DEF Clip
  <2> QED
    BY <1>1, <1>2, <2>1 DEF Clip, Approaches
<1>3. CASE want - from < -WrMaxStep
  <2>1. Clip(want - from, WrMaxStep) = -WrMaxStep
    BY <1>1, <1>3 DEF Clip
  <2> QED
    BY <1>1, <1>3, <2>1 DEF Clip, Approaches
<1>4. CASE ~(want - from > WrMaxStep) /\ ~(want - from < -WrMaxStep)
  <2>1. from + Clip(want - from, WrMaxStep) = want
    BY <1>1, <1>4 DEF Clip
  <2> QED
    BY <2>1 DEF Approaches
<1> QED
  BY <1>2, <1>3, <1>4

\* Whatever speed the start-up hands over and whatever the host has sent meanwhile,
\* every tick takes the target nearer to the command by a whole step or onto it, and
\* never past it; against a new direction every tick takes it down by a whole
\* step until it stops the motor, and never below 0.
THEOREM RampDescends ==
  SpeedSpec =>
    [][/\ Ramps => Approaches(tgtWr, tgtWr', Goal)
       /\ RampsDown /\ running' => tgtWr' <= tgtWr - WrMaxStep /\ tgtWr' >= 0]_speedVars
<1>1. ASSUME SpeedTypeOK, Ramps PROVE Approaches(tgtWr, tgtWr', Goal)
  BY <1>1, RampStep DEF Ramps, SpeedTypeOK, Goal
<1>2. ASSUME SpeedTypeOK, RampsDown, running'
      PROVE  tgtWr' <= tgtWr - WrMaxStep /\ tgtWr' >= 0
  <2>1. tgtWr >= WrMaxStep /\ tgtWr' = Clip(tgtWr - WrMaxStep, MaxWr) /\ tgtWr \in Int
    BY <1>2 DEF RampsDown, SpeedTypeOK
  <2> QED
    BY <2>1, SpeedAssumption DEF Clip
<1>3. SpeedTypeOK =>
        [/\ Ramps => Approaches(tgtWr, tgtWr', Goal)
         /\ RampsDown /\ running' => tgtWr' <= tgtWr - WrMaxStep /\ tgtWr' >= 0]_speedVars
  BY <1>1, <1>2
<1> QED
  BY <1>3, SpeedTypeCorrect, PTL

-----------------------------------------------------------------------------
(***************************************************************************)
(* BaseTimer                                                               *)
(***************************************************************************)

\* Whole division, as the prover needs it.
LEMMA DivBy ==
  ASSUME NEW q \in Nat, NEW r \in Nat, NEW d \in Nat, r < d
  PROVE  (q * d + r) \div d = q
  <1>1. q * d \in Nat
    OBVIOUS
  <1>2. QED
    BY <1>1

LEMMA OneMoreTime == ASSUME NEW a \in Int, NEW b \in Int PROVE (a + 1) * b = a * b + b
  OBVIOUS

LEMMA Radices ==
    /\ TicksPerMs \in Nat /\ TicksPerMs >= 2 /\ MsPer100 \in Nat /\ MsPer100 >= 1
    /\ HundredsPerS \in Nat /\ HundredsPerS >= 1
  BY TimerParameters

\* The milliseconds the counters hold.
Milliseconds == (seconds * HundredsPerS + hundreds) * MsPer100 + ms

\* A counter of a radix takes its successor, or carries.
LEMMA CountedOn ==
  ASSUME TimerTypeOK, TimerIrq
  PROVE  /\ tick' \in 0 .. TicksPerMs - 1 /\ ms' \in 0 .. MsPer100 - 1
         /\ hundreds' \in 0 .. HundredsPerS - 1 /\ seconds' \in Nat
         /\ tick + 1 < TicksPerMs => tick' = tick + 1 /\ Milliseconds' = Milliseconds
         /\ tick + 1 >= TicksPerMs => /\ tick = TicksPerMs - 1 /\ tick' = 0
                                      /\ Milliseconds' = Milliseconds + 1
  <1>1. /\ tick \in 0 .. TicksPerMs - 1 /\ ms \in 0 .. MsPer100 - 1
        /\ hundreds \in 0 .. HundredsPerS - 1 /\ seconds \in Nat
    BY DEF TimerTypeOK
  <1>2. CASE tick + 1 < TicksPerMs
    <2>1. ~(tick + 1 >= TicksPerMs)
      BY <1>1, <1>2, Radices
    <2>2. tick' = tick + 1 /\ ms' = ms /\ hundreds' = hundreds /\ seconds' = seconds
      BY <2>1 DEF TimerIrq, Carries
    <2>3. QED
      BY <1>1, <1>2, <2>1, <2>2, Radices DEF Milliseconds
  <1>3. CASE tick + 1 >= TicksPerMs
    <2>1. tick = TicksPerMs - 1 /\ tick' = 0
      BY <1>1, <1>3, Radices DEF TimerIrq, Carries
    <2>2. ~(tick + 1 < TicksPerMs)
      BY <1>1, <1>3, Radices
    <2>3. CASE ms + 1 < MsPer100
      <3>1. ~(ms + 1 >= MsPer100)
        BY <1>1, <2>3, Radices
      <3>2. ms' = ms + 1 /\ hundreds' = hundreds /\ seconds' = seconds
        BY <1>3, <3>1 DEF TimerIrq, Carries
      <3>3. (seconds * HundredsPerS + hundreds) * MsPer100 \in Int
        BY <1>1, Radices
      <3>4. Milliseconds' = Milliseconds + 1
        BY <1>1, <3>2, <3>3 DEF Milliseconds
      <3> QED
        BY <1>1, <1>3, <2>1, <2>2, <2>3, <3>2, <3>4, Radices
    <2>4. CASE ms + 1 >= MsPer100
      <3>1. ms = MsPer100 - 1 /\ ms' = 0
        BY <1>1, <1>3, <2>4, Radices DEF TimerIrq, Carries
      <3>2. /\ hundreds' \in 0 .. HundredsPerS - 1 /\ seconds' \in Nat
            /\ seconds' * HundredsPerS + hundreds' = (seconds * HundredsPerS + hundreds) + 1
        <4>1. CASE hundreds + 1 < HundredsPerS
          <5>1. ~(hundreds + 1 >= HundredsPerS)
            BY <1>1, <4>1, Radices
          <5>2. hundreds' = hundreds + 1 /\ seconds' = seconds
            BY <1>3, <2>4, <5>1 DEF TimerIrq, Carries
          <5> QED
            BY <1>1, <4>1, <5>2, Radices
        <4>2. CASE hundreds + 1 >= HundredsPerS
          <5>1. hundreds = HundredsPerS - 1 /\ hundreds' = 0 /\ seconds' = seconds + 1
            BY <1>1, <1>3, <2>4, <4>2, Radices DEF TimerIrq, Carries
          <5>2. (seconds + 1) * HundredsPerS = seconds * HundredsPerS + HundredsPerS
            BY <1>1, Radices, OneMoreTime
          <5>3. seconds * HundredsPerS \in Int
            BY <1>1, Radices
          <5> QED
            BY <1>1, <5>1, <5>2, <5>3, Radices
        <4> QED
          BY <1>1, <4>1, <4>2, Radices
      <3>3. seconds * HundredsPerS + hundreds \in Int
        BY <1>1, Radices
      <3>4. (seconds' * HundredsPerS + hundreds') * MsPer100
              = (seconds * HundredsPerS + hundreds) * MsPer100 + MsPer100
        BY <3>2, <3>3, Radices, OneMoreTime
      <3>5. (seconds * HundredsPerS + hundreds) * MsPer100 \in Int
        BY <3>3, Radices
      <3>6. Milliseconds' = Milliseconds + 1
        BY <3>1, <3>4, <3>5, Radices DEF Milliseconds
      <3> QED
        BY <1>1, <1>3, <2>1, <2>2, <3>1, <3>2, <3>6, Radices
    <2>5. QED
      BY <1>1, <2>3, <2>4, Radices
  <1>4. QED
    BY <1>1, <1>2, <1>3, Radices

\* It raises the flag when the ticks carry, and never lowers it.
LEMMA FlagRaised ==
  ASSUME TimerTypeOK, TimerIrq
  PROVE  /\ uevFlag \in BOOLEAN /\ uevFlag' \in BOOLEAN
         /\ tick + 1 >= TicksPerMs => uevFlag'
         /\ ~(tick + 1 >= TicksPerMs) => uevFlag' = uevFlag
  <1>1. uevFlag \in BOOLEAN /\ uevFlag' = (uevFlag \/ Carries(tick + 1, TicksPerMs))
    BY Zenon DEF TimerIrq, TimerTypeOK
  <1>2. QED
    BY <1>1, Zenon DEF Carries

\* The counters keep within their radices and hold the interrupts so far.  A wait
\* that has seen the flag is in the millisecond it began in until it clears it,
\* and after that as many further as flags are up.
TimerInv ==
    /\ TimerTypeOK
    /\ CountersAgree
    /\ waitAt = "clear" => uevFlag /\ begun \div TicksPerMs = Milliseconds
    /\ waitAt = "measure" /\ ~uevFlag => begun \div TicksPerMs = Milliseconds
    /\ waitAt = "measure" /\ uevFlag => begun \div TicksPerMs + 1 = Milliseconds

LEMMA MillisecondsPassed ==
  ASSUME TimerTypeOK, CountersAgree
  PROVE  Milliseconds \in Nat /\ ticks \div TicksPerMs = Milliseconds
  <1>1. /\ tick \in Nat /\ tick < TicksPerMs /\ ms \in Nat /\ hundreds \in Nat /\ seconds \in Nat
    BY Radices DEF TimerTypeOK
  <1>2. seconds * HundredsPerS + hundreds \in Nat
    BY <1>1, Radices
  <1>3. Milliseconds \in Nat
    BY <1>1, <1>2, Radices DEF Milliseconds
  <1>4. ticks = Milliseconds * TicksPerMs + tick
    BY DEF CountersAgree, Milliseconds
  <1>5. QED
    BY <1>1, <1>3, <1>4, DivBy, Radices

LEMMA TimerInvHolds == TimerSpec => []TimerInv
<1>1. TimerInit => TimerInv
  <2> SUFFICES ASSUME TimerInit PROVE TimerInv
    OBVIOUS
  <2>1. TimerTypeOK
    <3>1. uevFlag \in BOOLEAN
      BY Zenon DEF TimerInit
    <3> QED
      BY <3>1, Radices DEF TimerInit, TimerTypeOK
  <2>2. CountersAgree
    BY Radices DEF TimerInit, CountersAgree
  <2> QED
    BY <2>1, <2>2 DEF TimerInit, TimerInv
<1>2. TimerInv /\ [TimerNext]_timerVars => TimerInv'
  <2> SUFFICES ASSUME TimerInv, [TimerNext]_timerVars PROVE TimerInv'
    OBVIOUS
  <2>1. TimerTypeOK /\ CountersAgree /\ Milliseconds \in Nat /\ ticks \div TicksPerMs = Milliseconds
    BY MillisecondsPassed DEF TimerInv
  <2>2. CASE TimerIrq
    <3>1. /\ tick' \in 0 .. TicksPerMs - 1 /\ ms' \in 0 .. MsPer100 - 1
          /\ hundreds' \in 0 .. HundredsPerS - 1 /\ seconds' \in Nat
          /\ tick + 1 < TicksPerMs => tick' = tick + 1 /\ Milliseconds' = Milliseconds
          /\ tick + 1 >= TicksPerMs => /\ tick = TicksPerMs - 1 /\ tick' = 0
                                       /\ Milliseconds' = Milliseconds + 1
      BY <2>1, <2>2, CountedOn
    <3>2. /\ ticks' = ticks + 1 /\ waitAt' = waitAt /\ begun' = begun
          /\ ~(uevFlag /\ tick = TicksPerMs - 1 /\ waitAt # "loop")
      BY <2>2 DEF TimerIrq
    <3>3. tick \in 0 .. TicksPerMs - 1 /\ ticks \in Nat /\ begun \in Nat
      BY <2>1 DEF TimerTypeOK
    <3>4. /\ uevFlag \in BOOLEAN /\ uevFlag' \in BOOLEAN
          /\ tick + 1 >= TicksPerMs => uevFlag'
          /\ ~(tick + 1 >= TicksPerMs) => uevFlag' = uevFlag
      BY <2>1, <2>2, FlagRaised
    <3>5. TimerTypeOK'
      BY <2>1, <3>1, <3>2, <3>3, <3>4 DEF TimerTypeOK
    <3>6. CountersAgree'
      <4>1. ticks = Milliseconds * TicksPerMs + tick
        BY <2>1 DEF CountersAgree, Milliseconds
      <4>2. Milliseconds * TicksPerMs \in Int
        BY <2>1, Radices
      <4>3. (Milliseconds + 1) * TicksPerMs = Milliseconds * TicksPerMs + TicksPerMs
        BY <2>1, Radices, OneMoreTime
      <4>4. ticks' = Milliseconds' * TicksPerMs + tick'
        <5>1. CASE tick + 1 < TicksPerMs
          BY <3>1, <3>2, <3>3, <4>1, <4>2, <5>1
        <5>2. CASE tick + 1 >= TicksPerMs
          <6>1. Milliseconds' * TicksPerMs = Milliseconds * TicksPerMs + TicksPerMs
            BY <3>1, <4>3, <5>2
          <6> QED
            BY <3>1, <3>2, <3>3, <4>1, <4>2, <5>2, <6>1, Radices
        <5> QED
          BY <3>3, <5>1, <5>2, Radices
      <4> QED
        BY <4>4 DEF CountersAgree, Milliseconds
    <3>7. CASE tick + 1 < TicksPerMs
      <4>1. ~(tick + 1 >= TicksPerMs)
        BY <3>3, <3>7, Radices
      <4>2. uevFlag' = uevFlag /\ Milliseconds' = Milliseconds
        BY <3>1, <3>4, <3>7, <4>1
      <4> QED
        BY <3>2, <3>4, <3>5, <3>6, <4>2 DEF TimerInv
    <3>8. CASE tick + 1 >= TicksPerMs
      <4>1. waitAt \in {"clear", "measure"} => waitAt = "measure" /\ ~uevFlag
        BY <3>1, <3>2, <3>8 DEF TimerInv
      <4>2. waitAt = "measure" => begun \div TicksPerMs + 1 = Milliseconds + 1
        BY <4>1 DEF TimerInv
      <4> QED
        BY <3>1, <3>2, <3>4, <3>5, <3>6, <3>8, <4>1, <4>2 DEF TimerInv
    <3> QED
      BY <3>3, <3>7, <3>8, Radices
  <2>3. CASE Syncs
    <3>1. /\ UNCHANGED <<tick, ms, hundreds, seconds, ticks, uevFlag>>
          /\ uevFlag /\ waitAt' = "clear" /\ begun' = ticks
      BY <2>3 DEF Syncs, Waits, clock
    <3>2. TimerTypeOK' /\ CountersAgree' /\ Milliseconds' = Milliseconds
      BY <2>1, <3>1 DEF TimerTypeOK, CountersAgree, Milliseconds
    <3> QED
      BY <2>1, <3>1, <3>2 DEF TimerInv
  <2>4. CASE Measures
    <3>1. /\ UNCHANGED <<tick, ms, hundreds, seconds, ticks, uevFlag, begun>>
          /\ waitAt' = "clearAgain"
      BY <2>4 DEF Measures, Waits, clock
    <3>2. TimerTypeOK' /\ CountersAgree'
      BY <2>1, <3>1 DEF TimerTypeOK, CountersAgree
    <3> QED
      BY <3>1, <3>2 DEF TimerInv
  <2>5. CASE Clears
    <3>1. /\ UNCHANGED <<tick, ms, hundreds, seconds, ticks, begun>>
          /\ uevFlag' = FALSE /\ waitAt' \in {"measure", "loop"}
          /\ waitAt' = "measure" => waitAt = "clear"
      BY <2>5 DEF Clears, clock
    <3>2. uevFlag' \in BOOLEAN /\ ~uevFlag'
      BY <3>1, Zenon
    <3>3. TimerTypeOK' /\ CountersAgree' /\ Milliseconds' = Milliseconds
      BY <2>1, <3>1, <3>2 DEF TimerTypeOK, CountersAgree, Milliseconds
    <3> QED
      BY <3>1, <3>2, <3>3 DEF TimerInv
  <2>6. CASE UNCHANGED timerVars
    BY <2>6 DEF timerVars, clock, TimerInv, TimerTypeOK, CountersAgree, Milliseconds
  <2> QED
    BY <2>2, <2>3, <2>4, <2>5, <2>6 DEF TimerNext, OneMsDefine, Bounded
<1> QED
  BY <1>1, <1>2, PTL DEF TimerSpec

\* Every counter of the time base stays below its radix.
THEOREM TimerTypeCorrect == TimerSpec => []TimerTypeOK
  BY TimerInvHolds, PTL DEF TimerInv

\* The counters hold every interrupt once, and the wait that sizes delay_ms spans
\* one millisecond, whatever the radices and however the interrupts fall.
THEOREM TimeKept == TimerSpec => KeepsTime
<1>1. TimerInv => CountersAgree
  BY DEF TimerInv
<1>2. TimerInv /\ Measures => ticks \div TicksPerMs = begun \div TicksPerMs + 1
  <2> SUFFICES ASSUME TimerInv, Measures
               PROVE  ticks \div TicksPerMs = begun \div TicksPerMs + 1
    OBVIOUS
  <2>1. ticks \div TicksPerMs = Milliseconds
    BY MillisecondsPassed DEF TimerInv
  <2> QED
    BY <2>1 DEF TimerInv, Measures, Waits
<1>3. TimerInv /\ [TimerNext]_timerVars
        => [Measures => ticks \div TicksPerMs = begun \div TicksPerMs + 1]_timerVars
  BY <1>2
<1> QED
  BY <1>1, <1>3, TimerInvHolds, PTL DEF TimerSpec, KeepsTime, MeasuresOneMs

\* The interrupts until main's wait can end.
TicksToFlag == IF uevFlag THEN 0 ELSE TicksPerMs - tick

\* A wait for the flag is over within a millisecond: every interrupt brings it
\* nearer, and once raised it stays until main clears it.
THEOREM FlagDescends ==
  TimerSpec =>
    /\ [](TicksToFlag \in 0..TicksPerMs /\ (TicksToFlag = 0 <=> uevFlag))
    /\ [][/\ TimerIrq => TicksToFlag' = IF TicksToFlag = 0 THEN 0 ELSE TicksToFlag - 1
          /\ ~TimerIrq /\ TicksToFlag' # TicksToFlag => Clears]_timerVars
<1>1. TimerTypeOK => TicksToFlag \in 0..TicksPerMs /\ (TicksToFlag = 0 <=> uevFlag)
  BY Radices DEF TimerTypeOK, TicksToFlag
<1>2. ASSUME TimerTypeOK, TimerIrq
      PROVE  TicksToFlag' = IF TicksToFlag = 0 THEN 0 ELSE TicksToFlag - 1
  <2>1. tick \in 0 .. TicksPerMs - 1
    BY <1>2 DEF TimerTypeOK
  <2>2. /\ uevFlag' <=> (uevFlag \/ tick + 1 >= TicksPerMs)
        /\ tick' = IF tick + 1 >= TicksPerMs THEN 0 ELSE tick + 1
    BY <1>2, Zenon DEF TimerIrq, Carries
  <2> QED
    BY <2>1, <2>2, Radices DEF TicksToFlag
<1>3. ASSUME TimerNext, ~TimerIrq, TicksToFlag' # TicksToFlag PROVE Clears
  <2>1. UNCHANGED <<tick, uevFlag>> => TicksToFlag' = TicksToFlag
    BY DEF TicksToFlag
  <2> QED
    BY <1>3, <2>1 DEF TimerNext, OneMsDefine, Syncs, Measures, Waits, clock, Bounded, timerVars
<1>4. TimerTypeOK /\ [TimerNext]_timerVars =>
        [/\ TimerIrq => TicksToFlag' = IF TicksToFlag = 0 THEN 0 ELSE TicksToFlag - 1
         /\ ~TimerIrq /\ TicksToFlag' # TicksToFlag => Clears]_timerVars
  BY <1>2, <1>3
<1> QED
  BY <1>1, <1>4, TimerTypeCorrect, PTL DEF TimerSpec

-----------------------------------------------------------------------------
(***************************************************************************)
(* UsbLink                                                                 *)
(***************************************************************************)

\* Every variable keeps its type.
THEOREM UsbTypeCorrect == UsbSpec => []UsbTypeOK
<1>1. UsbInit => UsbTypeOK
  BY DEF UsbInit, UsbTypeOK, States, TxStates, SendSteps, HostSteps
<1>2. UsbTypeOK /\ [UsbNext]_usbVars => UsbTypeOK'
  <2> SUFFICES ASSUME UsbTypeOK, [UsbNext]_usbVars PROVE UsbTypeOK'
    OBVIOUS
  <2>0. /\ "DEFAULT" \in States /\ "ADDRESSED" \in States /\ "CONFIGURED" \in States
        /\ "SUSPENDED" \in States /\ "off" \in TxStates /\ "nak" \in TxStates
        /\ "valid" \in TxStates /\ "stall" \in TxStates /\ "test" \in SendSteps
        /\ "size" \in SendSteps /\ "write" \in SendSteps /\ "arm" \in SendSteps
        /\ "reset" \in HostSteps /\ "address" \in HostSteps
        /\ "config" \in HostSteps /\ "up" \in HostSteps
    BY DEF States, TxStates, SendSteps, HostSteps
  <2> USE <2>0 DEF UsbTypeOK
  <2>1. CASE Sends
    <3>0. /\ conn' = conn /\ old' = old /\ opened' = opened /\ host' = host
          /\ plain' = plain /\ sendPc' \in SendSteps
      BY <2>1 DEF Sends, Tests, Sizes, Writes, Arms, MainGoes, devVars
    <3>1. tx' \in TxStates
      BY <2>1 DEF Sends, Tests, Sizes, Writes, Arms
    <3>2. /\ table' \in BOOLEAN /\ txDone' \in BOOLEAN
          /\ rest' \in BOOLEAN /\ polled' \in BOOLEAN
      BY <2>1, Zenon DEF Sends, Tests, Sizes, Writes, Arms
    <3> QED
      BY <3>0, <3>1, <3>2
  <2>2. CASE In
    <3>1. /\ conn' = conn /\ old' = old /\ opened' = opened /\ table' = table
          /\ sendPc' = sendPc /\ polled' = polled /\ host' = host /\ plain' = plain
          /\ rest' = FALSE /\ tx' \in TxStates
      BY <2>2 DEF In, devVars
    <3>2. txDone' \in BOOLEAN
      BY <2>2, Zenon DEF In
    <3> QED
      BY <3>1, <3>2, Zenon
  <2>3. CASE Reset \/ ResetAndWakeup
    <3>1. conn' \in States
      BY <2>3 DEF Reset, ResetAndWakeup
    <3>2. /\ polled' = FALSE /\ plain' = plain /\ host' = "address" /\ opened' = FALSE
          /\ tx' = "off" /\ table' = TRUE /\ old' = old /\ txDone' = txDone
          /\ rest' = rest /\ sendPc' = sendPc
      BY <2>3, Zenon DEF Reset, ResetAndWakeup, ResetHandled, Request, sendVars
    <3> QED
      BY <3>1, <3>2, Zenon
  <2>4. CASE SetAddress
    <3>1. conn' \in States /\ host' \in HostSteps
      BY <2>4 DEF SetAddress, Fails
    <3>2. /\ polled' = FALSE /\ plain' = plain
          /\ old' = old /\ opened' = opened /\ tx' = tx /\ table' = table
          /\ txDone' = txDone /\ rest' = rest /\ sendPc' = sendPc
      BY <2>4 DEF SetAddress, Request, eptVars, sendVars
    <3> QED
      BY <3>1, <3>2, Zenon
  <2>5. CASE SetConfiguration
    <3>1. polled' = FALSE /\ plain' = plain /\ old' = old /\ table' = table
          /\ rest' = rest /\ sendPc' = sendPc
      BY <2>5, Zenon DEF SetConfiguration, Request
    <3>2. CASE table /\ conn = "ADDRESSED"
      <4>1. conn' = "CONFIGURED" /\ opened' = TRUE /\ tx' = "nak" /\ txDone' = TRUE
            /\ host' = "up"
        BY <2>5, <3>2, Zenon DEF SetConfiguration, ClassInit
      <4> QED
        BY <3>1, <4>1, Zenon
    <3>3. CASE ~(table /\ conn = "ADDRESSED")
      <4>1. host' = "reset" /\ conn' = conn /\ opened' = opened /\ tx' = tx
            /\ txDone' = txDone
        BY <2>5, <3>3, Zenon DEF SetConfiguration, Fails
      <4> QED
        BY <3>1, <4>1, Zenon
    <3> QED
      BY <3>2, <3>3
  <2>6. CASE Reconfigure
    <3>1. /\ opened' = TRUE /\ tx' = "nak" /\ txDone' = TRUE /\ polled' = FALSE
          /\ plain' = plain /\ conn' = conn /\ old' = old /\ table' = table
          /\ rest' = rest /\ sendPc' = sendPc /\ host' = host
      BY <2>6, Zenon DEF Reconfigure, ClassInit, Request, devVars
    <3> QED
      BY <3>1, Zenon
  <2>7. CASE Deconfigure
    <3>1. /\ conn' = "ADDRESSED" /\ tx' = "off" /\ host' = "config" /\ polled' = FALSE
          /\ plain' = plain /\ old' = old /\ opened' = opened /\ table' = table
          /\ txDone' = txDone /\ rest' = rest /\ sendPc' = sendPc
      BY <2>7, Zenon DEF Deconfigure, Request, sendVars
    <3> QED
      BY <3>1, Zenon
  <2>8. CASE Halt \/ ClearHalt
    <3>1. /\ tx' \in TxStates /\ polled' = FALSE /\ plain' = plain
          /\ conn' = conn /\ old' = old /\ opened' = opened /\ table' = table
          /\ txDone' = txDone /\ rest' = rest /\ sendPc' = sendPc /\ host' = host
      BY <2>8 DEF Halt, ClearHalt, Request, devVars, sendVars
    <3> QED
      BY <3>1, Zenon
  <2>9. CASE Suspend \/ Wakeup \/ StartsAgain
    <3>1. UNCHANGED <<eptVars, sendVars, plain>> /\ polled' \in BOOLEAN
      BY <2>9 DEF Suspend, Wakeup, StartsAgain, Request
    <3>2. conn' \in States /\ old' \in States \ {"SUSPENDED"}
          /\ host' \in HostSteps
      BY <2>9 DEF Suspend, Wakeup, StartsAgain, devVars
    <3> QED
      BY <3>1, <3>2 DEF eptVars, sendVars
  <2>10. CASE UNCHANGED usbVars
    BY <2>10 DEF usbVars, devVars, eptVars, sendVars
  <2> QED
    BY <2>1, <2>2, <2>3, <2>4, <2>5, <2>6, <2>7, <2>8, <2>9, <2>10 DEF UsbNext, Bus
<1> QED
  BY <1>1, <1>2, PTL DEF UsbSpec

-----------------------------------------------------------------------------
\* What makes the agreement inductive: a host that is about to configure the
\* device has it awake.
Followed ==
    /\ HostAndDeviceAgree
    /\ host = "config" => conn # "SUSPENDED"

\* The host's view and the device's are the same, whatever the host does.
THEOREM DeviceFollowsHost == UsbSpec => []HostAndDeviceAgree
<1>1. UsbInit => Followed
  BY DEF UsbInit, Followed, HostAndDeviceAgree
<1>2. UsbTypeOK /\ Followed /\ [UsbNext]_usbVars => Followed'
  <2> SUFFICES ASSUME UsbTypeOK, Followed, [UsbNext]_usbVars PROVE Followed'
    OBVIOUS
  <2> USE DEF UsbTypeOK, States, TxStates, SendSteps, HostSteps, Followed, HostAndDeviceAgree
  <2>1. CASE Sends
    BY <2>1 DEF Sends, MainGoes, Tests, Sizes, Writes, Arms, devVars
  <2>2. CASE In
    BY <2>2 DEF In, devVars
  <2>3. CASE Reset \/ ResetAndWakeup
    BY <2>3 DEF Reset, ResetAndWakeup, ResetHandled
  <2>4. CASE SetAddress
    BY <2>4 DEF SetAddress, Fails
  <2>5. CASE SetConfiguration
    BY <2>5 DEF SetConfiguration, ClassInit, Fails
  <2>6. CASE Reconfigure
    BY <2>6 DEF Reconfigure, ClassInit, devVars
  <2>7. CASE Deconfigure
    BY <2>7 DEF Deconfigure
  <2>8. CASE Halt \/ ClearHalt
    BY <2>8 DEF Halt, ClearHalt, devVars
  <2>9. CASE Suspend \/ Wakeup \/ StartsAgain
    BY <2>9 DEF Suspend, Wakeup, StartsAgain, devVars, eptVars
  <2>10. CASE UNCHANGED usbVars
    BY <2>10 DEF usbVars, devVars, eptVars
  <2> QED
    BY <2>1, <2>2, <2>3, <2>4, <2>5, <2>6, <2>7, <2>8, <2>9, <2>10 DEF UsbNext, Bus
<1>3. Followed => HostAndDeviceAgree
  BY DEF Followed
<1> QED
  BY <1>1, <1>2, <1>3, UsbTypeCorrect, PTL DEF UsbSpec

-----------------------------------------------------------------------------
\* The flag and the endpoint: with a packet in hand the flag is down and nothing
\* is armed, and an armed packet is main's last.  A request of the enumeration
\* finds main waiting for the flag: it has been through usb_vcp_send_data since
\* the request before, and what it armed then nobody has fetched.
OneInHand == plain =>
    /\ tx = "valid" => sendPc = "test" /\ ~txDone
    /\ sendPc # "test" => ~txDone
    /\ host \in {"address", "config"} /\ polled => sendPc = "test" /\ ~txDone

\* A packet is never written over one that is still to be fetched, as long as
\* the host leaves a configured endpoint alone.
THEOREM OnePacket == UsbSpec => []OnePacketInFlight
<1>1. UsbInit => OneInHand
  BY DEF UsbInit, OneInHand
<1>2. UsbTypeOK /\ OneInHand /\ [UsbNext]_usbVars => OneInHand'
  <2> SUFFICES ASSUME UsbTypeOK, OneInHand, [UsbNext]_usbVars PROVE OneInHand'
    OBVIOUS
  <2> USE DEF OneInHand
  <2>0. txDone \in BOOLEAN /\ polled \in BOOLEAN /\ rest \in BOOLEAN
    BY DEF UsbTypeOK
  <2>1. CASE Tests
    BY <2>0, <2>1 DEF MainGoes, Tests
  <2>2. CASE Sizes
    BY <2>0, <2>2 DEF MainGoes, Sizes
  <2>3. CASE Writes
    BY <2>0, <2>3 DEF MainGoes, Writes
  <2>4. CASE Arms
    BY <2>0, <2>4 DEF MainGoes, Arms
  <2>5. CASE In
    BY <2>0, <2>5 DEF In
  <2>6. CASE Reset \/ ResetAndWakeup
    BY <2>0, <2>6 DEF Reset, ResetAndWakeup, ResetHandled, Request, sendVars
  <2>7. CASE SetAddress
    BY <2>0, <2>7 DEF SetAddress, Fails, Request, eptVars, sendVars
  <2>8. CASE SetConfiguration
    BY <2>0, <2>8 DEF SetConfiguration, ClassInit, Fails, Request
  <2>9. CASE Deconfigure
    BY <2>0, <2>9 DEF Deconfigure, Request, sendVars
  <2>10. CASE Suspend \/ Wakeup \/ StartsAgain
    BY <2>0, <2>10 DEF Suspend, Wakeup, StartsAgain, Request, eptVars, sendVars
  <2>11. CASE UNCHANGED usbVars
    BY <2>11 DEF usbVars, eptVars, sendVars
  <2>12. CASE Reconfigure \/ Halt \/ ClearHalt
    BY <2>12 DEF Reconfigure, Halt, ClearHalt, Request
  <2> QED
    BY <2>1, <2>2, <2>3, <2>4, <2>5, <2>6, <2>7, <2>8, <2>9, <2>10, <2>11, <2>12
       DEF UsbNext, Sends, Bus
<1>3. OneInHand => OnePacketInFlight
  BY DEF OneInHand, OnePacketInFlight
<1> QED
  BY <1>1, <1>2, <1>3, UsbTypeCorrect, PTL DEF UsbSpec

-----------------------------------------------------------------------------
(***************************************************************************)
(* Descent: the next packet gets nearer.                                   *)
(***************************************************************************)

\* No packet is lost: with the host up, the flag is up, or main has the packet in
\* hand, or endpoint 1 has it, or the host has halted the endpoint.
PacketSomewhere ==
    host = "up" => txDone \/ sendPc # "test" \/ tx \in {"valid", "stall"}

\* Main's steps to the end of usbd_ept_send.
SendLeft == IF sendPc = "size" THEN 3 ELSE IF sendPc = "write" THEN 2
            ELSE IF sendPc = "arm" THEN 1 ELSE 0

\* Main's steps with the packets from before the enumeration, any of which may spoil
\* the endpoint table and with it the enumeration.
InHand == IF txDone THEN 4 + SendLeft ELSE SendLeft

\* The device answers the request that comes next.
Answers == IF host = "address" THEN table /\ conn # "CONFIGURED"
                               ELSE table /\ conn = "ADDRESSED"

\* The requests of the enumeration, from the reset on if the next one fails.
RequestsLeft == IF host = "reset" THEN 3
                ELSE IF ~Answers THEN 4 ELSE IF host = "address" THEN 2 ELSE 1

\* Steps of main and the host to a packet fetched.
PacketLeft ==
    IF sendPc # "test" THEN 3 + SendLeft
    ELSE IF tx = "stall" THEN 3 ELSE IF rest THEN 2 ELSE 1

Awake == conn # "SUSPENDED"

\* Main has to come round before the host can make its request.
AwaitsPoll == ~polled /\ (host = "up" /\ Awake => sendPc = "test" /\ tx = "stall")

\* What is left to the next flag at an enumerated device, without the poll.
HostLeft ==
    IF host # "up" THEN 30 + 12 * InHand + 2 * RequestsLeft
    ELSE IF Awake THEN 4 * PacketLeft ELSE 4 * PacketLeft + 2

TelemetryLeft == IF AwaitsPoll THEN HostLeft + 1 ELSE HostLeft

\* The device is not enumerated, or the flag is down.
Fetching == ~(host = "up" /\ txDone)

\* The steps of main, and those of a host that goes on: it does not restart,
\* deconfigure, suspend or halt, and its resets are seen in time.
Proceeds ==
    Sends \/ In \/ Reset \/ SetAddress \/ SetConfiguration \/ Reconfigure \/ ClearHalt \/ Wakeup

\* The step to be taken next.
AwaitedOfUsb ==
    \/ host # "up" /\ ~polled /\ Sends
    \/ host # "up" /\ polled /\ (Reset \/ SetAddress \/ SetConfiguration)
    \/ host = "up" /\ sendPc # "test" /\ Sends
    \/ host = "up" /\ sendPc = "test" /\ Awake /\ tx = "valid" /\ In
    \/ host = "up" /\ sendPc = "test" /\ ~(Awake /\ tx = "valid") /\ ~polled /\ Sends
    \/ host = "up" /\ sendPc = "test" /\ ~(Awake /\ tx = "valid") /\ polled
                     /\ (Wakeup \/ ClearHalt)

-----------------------------------------------------------------------------
\* The ranges of the counts.
LeftRanges ==
  /\ SendLeft \in 0..3 /\ InHand \in 0..7 /\ RequestsLeft \in 1..4 /\ PacketLeft \in 1..6
  /\ HostLeft \in 4..122
  /\ host # "up" => HostLeft = 30 + 12 * InHand + 2 * RequestsLeft
  /\ host = "up" /\ Awake  => HostLeft = 4 * PacketLeft
  /\ host = "up" /\ ~Awake => HostLeft = 4 * PacketLeft + 2
  /\ AwaitsPoll  => TelemetryLeft = HostLeft + 1
  /\ ~AwaitsPoll => TelemetryLeft = HostLeft

LEMMA Lefts == LeftRanges
<1>1. SendLeft \in 0..3
  BY DEF SendLeft
<1>2. InHand \in 0..7 /\ RequestsLeft \in 1..4 /\ PacketLeft \in 1..6
  BY <1>1 DEF InHand, RequestsLeft, PacketLeft
<1>3. /\ host # "up" => HostLeft = 30 + 12 * InHand + 2 * RequestsLeft
      /\ host = "up" /\ Awake  => HostLeft = 4 * PacketLeft
      /\ host = "up" /\ ~Awake => HostLeft = 4 * PacketLeft + 2
  BY DEF HostLeft
<1>4. HostLeft \in 4..122
  BY <1>2, <1>3
<1>5. /\ AwaitsPoll  => TelemetryLeft = HostLeft + 1
      /\ ~AwaitsPoll => TelemetryLeft = HostLeft
  BY DEF TelemetryLeft
<1> QED
  BY <1>1, <1>2, <1>3, <1>4, <1>5 DEF LeftRanges

LEMMA LeftsNext == LeftRanges'
  BY Lefts, PTL

\* The poll counts for one.
PollCounts == HostLeft \in 4..122 /\ TelemetryLeft \in HostLeft..HostLeft + 1

LEMMA TelemetryBounds == PollCounts /\ PollCounts'
<1>1. PollCounts
  BY Lefts DEF LeftRanges, PollCounts
<1> QED
  BY <1>1, PTL

\* A step less, or a request, outweighs the poll that may have to be made again.
LEMMA FewerSteps ==
  \A a, b \in 1..6 : \A c, d, e, f :
      /\ (c = 4 * a /\ d = 4 * b) \/ (c = 4 * a + 2 /\ d = 4 * b + 2)
      /\ e \in c..c + 1 /\ f \in d..d + 1 /\ b < a
      => f < e /\ f <= e
  OBVIOUS

LEMMA FewerRequests ==
  \A a, b \in 0..7 : \A r, s \in 1..4 :
      b < a \/ (b = a /\ s < r) =>
        \A e, f : /\ e \in (30 + 12 * a + 2 * r)..(30 + 12 * a + 2 * r) + 1
                  /\ f \in (30 + 12 * b + 2 * s)..(30 + 12 * b + 2 * s) + 1
                  => f < e /\ f <= e
  OBVIOUS

LEMMA FewerWhenUp ==
  \A a \in 0..7 : \A b \in 1..6 : \A r \in 1..4 : \A c, d, e, f :
      /\ c = 30 + 12 * a + 2 * r /\ d \in {4 * b, 4 * b + 2}
      /\ e \in c..c + 1 /\ f \in d..d + 1
      => f < e /\ f <= e
  OBVIOUS

LEMMA FewerStepsAwake ==
  \A a, b \in 1..6 : \A c, d : c = 4 * a /\ d = 4 * b /\ b < a => d < c /\ d <= c
  OBVIOUS

LEMMA SameSteps ==
  \A a \in 1..6 : \A c, d : c = 4 * a /\ d = 4 * a => d <= c
  OBVIOUS

\* A step of main.
LEMMA FetchingSends ==
  ASSUME UsbTypeOK, UsbTypeOK', PacketSomewhere, Fetching, Fetching', Sends
  PROVE  /\ TelemetryLeft' <= TelemetryLeft
         /\ \/ host # "up" /\ ~polled
            \/ host = "up" /\ sendPc # "test"
            \/ host = "up" /\ ~(Awake /\ tx = "valid") /\ ~polled
            => TelemetryLeft' < TelemetryLeft
<1>0. /\ host' = host /\ conn' = conn /\ opened' = opened /\ Awake' = Awake
      /\ txDone \in BOOLEAN /\ polled \in BOOLEAN /\ rest \in BOOLEAN /\ table \in BOOLEAN
      /\ txDone' \in BOOLEAN /\ polled' \in BOOLEAN /\ rest' \in BOOLEAN /\ table' \in BOOLEAN
  BY DEF Sends, MainGoes, Tests, Sizes, Writes, Arms, devVars, Awake, UsbTypeOK
<1>1. CASE Tests /\ txDone
  <2>1. /\ sendPc = "test" /\ sendPc' = "size" /\ txDone' = FALSE
        /\ polled' = polled /\ host # "up" /\ table' = table
    BY <1>0, <1>1 DEF Tests, MainGoes, Fetching
  <2>2. InHand = 4 /\ InHand' = 3
    BY <1>1, <2>1 DEF InHand, SendLeft
  <2>3. RequestsLeft' = RequestsLeft /\ AwaitsPoll' = AwaitsPoll
    BY <1>0, <2>1 DEF RequestsLeft, Answers, AwaitsPoll
  <2> QED
    BY <1>0, <2>1, <2>2, <2>3, Lefts, LeftsNext DEF LeftRanges
<1>2. CASE Tests /\ ~txDone
  <2>1. /\ sendPc = "test" /\ sendPc' = "test" /\ txDone' = txDone /\ polled' = TRUE
        /\ table' = table /\ tx' = tx /\ rest' = rest
    BY <1>0, <1>2 DEF Tests, MainGoes
  <2>2. InHand' = InHand /\ RequestsLeft' = RequestsLeft /\ PacketLeft' = PacketLeft
    BY <1>0, <2>1 DEF InHand, SendLeft, RequestsLeft, Answers, PacketLeft
  <2>3. HostLeft' = HostLeft
    BY <1>0, <2>2, Lefts, LeftsNext DEF LeftRanges
  <2>4. ~AwaitsPoll'
    BY <2>1 DEF AwaitsPoll
  <2>5. ~polled /\ (host # "up" \/ ~(Awake /\ tx = "valid")) => AwaitsPoll
    BY <1>2, <2>1 DEF AwaitsPoll, PacketSomewhere
  <2> QED
    BY <2>1, <2>3, <2>4, <2>5, Lefts, LeftsNext DEF LeftRanges
<1>3. CASE Sizes \/ Writes \/ Arms
  <2>1. /\ sendPc # "test" /\ txDone' = txDone
        /\ \/ SendLeft = 3 /\ SendLeft' = 2
           \/ SendLeft = 2 /\ SendLeft' = 1
           \/ SendLeft = 1 /\ SendLeft' = 0
    BY <1>0, <1>3 DEF Sizes, Writes, Arms, MainGoes, SendLeft
  <2>2. CASE host # "up"
    <3>1. InHand' < InHand
      BY <1>0, <2>1 DEF InHand
    <3>2. /\ InHand \in 0..7 /\ InHand' \in 0..7
          /\ RequestsLeft \in 1..4 /\ RequestsLeft' \in 1..4
          /\ HostLeft = 30 + 12 * InHand + 2 * RequestsLeft
          /\ HostLeft' = 30 + 12 * InHand' + 2 * RequestsLeft'
      BY <1>0, <2>2, Lefts, LeftsNext DEF LeftRanges
    <3>3. /\ TelemetryLeft \in HostLeft..HostLeft + 1
          /\ TelemetryLeft' \in HostLeft'..HostLeft' + 1
      BY TelemetryBounds DEF PollCounts
    <3>4. \A e, f : e \in HostLeft..HostLeft + 1 /\ f \in HostLeft'..HostLeft' + 1
                    => f < e /\ f <= e
      BY <3>1, <3>2, FewerRequests
    <3>5. TelemetryLeft' < TelemetryLeft /\ TelemetryLeft' <= TelemetryLeft
      BY <3>3, <3>4
    <3> QED
      BY <3>5
  <2>3. CASE host = "up"
    <3>1. PacketLeft' < PacketLeft
      BY <1>0, <1>3, <2>1 DEF Sizes, Writes, Arms, MainGoes, PacketLeft, SendLeft
    <3>2. \/ HostLeft = 4 * PacketLeft /\ HostLeft' = 4 * PacketLeft'
          \/ HostLeft = 4 * PacketLeft + 2 /\ HostLeft' = 4 * PacketLeft' + 2
      BY <1>0, <2>3, Lefts, LeftsNext DEF LeftRanges
    <3> QED
      BY <3>1, <3>2, FewerSteps, TelemetryBounds, Lefts, LeftsNext DEF LeftRanges, PollCounts
  <2> QED
    BY <2>2, <2>3
<1> QED
  BY <1>1, <1>2, <1>3 DEF Sends

\* A request of the enumeration.
LEMMA FetchingRequests ==
  ASSUME UsbTypeOK, UsbTypeOK', Fetching, Fetching', Reset \/ SetAddress \/ SetConfiguration
  PROVE  TelemetryLeft' < TelemetryLeft /\ TelemetryLeft' <= TelemetryLeft
<1>0. polled /\ ~polled' /\ ~AwaitsPoll
  BY DEF Reset, ResetHandled, SetAddress, SetConfiguration, Request, AwaitsPoll
<1>1. host # "up" /\ sendPc' = sendPc
  BY DEF Reset, ResetHandled, SetAddress, SetConfiguration, sendVars
<1>2. CASE host' # "up"
  <2>1. txDone' = txDone
    BY <1>2, Zenon DEF Reset, ResetHandled, SetAddress, SetConfiguration, sendVars
  <2>2. InHand' = InHand
    BY <1>1, <2>1 DEF InHand, SendLeft
  <2>3. RequestsLeft' < RequestsLeft
    <3>1. CASE Reset
      BY <3>1 DEF Reset, ResetHandled, RequestsLeft, Answers
    <3>2. CASE SetAddress
      BY <3>2 DEF SetAddress, Fails, RequestsLeft, Answers, eptVars
    <3>3. CASE SetConfiguration
      BY <1>2, <3>3 DEF SetConfiguration, Fails, RequestsLeft, Answers
    <3> QED
      BY <3>1, <3>2, <3>3
  <2>4. /\ InHand \in 0..7 /\ InHand' \in 0..7
        /\ RequestsLeft \in 1..4 /\ RequestsLeft' \in 1..4
        /\ HostLeft = 30 + 12 * InHand + 2 * RequestsLeft
        /\ HostLeft' = 30 + 12 * InHand' + 2 * RequestsLeft'
    BY <1>1, <1>2, Lefts, LeftsNext DEF LeftRanges
  <2>5. /\ TelemetryLeft \in HostLeft..HostLeft + 1
        /\ TelemetryLeft' \in HostLeft'..HostLeft' + 1
    BY TelemetryBounds DEF PollCounts
  <2>6. \A e, f : e \in HostLeft..HostLeft + 1 /\ f \in HostLeft'..HostLeft' + 1
                  => f < e /\ f <= e
    BY <2>2, <2>3, <2>4, FewerRequests
  <2> QED
    BY <2>5, <2>6
<1>3. CASE host' = "up"
  <2>1. HostLeft = 30 + 12 * InHand + 2 * RequestsLeft
    BY <1>1, Lefts DEF LeftRanges
  <2>2. HostLeft' \in {4 * PacketLeft', 4 * PacketLeft' + 2}
    BY <1>3, LeftsNext DEF LeftRanges
  <2>3. InHand \in 0..7 /\ RequestsLeft \in 1..4 /\ PacketLeft' \in 1..6
    BY Lefts, LeftsNext DEF LeftRanges
  <2>4. /\ TelemetryLeft \in HostLeft..HostLeft + 1
        /\ TelemetryLeft' \in HostLeft'..HostLeft' + 1
    BY TelemetryBounds DEF PollCounts
  <2> QED
    BY <2>1, <2>2, <2>3, <2>4, FewerWhenUp
<1> QED
  BY <1>2, <1>3

\* A step of the host that has configured the device.  With a packet armed already,
\* clearing a halt that is not there arms nothing.
LEMMA FetchingUp ==
  ASSUME UsbTypeOK, UsbTypeOK', HostAndDeviceAgree, PacketSomewhere, Fetching, Fetching',
         In \/ Reconfigure \/ ClearHalt \/ Wakeup
  PROVE  /\ TelemetryLeft' <= TelemetryLeft
         /\ sendPc = "test" /\ (In \/ ~(Awake /\ tx = "valid"))
              => TelemetryLeft' < TelemetryLeft
<1>0. host = "up" /\ host' = "up" /\ sendPc' = sendPc /\ SendLeft' = SendLeft
  BY DEF In, Reconfigure, ClearHalt, Wakeup, ClassInit, sendVars, SendLeft
<1>1. CASE In
  <2>1. /\ Awake /\ Awake' /\ conn = "CONFIGURED" /\ tx = "valid"
        /\ rest' = FALSE /\ polled' = polled
    BY <1>0, <1>1 DEF In, Awake, devVars, HostAndDeviceAgree
  <2>2. rest /\ tx' = "valid"
    BY <1>0, <1>1, <2>1 DEF In, Fetching
  <2>3. ~AwaitsPoll /\ ~AwaitsPoll'
    BY <1>0, <2>1, <2>2 DEF AwaitsPoll
  <2>4. sendPc = "test" => PacketLeft = 2 /\ PacketLeft' = 1
    BY <1>0, <2>1, <2>2 DEF PacketLeft
  <2>5. sendPc # "test" => PacketLeft' = PacketLeft
    BY <1>0 DEF PacketLeft
  <2>6. /\ TelemetryLeft = 4 * PacketLeft /\ TelemetryLeft' = 4 * PacketLeft'
        /\ PacketLeft \in 1..6 /\ PacketLeft' \in 1..6
    BY <1>0, <2>1, <2>3, Lefts, LeftsNext DEF LeftRanges
  <2>7. sendPc = "test" => PacketLeft' < PacketLeft
    BY <2>4
  <2>8. CASE sendPc = "test"
    BY <2>6, <2>7, <2>8, FewerStepsAwake
  <2>9. CASE sendPc # "test"
    BY <2>5, <2>6, <2>9, SameSteps
  <2> QED
    BY <2>8, <2>9
<1>2. ~Reconfigure
  BY <1>0, Zenon DEF Reconfigure, ClassInit, Fetching
<1>3. CASE ClearHalt
  <2>1. /\ Awake /\ Awake' /\ tx' = "valid" /\ rest' = rest /\ polled /\ ~polled'
    BY <1>3 DEF ClearHalt, Request, Awake, devVars, sendVars
  <2>2. ~AwaitsPoll /\ ~AwaitsPoll'
    BY <1>0, <2>1 DEF AwaitsPoll
  <2>3. /\ TelemetryLeft = 4 * PacketLeft /\ TelemetryLeft' = 4 * PacketLeft'
        /\ PacketLeft \in 1..6 /\ PacketLeft' \in 1..6
    BY <1>0, <2>1, <2>2, Lefts, LeftsNext DEF LeftRanges
  <2>4. CASE sendPc = "test" /\ tx = "stall"
    <3>1. PacketLeft' < PacketLeft
      BY <1>0, <2>1, <2>4 DEF PacketLeft
    <3> QED
      BY <2>3, <3>1, FewerStepsAwake
  <2>5. CASE sendPc # "test" \/ tx # "stall"
    <3>1. sendPc = "test" => tx = "valid"
      BY <1>0, <2>5 DEF PacketSomewhere, Fetching
    <3>2. PacketLeft' = PacketLeft
      BY <1>0, <2>1, <2>5 DEF PacketLeft
    <3>3. ~In
      BY <2>1 DEF In
    <3>4. TelemetryLeft' <= TelemetryLeft
      BY <2>3, <3>2, SameSteps
    <3> QED
      BY <2>1, <3>1, <3>3, <3>4
  <2> QED
    BY <2>4, <2>5
<1>4. CASE Wakeup
  <2>1. /\ ~Awake /\ Awake' /\ tx' = tx /\ rest' = rest /\ polled /\ ~polled'
    BY <1>4 DEF Wakeup, Request, Awake, eptVars, sendVars, UsbTypeOK
  <2>2. PacketLeft' = PacketLeft
    BY <1>0, <2>1 DEF PacketLeft
  <2>3. ~AwaitsPoll
    BY <2>1 DEF AwaitsPoll
  <2> QED
    BY <1>0, <2>1, <2>2, <2>3, Lefts, LeftsNext DEF LeftRanges
<1> QED
  BY <1>1, <1>2, <1>3, <1>4

\* With the host up there is always a packet: the flag is up, or main has one in
\* hand, or endpoint 1.
LEMMA NoPacketLost == UsbSpec => []PacketSomewhere
<1>1. UsbInit => PacketSomewhere
  BY DEF UsbInit, PacketSomewhere
<1>2. UsbTypeOK /\ HostAndDeviceAgree /\ PacketSomewhere /\ [UsbNext]_usbVars => PacketSomewhere'
  <2> SUFFICES ASSUME UsbTypeOK, HostAndDeviceAgree, PacketSomewhere, [UsbNext]_usbVars
               PROVE  PacketSomewhere'
    OBVIOUS
  <2> USE DEF PacketSomewhere
  <2>0. txDone \in BOOLEAN /\ rest \in BOOLEAN
    BY DEF UsbTypeOK
  <2>1. CASE Tests
    <3>1. txDone => sendPc' = "size"
      BY <2>1 DEF Tests, MainGoes
    <3>2. ~txDone => sendPc = "test" /\ tx' = tx /\ host' = host
      BY <2>1 DEF Tests, MainGoes
    <3> QED
      BY <2>0, <3>1, <3>2
  <2>2. CASE Sizes \/ Writes
    BY <2>2 DEF Sizes, Writes, MainGoes
  <2>3. CASE Arms
    BY <2>3 DEF Arms
  <2>4. CASE In
    <3>1. conn = "CONFIGURED"
      BY <2>4 DEF In, HostAndDeviceAgree
    <3>2. CASE rest
      BY <2>4, <3>2 DEF In
    <3>3. CASE ~rest
      BY <2>0, <2>4, <3>1, <3>3, Zenon DEF In
    <3> QED
      BY <3>2, <3>3
  <2>5. CASE Reset \/ ResetAndWakeup \/ SetAddress \/ Deconfigure \/ StartsAgain
    BY <2>5 DEF Reset, ResetAndWakeup, ResetHandled, SetAddress, Fails, Deconfigure, StartsAgain
  <2>6. CASE SetConfiguration
    BY <2>6 DEF SetConfiguration, ClassInit, Fails
  <2>7. CASE Reconfigure
    BY <2>7 DEF Reconfigure, ClassInit
  <2>8. CASE Halt \/ ClearHalt
    BY <2>8 DEF Halt, ClearHalt
  <2>9. CASE Suspend \/ Wakeup
    BY <2>9 DEF Suspend, Wakeup, eptVars, sendVars
  <2>10. CASE UNCHANGED usbVars
    BY <2>10 DEF usbVars, eptVars, sendVars
  <2> QED
    BY <2>1, <2>2, <2>3, <2>4, <2>5, <2>6, <2>7, <2>8, <2>9, <2>10 DEF UsbNext, Bus, Sends
<1> QED
  BY <1>1, <1>2, UsbTypeCorrect, DeviceFollowsHost, PTL DEF UsbSpec

\* A host that goes on gets nearer to its next packet: at most 123 steps of main
\* and of the host are left to it, no step of either adds to them, and each one
\* they wait for takes from them.
THEOREM TelemetryDescends ==
  UsbSpec =>
    /\ []PacketSomewhere
    /\ [](TelemetryLeft \in 4..123)
    /\ [][Fetching /\ Fetching' /\ Proceeds => TelemetryLeft' <= TelemetryLeft]_usbVars
    /\ [][Fetching /\ Fetching' /\ AwaitedOfUsb => TelemetryLeft' < TelemetryLeft]_usbVars
<1>1. TelemetryLeft \in 4..123
  BY TelemetryBounds DEF PollCounts
<1>2. ASSUME UsbTypeOK, UsbTypeOK', HostAndDeviceAgree, PacketSomewhere, [UsbNext]_usbVars
      PROVE  /\ [Fetching /\ Fetching' /\ Proceeds => TelemetryLeft' <= TelemetryLeft]_usbVars
             /\ [Fetching /\ Fetching' /\ AwaitedOfUsb => TelemetryLeft' < TelemetryLeft]_usbVars
  <2> USE <1>2
  <2>1. ASSUME Fetching, Fetching', Proceeds PROVE TelemetryLeft' <= TelemetryLeft
    <3>1. CASE Sends
      BY <2>1, <3>1, FetchingSends
    <3>2. CASE Reset \/ SetAddress \/ SetConfiguration
      BY <2>1, <3>2, FetchingRequests
    <3>3. CASE In \/ Reconfigure \/ ClearHalt \/ Wakeup
      BY <2>1, <3>3, FetchingUp
    <3> QED
      BY <2>1, <3>1, <3>2, <3>3 DEF Proceeds
  <2>2. ASSUME Fetching, Fetching', AwaitedOfUsb PROVE TelemetryLeft' < TelemetryLeft
    <3>1. CASE /\ Sends
               /\ \/ host # "up" /\ ~polled
                  \/ host = "up" /\ sendPc # "test"
                  \/ host = "up" /\ ~(Awake /\ tx = "valid") /\ ~polled
      BY <2>2, <3>1, FetchingSends
    <3>2. CASE Reset \/ SetAddress \/ SetConfiguration
      BY <2>2, <3>2, FetchingRequests
    <3>3. CASE /\ sendPc = "test" /\ (In \/ ~(Awake /\ tx = "valid"))
               /\ In \/ Wakeup \/ ClearHalt
      BY <2>2, <3>3, FetchingUp
    <3> QED
      BY <2>2, <3>1, <3>2, <3>3 DEF AwaitedOfUsb
  <2> QED
    BY <2>1, <2>2
<1> QED
  BY <1>1, <1>2, UsbTypeCorrect, DeviceFollowsHost, NoPacketLost, PTL DEF UsbSpec

-----------------------------------------------------------------------------
(***************************************************************************)
(* The components together                                                 *)
(***************************************************************************)

\* A behaviour of the composition is one of every component: each step is one of
\* the component explored and leaves the others where they are.
THEOREM ImplementsComponents ==
  Spec =>
    /\ CountSpec /\ SpeedSpec /\ OffsetSpec /\ UsbSpec /\ SampleSpec
    /\ FilterSpec /\ CalibSpec /\ HfiSpec /\ TimerSpec /\ PwmSpec
<1>1. Init =>
      /\ CountInit /\ SpeedInit /\ OffsetInit /\ UsbInit /\ SampleInit
      /\ FilterInit /\ CalibInit /\ HfiInit /\ TimerInit /\ PwmInit
  BY DEF Init, AllInit
<1>2. [Next]_vars =>
      /\ [CountNext]_countVars /\ [SpeedNext]_speedVars
      /\ [OffsetNext]_offsetVars /\ [UsbNext]_usbVars
      /\ [SampleNext]_sampleVars /\ [FilterNext]_filterVars
      /\ [CalibNext]_calibVars /\ [HfiNext]_hfiVars
      /\ [TimerNext]_timerVars /\ [PwmNext]_pwmVars
  <2>1. CASE Next
    BY <2>1 DEF Next
  <2>2. CASE UNCHANGED vars
    BY <2>2 DEF vars
  <2> QED
    BY <2>1, <2>2
<1> QED
  BY <1>1, <1>2, PTL
     DEF Spec, CountSpec, SpeedSpec, OffsetSpec, UsbSpec, SampleSpec, FilterSpec,
         CalibSpec, HfiSpec, TimerSpec, PwmSpec

\* Every variable of every component keeps its type, for all the constants of them
\* all together.
THEOREM ComponentsTypeCorrect == Spec => []TypesOK
<1>1. Init => at \in Places
  BY DEF Init
<1>2. at \in Places /\ [Next]_vars => (at \in Places)'
  BY DEF Next, vars
<1>3. Spec => [](at \in Places)
  BY <1>1, <1>2, PTL DEF Spec
<1> QED
  BY <1>3, ImplementsComponents, CountTypeCorrect, SpeedTypeCorrect, OffsetTypeCorrect,
     UsbTypeCorrect, SampleTypeCorrect, FilterTypeCorrect, CalibTypeCorrect,
     HfiTypeCorrect, TimerTypeCorrect, PwmTypeCorrect, PTL DEF TypesOK

\* What the run of the composition checks on one choice of the constants holds for
\* every choice: each promise of a component is kept where it is explored.
THEOREM ComponentsKeepPromises ==
  Spec =>
    /\ []/\ ShadowTracksRotor /\ CommandAgrees /\ OffsetFaultIsFinal /\ HostAndDeviceAgree
         /\ OnePacketInFlight /\ AverageIsOfRecentValues /\ VectorInWindow
    /\ WholeUntilGivenUp /\ CalibrationIsComplete /\ IsCalibrationLoop
    /\ PolarityIsDecidedOnce /\ KeepsTime
BY ImplementsComponents, ShadowFollows, CommandsAgree, FaultFinal, DeviceFollowsHost,
   OnePacket, AverageOfRecent, VectorKept, OwnAnswers, CalibrationComplete,
   ImplementsCalibrationLoop, PolarityDecided, TimeKept, PTL
=============================================================================
