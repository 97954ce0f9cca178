---------------------------- MODULE StartupProofs ----------------------------
(***************************************************************************)
(* Proofs about Startup, for every align time, current, ramp and observer  *)
(* and for runs broken off anywhere.                                       *)
(*                                                                         *)
(* ReferenceInv says which ramp the closed current loop follows and that   *)
(* TMR3 stores nothing into a start-up; AlignInv adds the samples already  *)
(* held to those still to come; OffsetInv says that nothing of an earlier  *)
(* offset is left when the encoder's phase is latched.                     *)
(***************************************************************************)
EXTENDS Startup, TLAPS

BeforeAlign == {"Initialize", "BscCharge", "StateDetect"}

ReferenceInv ==
    /\ running /\ status # "Finish" => ~enSpdPid /\ ~regulating
    /\ running /\ status \in BeforeAlign => ~enCurPid /\ forceIq = 0 /\ forceWr = 0
    /\ running /\ status \in {"Align", "ForceDrive"} =>
         enCurPid /\ idRef + iqRef = forceIq
    /\ running /\ status = "Align" => forceWr = 0
    /\ running /\ status = "ForceDrive" => forceWr <= ForceMaxWr

AlignInv ==
    /\ running /\ status \in BeforeAlign => align = 0 /\ left = AlignTimes /\ held = 0
    /\ running /\ status = "Align" =>
         /\ \A i \in 0..2 : i > align => left[i] = AlignTimes[i]
         /\ align = 0 => held + AtLeastOne(left[0]) = AtLeastOne(AlignTime[0])
         /\ align = 1 => held + AtLeastOne(left[1]) =
                           AtLeastOne(AlignTime[0]) + AtLeastOne(AlignTime[1])
         /\ align = 2 => held + AtLeastOne(left[2]) =
                           AtLeastOne(AlignTime[0]) + AtLeastOne(AlignTime[1])
                             + AtLeastOne(AlignTime[2])

OffsetInv == running /\ status = "Align" /\ align > 0 => offset = 0

-----------------------------------------------------------------------------
\* A phase is an angle, and the angle read when the offset is 0 is the rotor's.
LEMMA PhaseIsAngle == \A r, o \in Angles : (r - o) % Turn \in Angles
  BY InputAssumption DEF Angles

LEMMA PhaseWithoutOffset == \A r \in Angles : (r - 0) % Turn = r
  BY InputAssumption DEF Angles

\* The times the countdown starts from.
LEMMA AlignTimesType == AlignTimes \in [0..2 -> Int]
  BY AlignAssumption DEF AlignTimes

LEMMA AlignTimesCount ==
  \A i \in 0..2 : AtLeastOne(AlignTimes[i]) = AtLeastOne(AlignTime[i])
  BY AlignAssumption DEF AlignTimes, AtLeastOne

-----------------------------------------------------------------------------
\* A current ramp stays a natural number.
LEMMA RampType ==
  ASSUME NEW iq \in Nat, NEW step \in Nat, NEW limit \in Nat
  PROVE  Ramp(iq, step, limit) \in Nat
  BY DEF Ramp

\* Every step keeps the numbers in their ranges.
LEMMA NumbersStep == NumbersOK /\ [Next]_vars => NumbersOK'
  <1> SUFFICES ASSUME NumbersOK, [Next]_vars PROVE NumbersOK'
    OBVIOUS
  <1> USE DEF NumbersOK
  <1>1. CASE Start
    BY <1>1, AlignTimesType DEF Start, StartupInit, refVars
  <1>2. CASE Halt
    BY <1>2 DEF Halt, rampVars, alignVars
  <1>2a. CASE Leave
    <2>1. UNCHANGED <<align, left, offset, held, forceIq, forceWr, idRef, iqRef, tgtWr, rotor>>
      BY <1>2a DEF Leave, rampVars, refVars, alignVars, driveVars
    <2>2. QED
      BY <2>1
  <1>3. CASE RegulationBegins
    BY <1>3 DEF RegulationBegins, rampVars, refVars, alignVars, driveVars
  <1>4. CASE RegulationStores
    BY <1>4, InputAssumption DEF RegulationStores, rampVars, alignVars, driveVars
  <1>5. CASE Initialize \/ BscCharge \/ StateDetect
    BY <1>5 DEF Initialize, BscCharge, StateDetect, SampleAt, rampVars, refVars, alignVars
  <1>6. CASE Align
    <2> USE <1>6 DEF Align, SampleAt
    <2>1. left' \in [0..2 -> Int] /\ align' \in 0..2
      BY DEF NextAlign
    <2>2. offset' \in Angles
      <3>1. Phase \in Angles
        BY PhaseIsAngle DEF Phase
      <3>2. 0 \in Angles
        BY InputAssumption DEF Angles
      <3>3. QED
        BY <3>1, <3>2 DEF Latch
    <2>3. forceIq' \in Nat
      BY RampType, AlignAssumption
    <2>4. idRef' \in Int /\ iqRef' \in Int
      BY <2>3
    <2>5. QED
      BY <2>1, <2>2, <2>3, <2>4 DEF driveVars
  <1>7. CASE ForceDrive
    <2>1. forceIq' \in Nat
      BY <1>7, RampType, ForceAssumption DEF ForceDrive
    <2>2. QED
      BY <1>7, <2>1, ForceAssumption DEF ForceDrive, SampleAt, alignVars, driveVars
  <1>8. CASE CLStart
    BY <1>8, InputAssumption DEF CLStart, SampleAt, rampVars, refVars, alignVars
  <1>9. CASE Finish
    BY <1>9 DEF Finish, SampleAt, rampVars, refVars, alignVars, driveVars
  <1>10. CASE UNCHANGED vars
    BY <1>10 DEF vars, rampVars, refVars, alignVars, driveVars
  <1>11. QED
    BY <1>1, <1>2, <1>3, <1>4, <1>5, <1>6, <1>7, <1>8, <1>9, <1>10, <1>2a
    DEF Next, StartupControl

\* Every step keeps the types.
LEMMA TypeStep == TypeOK /\ [Next]_vars => TypeOK'
  <1> SUFFICES ASSUME TypeOK, [Next]_vars PROVE TypeOK'
    OBVIOUS
  <1>1. NumbersOK'
    BY NumbersStep DEF TypeOK
  <1> USE <1>1 DEF TypeOK
  <1>2. CASE Start \/ Leave \/ Halt
    BY <1>2 DEF Start, StartupInit, Leave, Halt, driveVars
  <1>3. CASE RegulationBegins \/ RegulationStores
    BY <1>3 DEF RegulationBegins, RegulationStores, driveVars
  <1>4. CASE StartupControl
    BY <1>4 DEF StartupControl, Initialize, BscCharge, StateDetect, Align, ForceDrive,
                CLStart, Finish, SampleAt, driveVars
  <1>5. CASE UNCHANGED vars
    BY <1>5 DEF vars, driveVars
  <1>6. QED
    BY <1>2, <1>3, <1>4, <1>5 DEF Next

\* Initially nothing runs.
LEMMA InitInvariants ==
  Init => TypeOK /\ OvershootBelowOneStep /\ ReferenceInv /\ AlignInv /\ OffsetInv
  <1> SUFFICES ASSUME Init
               PROVE  TypeOK /\ OvershootBelowOneStep /\ ReferenceInv /\ AlignInv /\ OffsetInv
    OBVIOUS
  <1>1. NumbersOK
    BY AlignTimesType, InputAssumption DEF Init, NumbersOK, Angles
  <1>2. QED
    BY <1>1 DEF Init, TypeOK, OvershootBelowOneStep, ReferenceInv, AlignInv, OffsetInv

\* The variables have their types: the counters that run through zero are
\* integers, the forced current and speed natural numbers, the offset an angle.
THEOREM TypeCorrect == Spec => []TypeOK
  <1>1. Init => TypeOK
    BY InitInvariants
  <1>2. QED
    BY <1>1, TypeStep, PTL DEF Spec

-----------------------------------------------------------------------------
\* A ramp step stays below one step above its limit.
LEMMA RampBelow ==
  ASSUME NEW iq \in Nat, NEW step \in Nat \ {0}, NEW limit \in Nat
  PROVE  Ramp(iq, step, limit) < limit + step
  BY DEF Ramp

\* The bounds of the ramps hold in every step.
LEMMA OvershootStep ==
  TypeOK /\ ReferenceInv /\ OvershootBelowOneStep /\ [Next]_vars => OvershootBelowOneStep'
  <1> SUFFICES ASSUME TypeOK, ReferenceInv, OvershootBelowOneStep, [Next]_vars
               PROVE  OvershootBelowOneStep'
    OBVIOUS
  <1> DEFINE Still == status' = status /\ UNCHANGED rampVars /\ (running' => running)
  <1>1. ASSUME Still PROVE OvershootBelowOneStep'
    BY <1>1 DEF OvershootBelowOneStep, rampVars
  <1>2. CASE Start
    <2>1. forceIq' = 0 /\ forceWr' = 0
      BY <1>2 DEF Start, StartupInit
    <2>2. forceIq' < AlignIq + AlignDIq /\ forceWr' <= ForceMaxWr + ForceAccRate
      BY <2>1, AlignAssumption, ForceAssumption
    <2>3. QED
      BY <2>2 DEF OvershootBelowOneStep
  <1>3. CASE Leave \/ Halt \/ RegulationBegins \/ RegulationStores \/ Finish
    <2>1. status' = status
      BY <1>3 DEF Leave, Halt, RegulationBegins, RegulationStores, Finish
    <2>2. running' => running
      BY <1>3, Zenon DEF Leave, Halt, RegulationBegins, RegulationStores, Finish, SampleAt
    <2>3. UNCHANGED rampVars
      BY <1>3 DEF Leave, Halt, RegulationBegins, RegulationStores, Finish
    <2>4. QED
      BY <2>1, <2>2, <2>3, <1>1
  <1>4. CASE Initialize \/ BscCharge \/ StateDetect
    <2>1. running /\ UNCHANGED rampVars /\ forceIq = 0 /\ forceWr = 0
      BY <1>4 DEF Initialize, BscCharge, StateDetect, SampleAt, ReferenceInv, BeforeAlign
    <2>2. forceIq' < AlignIq + AlignDIq /\ forceWr' <= ForceMaxWr + ForceAccRate
      BY <2>1, AlignAssumption, ForceAssumption DEF rampVars
    <2>3. QED
      BY <2>2 DEF OvershootBelowOneStep
  <1>5. CASE Align
    <2>1. forceIq' = Ramp(forceIq, AlignDIq, AlignIq) /\ forceWr' = forceWr /\ running
      BY <1>5 DEF Align, SampleAt
    <2>2. forceIq' < AlignIq + AlignDIq
      BY <2>1, RampBelow, AlignAssumption DEF TypeOK, NumbersOK
    <2>3. forceWr' <= ForceMaxWr + ForceAccRate
      BY <2>1 DEF OvershootBelowOneStep
    <2>4. QED
      BY <2>2, <2>3 DEF OvershootBelowOneStep
  <1>6. CASE ForceDrive
    <2>1. forceIq' = Ramp(forceIq, ForceDIq, ForceMaxIq) /\ forceWr' = forceWr + ForceAccRate
          /\ running /\ status = "ForceDrive" /\ status' # "Align"
      BY <1>6 DEF ForceDrive, SampleAt
    <2>2. forceIq' < ForceMaxIq + ForceDIq
      BY <2>1, RampBelow, ForceAssumption DEF TypeOK, NumbersOK
    <2>3. forceWr <= ForceMaxWr
      BY <2>1 DEF ReferenceInv
    <2>4. forceWr' <= ForceMaxWr + ForceAccRate
      BY <2>1, <2>3, ForceAssumption DEF TypeOK, NumbersOK
    <2>5. QED
      BY <2>1, <2>2, <2>4 DEF OvershootBelowOneStep
  <1>7. CASE CLStart
    BY <1>7 DEF CLStart, SampleAt, rampVars, OvershootBelowOneStep
  <1>8. CASE UNCHANGED vars
    <2>1. Still
      BY <1>8 DEF vars
    <2>2. QED
      BY <2>1, <1>1
  <1>9. QED
    BY <1>2, <1>3, <1>4, <1>5, <1>6, <1>7, <1>8 DEF Next, StartupControl

\* The closed current loop follows the ramp of its step in every step.
LEMMA ReferenceStep ==
  TypeOK /\ ReferenceInv /\ [Next]_vars => ReferenceInv'
  <1> SUFFICES ASSUME TypeOK, ReferenceInv, [Next]_vars PROVE ReferenceInv'
    OBVIOUS
  <1> USE DEF ReferenceInv, BeforeAlign
  <1>1. CASE Start
    BY <1>1 DEF Start, StartupInit
  <1>2. CASE Leave \/ Halt
    BY <1>2 DEF Leave, Halt
  <1>3. CASE RegulationBegins
    BY <1>3 DEF RegulationBegins, rampVars, refVars, driveVars
  <1>4. CASE RegulationStores
    <2>1. ~(running /\ status # "Finish")
      BY <1>4 DEF RegulationStores
    <2>2. QED
      BY <1>4, <2>1 DEF RegulationStores, driveVars, TypeOK
  <1>5. CASE Initialize \/ BscCharge
    BY <1>5 DEF Initialize, BscCharge, SampleAt, rampVars
  <1>6. CASE StateDetect
    <2>1. idRef' + iqRef' = forceIq'
      BY <1>6 DEF StateDetect, SampleAt, rampVars
    <2>2. QED
      BY <1>6, <2>1 DEF StateDetect, SampleAt, rampVars
  <1>7. CASE Align
    <2>1. forceIq' \in Nat
      BY <1>7, RampType, AlignAssumption DEF Align, TypeOK, NumbersOK
    <2>2. idRef' + iqRef' = forceIq'
      BY <1>7, <2>1 DEF Align
    <2>3. forceWr' = 0 /\ forceWr' <= ForceMaxWr
      BY <1>7, ForceAssumption DEF Align, SampleAt
    <2>4. QED
      BY <1>7, <2>2, <2>3 DEF Align, SampleAt, driveVars
  <1>8. CASE ForceDrive
    <2>1. forceIq' \in Nat /\ forceWr' \in Nat
      BY <1>8, RampType, ForceAssumption DEF ForceDrive, TypeOK, NumbersOK
    <2>2. idRef' + iqRef' = forceIq'
      BY <1>8, <2>1 DEF ForceDrive
    <2>3. status' = "ForceDrive" => forceWr' <= ForceMaxWr
      BY <1>8, <2>1, ForceAssumption DEF ForceDrive
    <2>4. QED
      BY <1>8, <2>2, <2>3 DEF ForceDrive, SampleAt, driveVars
  <1>9. CASE CLStart
    BY <1>9 DEF CLStart, SampleAt
  <1>10. CASE Finish
    BY <1>10 DEF Finish, SampleAt, driveVars
  <1>11. CASE UNCHANGED vars
    BY <1>11 DEF vars, rampVars, refVars, driveVars
  <1>12. QED
    BY <1>1, <1>2, <1>3, <1>4, <1>5, <1>6, <1>7, <1>8, <1>9, <1>10, <1>11
    DEF Next, StartupControl

\* Overshoot and reference together, in every reachable state.
LEMMA RampsInvariant == Spec => [](TypeOK /\ ReferenceInv /\ OvershootBelowOneStep)
  <1> DEFINE Inv == TypeOK /\ ReferenceInv /\ OvershootBelowOneStep
  <1>1. Init => Inv
    BY InitInvariants
  <1>2. Inv /\ [Next]_vars => Inv'
    BY TypeStep, OvershootStep, ReferenceStep
  <1>3. QED
    BY <1>1, <1>2, PTL DEF Spec

\* The forced current passes its target by less than one step of its ramp and
\* the forced speed ends at most one step above its maximum, for all currents,
\* slopes and align times.
THEOREM OvershootBounded == Spec => []OvershootBelowOneStep
  BY RampsInvariant, PTL

-----------------------------------------------------------------------------
\* A current below one step above the limit moves by at most one step.
LEMMA RampNear ==
  ASSUME NEW iq \in Nat, NEW step \in Nat \ {0}, NEW limit \in Nat, NEW m \in Nat,
         step <= m, iq < limit + m
  PROVE  Ramp(iq, step, limit) <= iq + m /\ Ramp(iq, step, limit) >= iq - m
  BY DEF Ramp

LEMMA MaxStepBounds == MaxStep \in Nat /\ AlignDIq <= MaxStep /\ ForceDIq <= MaxStep
  BY AlignAssumption, ForceAssumption DEF MaxStep

\* One sample moves the reference of the closed loop by at most one ramp step.
LEMMA KickStep ==
  ASSUME TypeOK, ReferenceInv, OvershootBelowOneStep, StartupControl
  PROVE  Reference' <= Reference + MaxStep /\ Reference' >= Reference - MaxStep
  <1> DEFINE Near(r, s) == s <= r + MaxStep /\ s >= r - MaxStep
  <1>1. ASSUME NEW r \in Int PROVE Near(r, r)
    BY MaxStepBounds
  <1>2. Reference \in Int
    BY DEF Reference, TypeOK, NumbersOK
  <1>3. CASE Initialize \/ BscCharge \/ StateDetect
    <2>1. ~enCurPid
      BY <1>3 DEF Initialize, BscCharge, StateDetect, SampleAt, ReferenceInv, BeforeAlign
    <2>2. Reference = 0
      BY <2>1 DEF Reference
    <2>3. CASE Initialize \/ BscCharge
      <3>1. ~enCurPid'
        BY <2>1, <2>3 DEF Initialize, BscCharge
      <3>2. Reference' = 0
        BY <3>1 DEF Reference
      <3>3. QED
        BY <2>2, <3>2, <1>1
    <2>4. CASE StateDetect
      <3>1. Reference' = 0
        BY <2>4 DEF StateDetect, Reference
      <3>2. QED
        BY <2>2, <3>1, <1>1
    <2>5. QED
      BY <1>3, <2>3, <2>4
  <1>4. CASE Align \/ ForceDrive
    <2>1. enCurPid /\ enCurPid' /\ Reference = forceIq
      BY <1>4 DEF Align, ForceDrive, SampleAt, driveVars, Reference, ReferenceInv
    <2>2. running /\ (Align => status = "Align")
      BY <1>4 DEF Align, ForceDrive, SampleAt
    <2>3. forceIq \in Nat
      BY DEF TypeOK, NumbersOK
    <2>4. CASE Align
      <3>1. forceIq' = Ramp(forceIq, AlignDIq, AlignIq) /\ forceIq < AlignIq + AlignDIq
        BY <2>2, <2>4 DEF Align, OvershootBelowOneStep
      <3>2. forceIq < AlignIq + MaxStep
        BY <3>1, <2>3, MaxStepBounds, AlignAssumption
      <3>3. forceIq' \in Nat /\ Near(forceIq, forceIq')
        BY <3>1, <3>2, <2>3, MaxStepBounds, RampNear, RampType, AlignAssumption
      <3>4. Reference' = forceIq'
        BY <3>3, <2>1, <2>4 DEF Align, Reference
      <3>5. QED
        BY <2>1, <3>3, <3>4
    <2>5. CASE ForceDrive
      <3>1. forceIq' = Ramp(forceIq, ForceDIq, ForceMaxIq)
        BY <2>5 DEF ForceDrive
      <3>2. forceIq < AlignIq + AlignDIq \/ forceIq < ForceMaxIq + ForceDIq
        BY <2>2 DEF OvershootBelowOneStep
      <3>3. forceIq < ForceMaxIq + MaxStep
        BY <3>2, <2>3, MaxStepBounds, AlignAssumption, ForceAssumption
      <3>4. forceIq' \in Nat /\ Near(forceIq, forceIq')
        BY <3>1, <3>3, <2>3, MaxStepBounds, RampNear, RampType, ForceAssumption
      <3>5. Reference' = forceIq'
        BY <3>4, <2>1, <2>5 DEF ForceDrive, Reference
      <3>6. QED
        BY <2>1, <3>4, <3>5
    <2>6. QED
      BY <1>4, <2>4, <2>5
  <1>5. CASE CLStart \/ Finish
    <2>1. UNCHANGED <<enCurPid, idRef, iqRef>>
      BY <1>5 DEF CLStart, Finish, refVars, driveVars
    <2>2. Reference' = Reference
      BY <2>1 DEF Reference
    <2>3. QED
      BY <2>2, <1>1, <1>2
  <1>6. QED
    BY <1>3, <1>4, <1>5 DEF StartupControl

\* No sample of a start-up kicks the current: not the first after a stop that
\* TMR3 overtook, not the hand-over from Align to ForceDrive, not the closing
\* of the speed loop.
THEOREM NoKick == Spec => NoCurrentKick
  <1>1. TypeOK /\ ReferenceInv /\ OvershootBelowOneStep
          => [StartupControl => /\ Reference' <= Reference + MaxStep
                                /\ Reference' >= Reference - MaxStep]_vars
    BY KickStep
  <1>2. QED
    BY <1>1, RampsInvariant, PTL DEF NoCurrentKick

-----------------------------------------------------------------------------
\* A count-down that does not end takes one sample off those to come; one that
\* ends had one sample left.
LEMMA CountDown ==
  ASSUME NEW t \in Int
  PROVE  /\ ~(t - 1 <= 0) => AtLeastOne(t - 1) = AtLeastOne(t) - 1
         /\ t - 1 <= 0 => AtLeastOne(t) = 1
  BY DEF AtLeastOne

LEMMA AtLeastOneType == \A t \in Int : AtLeastOne(t) \in Nat
  BY DEF AtLeastOne

\* The samples held and those to come make up the configured times in every step.
LEMMA AlignStep == TypeOK /\ AlignInv /\ [Next]_vars => AlignInv'
  <1> SUFFICES ASSUME TypeOK, AlignInv, [Next]_vars PROVE AlignInv'
    OBVIOUS
  <1> DEFINE Before == align = 0 /\ left = AlignTimes /\ held = 0
             Later == \A i \in 0..2 : i > align => left[i] = AlignTimes[i]
             First == held + AtLeastOne(left[0]) = AtLeastOne(AlignTime[0])
             Second == held + AtLeastOne(left[1]) =
                         AtLeastOne(AlignTime[0]) + AtLeastOne(AlignTime[1])
             Third == held + AtLeastOne(left[2]) =
                        AtLeastOne(AlignTime[0]) + AtLeastOne(AlignTime[1])
                          + AtLeastOne(AlignTime[2])
             During == Later /\ (align = 0 => First) /\ (align = 1 => Second)
                         /\ (align = 2 => Third)
  <1>1. AlignInv <=> /\ running /\ status \in BeforeAlign => Before
                     /\ running /\ status = "Align" => During
    BY DEF AlignInv
  <1>2. AlignInv' <=> /\ running' /\ status' \in BeforeAlign => Before'
                      /\ running' /\ status' = "Align" => During'
    BY DEF AlignInv
  <1>3. ASSUME UNCHANGED alignVars PROVE (Before => Before') /\ (During => During')
    BY <1>3 DEF alignVars, AlignTimes
  <1>4. Before => During
    <2>1. ASSUME Before PROVE First
      <3>1. AtLeastOne(left[0]) = AtLeastOne(AlignTime[0])
        BY <2>1, AlignTimesCount
      <3>2. AtLeastOne(AlignTime[0]) \in Nat
        BY AtLeastOneType, AlignAssumption
      <3>3. QED
        BY <2>1, <3>1, <3>2
    <2>2. QED
      BY <2>1
  <1> HIDE DEF Before, During
  <1>5. CASE Start
    <2>1. Before' /\ status' = "Initialize"
      BY <1>5 DEF Start, StartupInit, Before, AlignTimes
    <2>2. QED
      BY <2>1, <1>2
  <1>6. CASE Leave \/ Halt
    BY <1>6, <1>2 DEF Leave, Halt
  <1>7. CASE RegulationBegins \/ RegulationStores \/ Finish \/ UNCHANGED vars
    <2>1. UNCHANGED alignVars /\ status' = status
      BY <1>7 DEF RegulationBegins, RegulationStores, Finish, vars
    <2>2. running' = running
      BY <1>7, Zenon DEF RegulationBegins, RegulationStores, Finish, SampleAt, vars
    <2>3. QED
      BY <2>1, <2>2, <1>1, <1>2, <1>3
  <1>8. CASE Initialize \/ BscCharge \/ StateDetect
    <2>1. UNCHANGED alignVars /\ running /\ status \in BeforeAlign
      BY <1>8 DEF Initialize, BscCharge, StateDetect, SampleAt, BeforeAlign
    <2>2. Before' /\ During'
      BY <2>1, <1>1, <1>3, <1>4
    <2>3. QED
      BY <2>2, <1>2
  <1>9. CASE Align
    <2>1. running /\ status = "Align" /\ NextAlign /\ held' = held + 1
          /\ left' = [left EXCEPT ![align] = left[align] - 1]
          /\ status' \notin BeforeAlign
          /\ (status' = "Align" => ~(align = 2 /\ left'[2] <= 0))
      BY <1>9 DEF Align, SampleAt, BeforeAlign
    <2>2. During
      BY <2>1, <1>1
    <2> HIDE <1>9
    <2>3. ASSUME status' = "Align" PROVE During'
      <3>1. align \in 0..2 /\ left \in [0..2 -> Int] /\ held \in Nat
        BY DEF TypeOK, NumbersOK
      <3>2. left'[align] = left[align] - 1 /\ left[align] \in Int
            /\ \A i \in 0..2 : i # align => left'[i] = left[i]
        BY <2>1, <3>1
      <3>3. /\ left'[align] > 0 => AtLeastOne(left'[align]) = AtLeastOne(left[align]) - 1
            /\ left'[align] <= 0 => AtLeastOne(left[align]) = 1
        BY <3>2, CountDown
      <3>4. \A i \in 0..2 : AtLeastOne(AlignTime[i]) \in Nat /\ AtLeastOne(left[i]) \in Nat
        BY <3>1, AtLeastOneType, AlignAssumption
      <3>5. Later' /\ align' \in {align, align + 1}
        BY <2>1, <2>2, <3>1, <3>2 DEF During, NextAlign, AlignTimes
      <3>6. CASE left'[align] > 0
        <4>1. align' = align /\ AtLeastOne(left'[align]) = AtLeastOne(left[align]) - 1
          BY <2>1, <3>2, <3>3, <3>6 DEF NextAlign
        <4>2. held' + AtLeastOne(left'[align]) = held + AtLeastOne(left[align])
          BY <2>1, <3>1, <3>4, <4>1
        <4>3. (align' = 0 => First') /\ (align' = 1 => Second') /\ (align' = 2 => Third')
          BY <2>2, <4>1, <4>2 DEF During
        <4>4. QED
          BY <3>5, <4>3 DEF During
      <3>7. CASE left'[align] <= 0
        <4>1. align < 2
          BY <2>1, <2>3, <3>1, <3>7 DEF NextAlign
        <4>2. align' = align + 1
          BY <2>1, <3>7, <4>1 DEF NextAlign
        <4>3. AtLeastOne(left'[align + 1]) = AtLeastOne(AlignTime[align + 1])
          BY <2>2, <3>1, <3>2, <4>1, AlignTimesCount DEF During
        <4>4. AtLeastOne(left[align]) = 1
          BY <3>3, <3>7
        <4>5. CASE align = 0
          <5>1. Second'
            BY <2>1, <2>2, <3>1, <3>4, <4>3, <4>4, <4>5 DEF During
          <5>2. QED
            BY <3>5, <4>2, <4>5, <5>1 DEF During
        <4>6. CASE align = 1
          <5>1. Third'
            BY <2>1, <2>2, <3>1, <3>4, <4>3, <4>4, <4>6 DEF During
          <5>2. QED
            BY <3>5, <4>2, <4>6, <5>1 DEF During
        <4>7. QED
          BY <3>1, <4>1, <4>5, <4>6
      <3>8. QED
        BY <3>2, <2>1, <3>1, <3>6, <3>7
    <2>4. QED
      BY <2>1, <2>3, <1>2
  <1>10. CASE ForceDrive \/ CLStart
    <2>1. status' \notin BeforeAlign \cup {"Align"}
      BY <1>10 DEF ForceDrive, CLStart, BeforeAlign
    <2>2. QED
      BY <2>1, <1>2
  <1>11. QED
    BY <1>5, <1>6, <1>7, <1>8, <1>9, <1>10 DEF Next, StartupControl

\* The sample that ends Align is the last of the configured ones.
LEMMA AlignEnds ==
  ASSUME TypeOK, AlignInv, Align, status' # "Align"
  PROVE  held' = AtLeastOne(AlignTime[0]) + AtLeastOne(AlignTime[1])
                   + AtLeastOne(AlignTime[2])
  <1>1. align = 2 /\ left'[2] <= 0 /\ held' = held + 1
        /\ left' = [left EXCEPT ![align] = left[align] - 1]
    BY DEF Align
  <1>2. left \in [0..2 -> Int] /\ held \in Nat
    BY DEF TypeOK, NumbersOK
  <1>3. left'[2] = left[2] - 1 /\ left[2] \in Int
    BY <1>1, <1>2
  <1>4. AtLeastOne(left[2]) = 1
    BY <1>1, <1>3, CountDown
  <1>5. held + AtLeastOne(left[2]) =
          AtLeastOne(AlignTime[0]) + AtLeastOne(AlignTime[1]) + AtLeastOne(AlignTime[2])
    BY <1>1 DEF Align, SampleAt, AlignInv
  <1>6. QED
    BY <1>1, <1>2, <1>4, <1>5

\* The rotor is held for exactly the configured times in every run, whatever an
\* earlier run left in the counters that are decremented in place.
THEOREM AlignHeld == Spec => AlignLastsItsTime
  <1>1. Init => TypeOK /\ AlignInv
    BY InitInvariants
  <1>2. TypeOK /\ AlignInv /\ [Next]_vars => (TypeOK /\ AlignInv)'
    BY TypeStep, AlignStep
  <1>3. TypeOK /\ AlignInv
          => [Align /\ status' # "Align" =>
                held' = AtLeastOne(AlignTime[0]) + AtLeastOne(AlignTime[1])
                          + AtLeastOne(AlignTime[2])]_vars
    BY AlignEnds
  <1>4. QED
    BY <1>1, <1>2, <1>3, PTL DEF Spec, AlignLastsItsTime

-----------------------------------------------------------------------------
\* From the end of the first align time to the latch the offset is 0.
LEMMA OffsetStep == TypeOK /\ AlignInv /\ OffsetInv /\ [Next]_vars => OffsetInv'
  <1> SUFFICES ASSUME TypeOK, AlignInv, OffsetInv, [Next]_vars PROVE OffsetInv'
    OBVIOUS
  <1>1. CASE Start \/ Leave \/ Halt \/ ForceDrive \/ CLStart \/ Initialize \/ BscCharge
    BY <1>1 DEF Start, StartupInit, Leave, Halt, ForceDrive, CLStart, Initialize, BscCharge,
                OffsetInv
  <1>2. CASE RegulationBegins \/ RegulationStores \/ Finish \/ UNCHANGED vars
    <2>1. UNCHANGED <<align, offset>> /\ status' = status
      BY <1>2 DEF RegulationBegins, RegulationStores, Finish, vars, alignVars
    <2>2. running' = running
      BY <1>2, Zenon DEF RegulationBegins, RegulationStores, Finish, SampleAt, vars
    <2>3. QED
      BY <2>1, <2>2 DEF OffsetInv
  <1>3. CASE StateDetect
    <2>1. align' = 0
      BY <1>3 DEF StateDetect, SampleAt, alignVars, AlignInv, BeforeAlign
    <2>2. QED
      BY <2>1 DEF OffsetInv
  <1>4. CASE Align
    <2>1. running /\ status = "Align" /\ NextAlign /\ Latch
          /\ (status' = "Align" => ~(align = 2 /\ left'[2] <= 0))
      BY <1>4 DEF Align, SampleAt
    <2>2. align \in 0..2
      BY DEF TypeOK, NumbersOK
    <2>3. ASSUME status' = "Align", align' > 0 PROVE offset' = 0
      <3>1. align = 0 => left'[0] <= 0
        BY <2>1, <2>3 DEF NextAlign
      <3>2. align > 0 => offset = 0
        BY <2>1 DEF OffsetInv
      <3>3. QED
        BY <2>1, <2>2, <2>3, <3>1, <3>2 DEF Latch
    <2>4. QED
      BY <2>3 DEF OffsetInv
  <1>5. QED
    BY <1>1, <1>2, <1>3, <1>4 DEF Next, StartupControl

\* The offset an encoder start-up latches is the angle of the rotor, with
\* nothing of the offset of an earlier run in it.
THEOREM OffsetIsAngle == Spec => OffsetIsRotorAngle
  <1> DEFINE Inv == TypeOK /\ AlignInv /\ OffsetInv
  <1>1. Init => Inv
    BY InitInvariants
  <1>2. Inv /\ [Next]_vars => Inv'
    BY TypeStep, AlignStep, OffsetStep
  <1>3. ASSUME Inv, Align, status' = "CLStart" PROVE offset' = rotor'
    <2>1. align = 2 /\ left'[2] <= 0 /\ ObserverType = "ENCODER" /\ Latch
      BY <1>3 DEF Align
    <2>2. offset = 0 /\ rotor' \in Angles
      BY <1>3, <2>1 DEF Align, SampleAt, OffsetInv
    <2>3. offset' = Phase
      BY <2>1 DEF Latch
    <2>4. QED
      BY <2>2, <2>3, PhaseWithoutOffset DEF Phase
  <1>4. Inv => [Align /\ status' = "CLStart" => offset' = rotor']_vars
    BY <1>3
  <1>5. QED
    BY <1>1, <1>2, <1>4, PTL DEF Spec, OffsetIsRotorAngle

-----------------------------------------------------------------------------
\* Every sample of a run is a step of the start-up of MotorDrive, which takes
\* the end of Align and of ForceDrive as a choice.
THEOREM ImplementsStartupControl == Spec => IsStartupControl
  <1>1. ASSUME StartupControl PROVE Drive!StartupControl
    <2> USE DEF SampleAt, Drive!StartupControl, Drive!loopVars, HighFrequencyObserver,
                Drive!HighFrequencyObserver, driveVars
    <2>1. CASE Initialize \/ BscCharge
      BY <2>1 DEF Initialize, BscCharge
    <2>2. CASE StateDetect
      BY <2>2 DEF StateDetect
    <2>3. CASE Align
      BY <2>3 DEF Align
    <2>4. CASE ForceDrive
      BY <2>4 DEF ForceDrive
    <2>5. CASE CLStart
      BY <2>5 DEF CLStart
    <2>6. CASE Finish
      BY <2>6 DEF Finish
    <2>7. QED
      BY <1>1, <2>1, <2>2, <2>3, <2>4, <2>5, <2>6 DEF StartupControl
  <1>2. [StartupControl => Drive!StartupControl]_vars
    BY <1>1
  <1>3. QED
    BY <1>2, PTL DEF IsStartupControl

-----------------------------------------------------------------------------
\* The samples a run still needs at most: those of the align times not over, one
\* for every unit the forced speed is below its maximum, and the single samples of
\* the other steps.
AlignLeft ==
    IF align = 0 THEN AtLeastOne(left[0]) + AtLeastOne(left[1]) + AtLeastOne(left[2])
    ELSE IF align = 1 THEN AtLeastOne(left[1]) + AtLeastOne(left[2])
    ELSE AtLeastOne(left[2])
ForceLeft == ForceMaxWr - forceWr + 1
Remaining ==
    IF status = "Finish" THEN 0
    ELSE IF status = "CLStart" THEN 1
    ELSE IF status = "ForceDrive" THEN 1 + ForceLeft
    ELSE IF status = "Align" THEN 1 + ForceLeft + AlignLeft
    ELSE IF status = "StateDetect" THEN 2 + ForceLeft + AlignLeft
    ELSE IF status = "BscCharge" THEN 3 + ForceLeft + AlignLeft
    ELSE 4 + ForceLeft + AlignLeft

LEMMA LeftType ==
  ASSUME TypeOK, ReferenceInv, running
  PROVE  /\ AlignLeft \in Nat /\ AlignLeft >= 1
         /\ status \notin {"CLStart", "Finish"} => ForceLeft \in Nat /\ ForceLeft >= 1
         /\ Remaining \in Nat
  <1>1. left[0] \in Int /\ left[1] \in Int /\ left[2] \in Int /\ align \in 0..2
    BY DEF TypeOK, NumbersOK
  <1>2. AlignLeft \in Nat /\ AlignLeft >= 1
    BY <1>1 DEF AlignLeft, AtLeastOne
  <1>3. status \notin {"CLStart", "Finish"} => forceWr <= ForceMaxWr
    BY ForceAssumption DEF ReferenceInv, BeforeAlign, TypeOK
  <1>4. status \notin {"CLStart", "Finish"} => ForceLeft \in Nat /\ ForceLeft >= 1
    BY <1>3, ForceAssumption DEF ForceLeft, TypeOK, NumbersOK
  <1>5. Remaining \in Nat
    BY <1>2, <1>4 DEF Remaining
  <1>6. QED
    BY <1>2, <1>4, <1>5

\* A sample in Align takes one of the samples left there, or the step is over.
LEMMA AlignDescends ==
  ASSUME TypeOK, Align, status' = "Align"
  PROVE  AlignLeft' < AlignLeft
  <1>1. left[0] \in Int /\ left[1] \in Int /\ left[2] \in Int /\ align \in 0..2
    BY DEF TypeOK, NumbersOK
  <1>2. /\ left' = [left EXCEPT ![align] = @ - 1] /\ left \in [0..2 -> Int]
        /\ align' = (IF left'[align] <= 0 /\ align < 2 THEN align + 1 ELSE align)
        /\ ~(align = 2 /\ left'[2] <= 0)
    BY DEF Align, NextAlign, TypeOK, NumbersOK
  <1>3. left'[align] = left[align] - 1 /\ \A i \in 0..2 : i # align => left'[i] = left[i]
    BY <1>1, <1>2
  <1>4. CASE align = 0
    BY <1>1, <1>2, <1>3, <1>4 DEF AlignLeft, AtLeastOne
  <1>5. CASE align = 1
    BY <1>1, <1>2, <1>3, <1>5 DEF AlignLeft, AtLeastOne
  <1>6. CASE align = 2
    BY <1>1, <1>2, <1>3, <1>6 DEF AlignLeft, AtLeastOne
  <1>7. QED
    BY <1>1, <1>4, <1>5, <1>6

LEMMA SampleDescends ==
  ASSUME TypeOK, ReferenceInv, StartupControl, status # "Finish"
  PROVE  Remaining' < Remaining
  <1>1. running
    BY DEF StartupControl, Initialize, BscCharge, StateDetect, Align, ForceDrive, CLStart,
           Finish, SampleAt
  <1>2. AlignLeft \in Nat /\ AlignLeft >= 1 /\ Remaining \in Nat
        /\ (status \notin {"CLStart", "Finish"} => ForceLeft \in Nat /\ ForceLeft >= 1)
    BY <1>1, LeftType
  <1>3. CASE Initialize \/ BscCharge \/ StateDetect
    <2>1. UNCHANGED <<align, left, forceWr>>
      BY <1>3 DEF Initialize, BscCharge, StateDetect, rampVars, alignVars
    <2>2. AlignLeft' = AlignLeft /\ ForceLeft' = ForceLeft
      BY <2>1 DEF AlignLeft, ForceLeft
    <2>3. \/ status = "Initialize" /\ status' = "BscCharge"
          \/ status = "BscCharge" /\ status' = "StateDetect"
          \/ status = "StateDetect" /\ status' \in {"CLStart", "Align"}
      BY <1>3 DEF Initialize, BscCharge, StateDetect, SampleAt
    <2>4. QED
      BY <1>2, <2>2, <2>3 DEF Remaining
  <1>4. CASE Align
    <2>1. status = "Align" /\ status' \in {"CLStart", "ForceDrive", "Align"} /\ forceWr' = forceWr
      BY <1>4 DEF Align, SampleAt
    <2>2. ForceLeft' = ForceLeft
      BY <2>1 DEF ForceLeft
    <2>3. CASE status' = "Align"
      <3>1. AlignLeft' < AlignLeft
        BY <1>4, <2>3, AlignDescends
      <3>2. AlignLeft' \in Int
        <4>1. left'[0] \in Int /\ left'[1] \in Int /\ left'[2] \in Int
          BY <1>4, NumbersStep DEF TypeOK, NumbersOK, Next, StartupControl
        <4>2. QED
          BY <4>1 DEF AlignLeft, AtLeastOne
      <3>3. QED
        BY <1>2, <2>1, <2>2, <2>3, <3>1, <3>2 DEF Remaining
    <2>4. CASE status' # "Align"
      BY <1>2, <2>1, <2>2, <2>4 DEF Remaining
    <2>5. QED
      BY <2>3, <2>4
  <1>5. CASE ForceDrive
    <2>1. /\ status = "ForceDrive" /\ forceWr' = forceWr + ForceAccRate
          /\ status' \in {"CLStart", "ForceDrive"}
      BY <1>5 DEF ForceDrive, SampleAt
    <2>2. ForceLeft' < ForceLeft /\ ForceLeft' \in Int
      BY <2>1, ForceAssumption DEF ForceLeft, TypeOK, NumbersOK
    <2>3. QED
      BY <1>2, <2>1, <2>2 DEF Remaining
  <1>6. CASE CLStart
    BY <1>6 DEF CLStart, SampleAt, Remaining
  <1>7. QED
    BY <1>3, <1>4, <1>5, <1>6 DEF StartupControl, Finish, SampleAt

\* Every sample of a run brings it nearer to Finish, and nothing else moves it
\* away: what the counters contribute to StartupFinishes.  With the samples coming, a
\* run that is not stopped is in closed loop after at most Remaining of them.
THEOREM StartupDescends ==
  Spec => /\ [](running => Remaining \in Nat)
          /\ [][running =>
                IF StartupControl /\ status # "Finish" THEN Remaining' < Remaining
                                                       ELSE Remaining' = Remaining]_vars
  <1>1. TypeOK /\ ReferenceInv => (running => Remaining \in Nat)
    BY LeftType
  <1>2. TypeOK /\ ReferenceInv /\ [Next]_vars =>
          [running => IF StartupControl /\ status # "Finish" THEN Remaining' < Remaining
                                                             ELSE Remaining' = Remaining]_vars
    <2> SUFFICES ASSUME TypeOK, ReferenceInv, Next, running
                 PROVE  IF StartupControl /\ status # "Finish" THEN Remaining' < Remaining
                                                               ELSE Remaining' = Remaining
      OBVIOUS
    <2>1. CASE StartupControl /\ status # "Finish"
      BY <2>1, SampleDescends
    <2>2. CASE ~(StartupControl /\ status # "Finish")
      <3>1. CASE Leave \/ Halt \/ RegulationBegins \/ RegulationStores
        <4>1. UNCHANGED <<status, align, left, forceWr>>
          BY <3>1 DEF Leave, Halt, RegulationBegins, RegulationStores, rampVars, alignVars
        <4>2. QED
          BY <2>2, <4>1 DEF Remaining, AlignLeft, ForceLeft
      <3>2. CASE StartupControl
        <4>1. status = "Finish" /\ status' = "Finish"
          BY <2>2, <3>2 DEF StartupControl, Initialize, BscCharge, StateDetect, Align,
             ForceDrive, CLStart, Finish, SampleAt
        <4>2. QED
          BY <4>1 DEF Remaining
      <3>3. QED
        BY <3>1, <3>2 DEF Next, Start
    <2>3. QED
      BY <2>1, <2>2
  <1>3. QED
    BY <1>1, <1>2, RampsInvariant, PTL DEF Spec

=============================================================================
