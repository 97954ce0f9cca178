--------------------------- MODULE ProtectionProofs ---------------------------
(***************************************************************************)
(* Proofs about Protection, for every frequency, every configured time and *)
(* every order of the two interrupts.                                      *)
(*                                                                         *)
(* Two invariants carry them.  VbusInv relates each voltage counter to the *)
(* history of its condition and says that the word TMR3 is about to store  *)
(* agrees with the fault word on the bits TMR3 owns.  CurrentInv says how  *)
(* far the over-current counter can be from the history of the samples     *)
(* when a store of TMR3 has erased the trip bit or brought it back.        *)
(***************************************************************************)
EXTENDS Protection, TLAPS

\* The times of the checks are natural numbers.
LEMMA TimesType == \A c \in Checks : CheckTime[c] \in Nat
  <1>1. \A us \in Nat : Ticks(us) \in Nat
    BY TimesAssumption DEF Ticks
  <1>2. QED
    BY <1>1, TimesAssumption DEF CheckTime, Checks

\* The over-current counter against the samples.  With the trip bit set, the
\* counter and the calm samples together make up the release time, and the
\* counter is used up only if a store of this tick has brought the bit back.
\* A bit about to come back was cleared by a sample inside the window.  With the
\* bit clear, or about to be erased, the counter lags the samples by one at most.
CurrentInv ==
    /\ over <= PeakOcpTime + 1
    /\ "OC_PEAK" \in fault =>
         /\ ocpCnt + calm >= ErrClrTime
         /\ ocpCnt > 0 \/ (ocpCnt = 0 /\ hit /\ (tpc = "idle" => ~sampled))
    /\ loaded /\ "OC_PEAK" \in treg /\ "OC_PEAK" \notin fault =>
         hit /\ ocpCnt = 0 /\ ocpCnt + calm >= ErrClrTime
    /\ "OC_PEAK" \notin fault \/ (loaded /\ "OC_PEAK" \notin treg) => ocpCnt >= over - 1

\* The voltage counters against the ticks, and the word about to be stored
\* against the fault word.
CounterInv(c) ==
    /\ cnt[c] <= CheckTime[c]
    /\ cnt[c] >= above[c] \/ cnt[c] >= CheckTime[c]
    /\ cnt[c] + below[c] <= CheckTime[c] \/ cnt[c] = 0

BitInv(c) ==
    /\ ~(loaded /\ tpc = c) => /\ above[c] > CheckTime[c] => c \in fault
                               /\ below[c] > CheckTime[c] => c \notin fault
    /\ loaded /\ tpc = c => /\ above[c] > CheckTime[c] => c \in treg
                            /\ below[c] > CheckTime[c] => c \notin treg
    /\ loaded /\ tpc # c => (c \in treg <=> c \in fault)

VbusInv == \A c \in Checks : CounterInv(c) /\ BitInv(c)

\* The counters of the over-current protection are numbers.
LEMMA OcTypes == TypeOK => /\ ocpCnt \in Int /\ over \in Nat /\ calm \in Nat
                           /\ PeakOcpTime \in Nat \ {0} /\ ErrClrTime \in Nat
                           /\ ErrClrTime >= PeakOcpTime
  BY TimesAssumption DEF TypeOK

\* A lag of one stays one when both counts go up.
LEMMA LagKept ==
  \A n \in Int, m, m1 \in Nat : n >= m - 1 /\ m1 <= m + 1 => n + 1 >= m1 - 1
  OBVIOUS

\* Initially nothing has been counted.
LEMMA InitInvariants == Init => TypeOK /\ CurrentInv /\ VbusInv
  <1> SUFFICES ASSUME Init PROVE TypeOK /\ CurrentInv /\ VbusInv
    OBVIOUS
  <1>1. TypeOK
    <2>1. ocpCnt \in -1 .. ErrClrTime /\ over \in Nat /\ calm \in Nat
      BY TimesAssumption DEF Init
    <2>2. cnt \in [Checks -> Nat] /\ above \in [Checks -> Nat] /\ below \in [Checks -> Nat]
      BY DEF Init
    <2>3. QED
      BY <2>1, <2>2 DEF Init, TypeOK, Levels
  <1>2. CurrentInv
    BY TimesAssumption DEF Init, CurrentInv
  <1>3. VbusInv
    BY TimesType DEF Init, VbusInv, CounterInv, BitInv
  <1>4. QED
    BY <1>1, <1>2, <1>3

-----------------------------------------------------------------------------
\* A sample keeps the over-current invariant and the counter's range.
LEMMA CurrentSample ==
  ASSUME TypeOK, CurrentInv, Sample
  PROVE  CurrentInv' /\ ocpCnt' \in -1 .. ErrClrTime /\ over' \in Nat /\ calm' \in Nat
  <1> USE OcTypes DEF tmrVars
  <1>1. /\ ~(loaded /\ hit) /\ hit' = (hit \/ loaded) /\ sampled' = TRUE
        /\ loaded' = loaded /\ treg' = treg /\ tpc' = tpc
    BY DEF Sample, SampleOver, SampleCalm, SampleBegins
  <1>2. loaded /\ "OC_PEAK" \in treg => "OC_PEAK" \in fault /\ ocpCnt > 0
    BY <1>1 DEF CurrentInv
  <1>3. over' \in Nat /\ over' <= PeakOcpTime + 1 /\ over' <= over + 1
    BY DEF Sample, SampleOver, SampleCalm, CurrentInv, Bump
  <1>4. calm' \in Nat
    BY DEF Sample, SampleOver, SampleCalm, Bump
  <1>5. CASE SampleOver
    <2>1. CASE "OC_PEAK" \in fault \/ ocpCnt + 1 >= PeakOcpTime
      <3>1. ocpCnt' = ErrClrTime /\ "OC_PEAK" \in fault'
        BY <1>5, <2>1 DEF SampleOver
      <3>2. ocpCnt' \in -1 .. ErrClrTime /\ ocpCnt' > 0 /\ ocpCnt' >= over' - 1
        BY <3>1, <1>3
      <3>3. ocpCnt' + calm' >= ErrClrTime
        BY <3>1, <1>4
      <3>4. QED
        BY <3>1, <3>2, <3>3, <1>3, <1>4 DEF CurrentInv
    <2>2. CASE "OC_PEAK" \notin fault /\ ~(ocpCnt + 1 >= PeakOcpTime)
      <3>1. ocpCnt' = ocpCnt + 1 /\ fault' = fault
        BY <1>5, <2>2 DEF SampleOver
      <3>2. ocpCnt >= over - 1 /\ ocpCnt \in -1 .. ErrClrTime
        BY <2>2 DEF CurrentInv, TypeOK
      <3>3. ocpCnt' \in -1 .. ErrClrTime /\ ocpCnt' >= over' - 1
        <4>1. ocpCnt + 1 < PeakOcpTime
          BY <2>2
        <4>2. ocpCnt' \in -1 .. ErrClrTime
          BY <3>1, <3>2, <4>1
        <4>3. ocpCnt' = ocpCnt + 1
          BY <3>1
        <4>4. over' <= over + 1
          BY <1>3
        <4>5. ocpCnt >= over - 1
          BY <3>2
        <4>6. ocpCnt' >= over' - 1
          <5>1. ocpCnt \in Int /\ over \in Nat
            OBVIOUS
          <5>2. over' \in Nat
            BY <1>3
          <5>3. ocpCnt + 1 >= over' - 1
            BY <4>4, <4>5, <5>1, <5>2, LagKept, Zenon
          <5>4. QED
            BY <5>3, <4>3, Zenon
        <4>7. QED
          BY <4>2, <4>6
      <3>4. ~(loaded' /\ "OC_PEAK" \in treg') /\ "OC_PEAK" \notin fault'
        BY <3>1, <2>2, <1>1, <1>2
      <3>5. QED
        BY <3>3, <3>4, <1>3, <1>4 DEF CurrentInv
    <2>3. QED
      BY <2>1, <2>2
  <1>6. CASE SampleCalm
    <2>1. over' = 0 /\ (calm' = calm + 1 \/ (calm > ErrClrTime /\ calm' = calm))
      BY <1>6 DEF SampleCalm, Bump
    <2>2. CASE "OC_PEAK" \notin fault
      <3>1. ocpCnt' = 0 /\ fault' = fault
        BY <1>6, <2>2 DEF SampleCalm
      <3>2. QED
        BY <3>1, <2>1, <2>2, <1>1, <1>2, <1>3, <1>4 DEF CurrentInv
    <2>3. CASE "OC_PEAK" \in fault /\ ocpCnt - 1 <= 0
      <3>1. ocpCnt' = ocpCnt - 1 /\ "OC_PEAK" \notin fault'
        BY <1>6, <2>3 DEF SampleCalm
      <3>2. ocpCnt >= 0 /\ ocpCnt + calm >= ErrClrTime
        BY <2>3 DEF CurrentInv
      <3>3. ocpCnt' \in -1 .. ErrClrTime /\ ocpCnt' >= over' - 1
        BY <3>1, <3>2, <2>1, <2>3
      <3>4. loaded /\ "OC_PEAK" \in treg => ocpCnt' = 0 /\ ocpCnt' + calm' >= ErrClrTime
        BY <3>1, <3>2, <2>1, <2>3, <1>2, <1>4
      <3>5. QED
        BY <3>1, <3>3, <3>4, <1>1, <1>3, <1>4 DEF CurrentInv
    <2>4. CASE "OC_PEAK" \in fault /\ ~(ocpCnt - 1 <= 0)
      <3>1. ocpCnt' = ocpCnt - 1 /\ fault' = fault
        BY <1>6, <2>4 DEF SampleCalm
      <3>2. ocpCnt + calm >= ErrClrTime /\ ocpCnt \in -1 .. ErrClrTime
        BY <2>4 DEF CurrentInv, TypeOK
      <3>3. ocpCnt' + calm' >= ErrClrTime /\ ocpCnt' > 0 /\ ocpCnt' \in -1 .. ErrClrTime
        BY <3>1, <3>2, <2>1, <2>4
      <3>4. QED
        BY <3>1, <3>3, <2>1, <2>4, <1>1, <1>3, <1>4 DEF CurrentInv
    <2>5. QED
      BY <2>2, <2>3, <2>4
  <1>7. QED
    BY <1>5, <1>6 DEF Sample

\* A step of TMR3 keeps the over-current invariant: it only erases the trip bit
\* or brings it back.
LEMMA CurrentTmr ==
  ASSUME TypeOK, CurrentInv,
         TmrTick \/ \E c \in Checks : TmrCounts(c) \/ TmrLoads(c) \/ TmrStores(c)
  PROVE  CurrentInv'
  <1> USE DEF ocVars
  <1>1. UNCHANGED <<ocpCnt, over, calm>>
    BY DEF TmrTick, TmrCounts, TmrLoads, TmrStores
  <1>2. CASE TmrTick
    <2>1. "OC_PEAK" \in fault => ocpCnt > 0
      BY <1>2 DEF TmrTick, CurrentInv
    <2>2. UNCHANGED <<fault, loaded, treg>> /\ ~loaded
      BY <1>2 DEF TmrTick, TypeOK
    <2>3. QED
      BY <1>1, <2>1, <2>2 DEF CurrentInv
  <1>3. ASSUME NEW c \in Checks, TmrCounts(c) PROVE CurrentInv'
    <2>1. UNCHANGED <<fault, loaded, treg, hit>> /\ ~loaded
      BY <1>3 DEF TmrCounts
    <2>2. tpc # "idle" /\ (tpc' = "idle" => ~sampled')
      BY <1>3 DEF TmrCounts, Goes, Returns, Checks
    <2>3. QED
      BY <1>1, <2>1, <2>2 DEF CurrentInv
  <1>4. ASSUME NEW c \in Checks, TmrLoads(c) PROVE CurrentInv'
    <2>1. /\ UNCHANGED <<fault, tpc, hit, sampled>>
          /\ ~loaded /\ ("OC_PEAK" \in treg' <=> "OC_PEAK" \in fault)
      BY <1>4 DEF TmrLoads, Checks
    <2>2. QED
      BY <1>1, <2>1 DEF CurrentInv
  <1>5. ASSUME NEW c \in Checks, TmrStores(c) PROVE CurrentInv'
    <2>1. /\ loaded /\ ~loaded' /\ hit' = hit
          /\ "OC_PEAK" \in fault' <=> "OC_PEAK" \in treg
      BY <1>5 DEF TmrStores
    <2>2. tpc # "idle" /\ (tpc' = "idle" => ~sampled')
      BY <1>5 DEF TmrStores, Goes, Returns, Checks
    <2>3. CASE "OC_PEAK" \in treg
      BY <1>1, <2>1, <2>2, <2>3 DEF CurrentInv
    <2>4. CASE "OC_PEAK" \notin treg
      BY <1>1, <2>1, <2>2, <2>4 DEF CurrentInv
    <2>5. QED
      BY <2>3, <2>4
  <1>6. QED
    BY <1>2, <1>3, <1>4, <1>5

\* Every step keeps the over-current invariant.
LEMMA CurrentStep == TypeOK /\ CurrentInv /\ [Next]_vars => CurrentInv'
  <1> SUFFICES ASSUME TypeOK, CurrentInv, [Next]_vars PROVE CurrentInv'
    OBVIOUS
  <1>1. CASE Sample
    BY <1>1, CurrentSample
  <1>2. CASE TmrTick \/ \E c \in Checks : TmrCounts(c) \/ TmrLoads(c) \/ TmrStores(c)
    BY <1>2, CurrentTmr
  <1>3. CASE UNCHANGED vars
    BY <1>3 DEF vars, tmrVars, ocVars, CurrentInv
  <1>4. QED
    BY <1>1, <1>2, <1>3 DEF Next

\* Every step keeps the types; the range of the over-current counter needs the
\* invariant.
LEMMA TypeStep == TypeOK /\ CurrentInv /\ [Next]_vars => TypeOK'
  <1> SUFFICES ASSUME TypeOK, CurrentInv, [Next]_vars PROVE TypeOK'
    OBVIOUS
  <1>1. CASE Sample
    <2>1. ocpCnt' \in -1 .. ErrClrTime /\ over' \in Nat /\ calm' \in Nat
      BY <1>1, CurrentSample
    <2>2. /\ fault' \subseteq Checks \cup {"OC_PEAK"}
          /\ hit' \in BOOLEAN /\ sampled' \in BOOLEAN
          /\ UNCHANGED tmrVars
      BY <1>1 DEF TypeOK, Sample, SampleOver, SampleCalm, SampleBegins
    <2>3. QED
      BY <2>1, <2>2 DEF TypeOK, tmrVars
  <1>2. CASE TmrTick
    BY <1>2 DEF TypeOK, TmrTick, ocVars, Checks
  <1>3. ASSUME NEW c \in Checks, TmrCounts(c) \/ TmrLoads(c) \/ TmrStores(c) PROVE TypeOK'
    <2>1. /\ above' \in [Checks -> Nat] /\ below' \in [Checks -> Nat]
          /\ cnt' \in [Checks -> Nat]
      <3>1. TmrStores(c) => UNCHANGED <<above, below, cnt>>
        BY DEF TmrStores
      <3>2. TmrCounts(c) \/ TmrLoads(c) => Remember(c)
        BY DEF TmrCounts, TmrLoads
      <3>3. Remember(c) => above' \in [Checks -> Nat] /\ below' \in [Checks -> Nat]
        BY DEF Remember, Bump, TypeOK
      <3>4. TmrCounts(c) \/ TmrLoads(c) => cnt' \in [Checks -> Nat]
        BY DEF TmrCounts, TmrLoads, TypeOK
      <3>5. QED
        BY <1>3, <3>1, <3>2, <3>3, <3>4 DEF TypeOK
    <2>2. tpc' \in Checks \cup {"idle"} /\ sampled' \in BOOLEAN
      BY <1>3 DEF TmrCounts, TmrLoads, TmrStores, Goes, Returns, Checks, TypeOK
    <2>3. fault' \subseteq Checks \cup {"OC_PEAK"} /\ treg' \subseteq Checks \cup {"OC_PEAK"}
      BY <1>3 DEF TmrCounts, TmrLoads, TmrStores, TypeOK
    <2>4. loaded' \in BOOLEAN /\ (loaded' => tpc' # "idle")
      <3>1. TmrCounts(c) \/ TmrStores(c) => loaded' = FALSE
        BY DEF TmrCounts, TmrStores, TypeOK
      <3>2. TmrLoads(c) => loaded' = TRUE /\ tpc' # "idle"
        BY DEF TmrLoads, Checks
      <3>3. QED
        BY <1>3, <3>1, <3>2
    <2>5. UNCHANGED <<level, ocpCnt, over, calm, hit>>
      BY <1>3 DEF TmrCounts, TmrLoads, TmrStores, ocVars
    <2>6. QED
      BY <2>1, <2>2, <2>3, <2>4, <2>5 DEF TypeOK
  <1>4. CASE UNCHANGED vars
    BY <1>4 DEF vars, tmrVars, ocVars, TypeOK
  <1>5. QED
    BY <1>1, <1>2, <1>3, <1>4 DEF Next

\* The counters keep their types, and the over-current counter its range: the
\* races on the fault word take it to -1 and never further.
THEOREM TypeCorrect == Spec => []TypeOK
  <1>1. Init => TypeOK /\ CurrentInv
    BY InitInvariants
  <1>2. TypeOK /\ CurrentInv /\ [Next]_vars => (TypeOK /\ CurrentInv)'
    BY TypeStep, CurrentStep
  <1>3. QED
    BY <1>1, <1>2, PTL DEF Spec

-----------------------------------------------------------------------------
\* An over-current that goes on trips: with more than i32PeakOcpTime samples in
\* a row above the limit the handler leaves with the bit set, for every time
\* and every moment at which TMR3 stores the fault word.
THEOREM SustainedTrips == Spec => SustainedOvercurrentTrips
  <1>1. Init => TypeOK /\ CurrentInv
    BY InitInvariants
  <1>2. TypeOK /\ CurrentInv /\ [Next]_vars => (TypeOK /\ CurrentInv)'
    BY TypeStep, CurrentStep
  <1>3. TypeOK /\ CurrentInv /\ [Next]_vars =>
          [SampleOver /\ over' > PeakOcpTime => "OC_PEAK" \in fault']_vars
    <2> SUFFICES ASSUME TypeOK, CurrentInv, SampleOver, over' > PeakOcpTime,
                        "OC_PEAK" \notin fault'
                 PROVE  FALSE
      OBVIOUS
    <2> USE OcTypes
    <2>1. over >= PeakOcpTime
      BY DEF SampleOver, Bump
    <2>2. "OC_PEAK" \notin fault /\ ocpCnt + 1 < PeakOcpTime
      BY DEF SampleOver
    <2>3. ocpCnt >= over - 1
      BY <2>2 DEF CurrentInv
    <2>4. QED
      BY <2>1, <2>2, <2>3
  <1>4. QED
    BY <1>1, <1>2, <1>3, PTL DEF Spec, SustainedOvercurrentTrips

\* The handler releases a trip only after i32ErrClrTime calm samples in a row.
THEOREM ReleasedOnlyAfterCalm == Spec => OvercurrentReleasedOnlyAfterCalm
  <1>1. Init => TypeOK /\ CurrentInv
    BY InitInvariants
  <1>2. TypeOK /\ CurrentInv /\ [Next]_vars => (TypeOK /\ CurrentInv)'
    BY TypeStep, CurrentStep
  <1>3. TypeOK /\ CurrentInv /\ [Next]_vars =>
          [Sample /\ "OC_PEAK" \in fault /\ "OC_PEAK" \notin fault' => calm' >= ErrClrTime]_vars
    <2> SUFFICES ASSUME TypeOK, CurrentInv, Sample,
                        "OC_PEAK" \in fault, "OC_PEAK" \notin fault'
                 PROVE  calm' >= ErrClrTime
      OBVIOUS
    <2> USE OcTypes
    <2>1. ocpCnt + calm >= ErrClrTime
      BY DEF CurrentInv
    <2>2. SampleCalm
      BY DEF Sample, SampleOver
    <2>3. ocpCnt <= 1
      BY <2>2 DEF SampleCalm
    <2>4. calm' = calm + 1 \/ (calm > ErrClrTime /\ calm' = calm)
      BY <2>2 DEF SampleCalm, Bump
    <2>5. QED
      BY <2>1, <2>3, <2>4
  <1>4. QED
    BY <1>1, <1>2, <1>3, PTL DEF Spec, OvercurrentReleasedOnlyAfterCalm

-----------------------------------------------------------------------------
\* A sample of the current touches no bit of the voltage checks.
LEMMA VbusSample == VbusInv /\ Sample => VbusInv'
  <1> SUFFICES ASSUME VbusInv, Sample PROVE VbusInv'
    OBVIOUS
  <1>1. UNCHANGED tmrVars
    BY DEF Sample, SampleOver, SampleCalm
  <1>2. \A c \in Checks : c \in fault' <=> c \in fault
    BY DEF Sample, SampleOver, SampleCalm, Checks
  <1>3. QED
    BY <1>1, <1>2 DEF VbusInv, CounterInv, BitInv, tmrVars

\* A step of one check moves its counter with its history, and leaves those of
\* the other checks and their bits alone.
LEMMA VbusCheck ==
  ASSUME TypeOK, VbusInv, NEW c \in Checks, TmrCounts(c) \/ TmrLoads(c)
  PROVE  VbusInv'
  <1> DEFINE T == CheckTime[c]
  <1>1. T \in Nat /\ cnt[c] \in Nat /\ above[c] \in Nat /\ below[c] \in Nat
    BY TimesType DEF TypeOK
  <1>2. /\ cnt[c] <= T
        /\ cnt[c] >= above[c] \/ cnt[c] >= T
        /\ cnt[c] + below[c] <= T \/ cnt[c] = 0
    BY DEF VbusInv, CounterInv
  <1>3. /\ ~loaded /\ tpc = c /\ fault' = fault
        /\ \A d \in Checks : d # c => cnt'[d] = cnt[d] /\ above'[d] = above[d] /\ below'[d] = below[d]
    BY DEF TmrCounts, TmrLoads, Remember, TypeOK
  <1>4. IF c \in Passes(level)
        THEN above'[c] = Bump(above[c], T) /\ below'[c] = 0
        ELSE above'[c] = 0 /\ below'[c] = Bump(below[c], T)
    BY DEF TmrCounts, TmrLoads, Remember, TypeOK
  <1>5. \A d \in Checks : d # c => CounterInv(d)'
    BY <1>3 DEF VbusInv, CounterInv
  <1>6. CASE TmrCounts(c)
    <2>1. loaded' = FALSE
      BY <1>3, <1>6 DEF TmrCounts
    <2>2. \/ c \in Passes(level) /\ cnt[c] < T /\ cnt'[c] = cnt[c] + 1
          \/ c \notin Passes(level) /\ cnt[c] > 0 /\ cnt'[c] = cnt[c] - 1
      BY <1>6 DEF TmrCounts, TypeOK
    <2>3. /\ cnt'[c] <= T /\ cnt'[c] >= above'[c] /\ above'[c] <= T
          /\ cnt'[c] + below'[c] <= T /\ below'[c] <= T
      <3>1. CASE c \in Passes(level)
        <4>1. cnt'[c] = cnt[c] + 1 /\ cnt[c] < T /\ above'[c] = Bump(above[c], T) /\ below'[c] = 0
          BY <3>1, <2>2, <1>4
        <4>2. QED
          BY <4>1, <1>1, <1>2 DEF Bump
      <3>2. CASE c \notin Passes(level)
        <4>1. cnt'[c] = cnt[c] - 1 /\ cnt[c] > 0 /\ above'[c] = 0 /\ below'[c] = Bump(below[c], T)
          BY <3>2, <2>2, <1>4
        <4>2. QED
          BY <4>1, <1>1, <1>2 DEF Bump
      <3>3. QED
        BY <3>1, <3>2
    <2>4. CounterInv(c)'
      BY <2>3 DEF CounterInv
    <2>5. ~(above'[c] > T) /\ ~(below'[c] > T)
      <3>1. above'[c] \in Nat /\ below'[c] \in Nat
        BY <1>1, <1>4 DEF Bump
      <3>2. QED
        BY <2>3, <3>1, <1>1
    <2>6. BitInv(c)'
      BY <2>1, <2>5 DEF BitInv
    <2>7. \A d \in Checks : d # c => BitInv(d)'
      BY <1>3, <2>1 DEF VbusInv, BitInv
    <2>8. QED
      BY <1>5, <2>4, <2>6, <2>7 DEF VbusInv
  <1>7. CASE TmrLoads(c)
    <2>1. loaded' = TRUE /\ tpc' = c /\ cnt' = cnt
      BY <1>3, <1>7 DEF TmrLoads
    <2>2. \/ c \in Passes(level) /\ ~(cnt[c] < T) /\ treg' = fault \cup {c}
          \/ c \notin Passes(level) /\ ~(cnt[c] > 0) /\ treg' = fault \ {c}
      BY <1>7 DEF TmrLoads
    <2>3. CounterInv(c)'
      <3>1. CASE c \in Passes(level)
        <4>1. ~(cnt[c] < T) /\ below'[c] = 0
          BY <3>1, <2>2, <1>4
        <4>2. QED
          BY <4>1, <2>1, <1>1, <1>2 DEF CounterInv
      <3>2. CASE c \notin Passes(level)
        <4>1. ~(cnt[c] > 0) /\ above'[c] = 0
          BY <3>2, <2>2, <1>4
        <4>2. QED
          BY <4>1, <2>1, <1>1, <1>2 DEF CounterInv
      <3>3. QED
        BY <3>1, <3>2
    <2>4. BitInv(c)'
      <3>1. CASE c \in Passes(level)
        <4>1. c \in treg' /\ ~(below'[c] > T)
          BY <3>1, <2>2, <1>1, <1>4
        <4>2. QED
          BY <4>1, <2>1 DEF BitInv
      <3>2. CASE c \notin Passes(level)
        <4>1. c \notin treg' /\ ~(above'[c] > T)
          BY <3>2, <2>2, <1>1, <1>4
        <4>2. QED
          BY <4>1, <2>1 DEF BitInv
      <3>3. QED
        BY <3>1, <3>2
    <2>5. \A d \in Checks : d # c => (d \in treg' <=> d \in fault)
      BY <2>2
    <2>6. \A d \in Checks : d # c => BitInv(d)'
      BY <1>3, <2>1, <2>5 DEF VbusInv, BitInv
    <2>7. QED
      BY <1>5, <2>3, <2>4, <2>6 DEF VbusInv
  <1>8. QED
    BY <1>6, <1>7

\* The store of a check puts its own bit in place and changes no other.
LEMMA VbusStore ==
  ASSUME VbusInv, NEW c \in Checks, TmrStores(c)
  PROVE  VbusInv'
  <1>1. loaded /\ tpc = c /\ fault' = treg /\ ~loaded' /\ UNCHANGED <<cnt, above, below>>
    BY DEF TmrStores
  <1>2. \A d \in Checks : CounterInv(d)'
    BY <1>1 DEF VbusInv, CounterInv
  <1>3. \A d \in Checks : BitInv(d)'
    BY <1>1 DEF VbusInv, BitInv
  <1>4. QED
    BY <1>2, <1>3 DEF VbusInv

\* Every step keeps the voltage invariant.
LEMMA VbusStep == TypeOK /\ VbusInv /\ [Next]_vars => VbusInv'
  <1> SUFFICES ASSUME TypeOK, VbusInv, [Next]_vars PROVE VbusInv'
    OBVIOUS
  <1>1. CASE Sample
    BY <1>1, VbusSample
  <1>2. CASE TmrTick
    <2>1. UNCHANGED <<fault, cnt, loaded, treg, above, below>> /\ ~loaded
      BY <1>2 DEF TmrTick, TypeOK
    <2>2. QED
      BY <2>1 DEF VbusInv, CounterInv, BitInv
  <1>3. ASSUME NEW c \in Checks, TmrCounts(c) \/ TmrLoads(c) \/ TmrStores(c) PROVE VbusInv'
    BY <1>3, VbusCheck, VbusStore
  <1>4. CASE UNCHANGED vars
    BY <1>4 DEF vars, tmrVars, VbusInv, CounterInv, BitInv
  <1>5. QED
    BY <1>1, <1>2, <1>3, <1>4 DEF Next

\* A bit of the voltage checks follows a level that is sustained for longer than
\* its time, for every time and whatever the ADC handler does to the word.
THEOREM VbusFollows == Spec => []VbusFollowsSustainedLevel
  <1>1. Init => TypeOK /\ CurrentInv /\ VbusInv
    BY InitInvariants
  <1>2. TypeOK /\ CurrentInv /\ VbusInv /\ [Next]_vars => (TypeOK /\ CurrentInv /\ VbusInv)'
    BY TypeStep, CurrentStep, VbusStep
  <1>3. TypeOK /\ CurrentInv /\ VbusInv => VbusFollowsSustainedLevel
    BY DEF VbusInv, BitInv, VbusFollowsSustainedLevel
  <1>4. QED
    BY <1>1, <1>2, <1>3, PTL DEF Spec
=============================================================================
