-------------------------------- MODULE Svpwm --------------------------------
(***************************************************************************)
(* SVPWM_Calc: from the voltage vector of a sample, given by two of its    *)
(* line voltages, to the compare values of the three legs, at which the    *)
(* timer switches them on its way between 0 and the peak.                  *)
(*                                                                         *)
(* Voltages are integers, Scale of them are the bus voltage of one count;  *)
(* the fractions of the float32_t computation are kept exactly up to the   *)
(* conversion to uint16_t.  svm(), which nothing calls, is left out.       *)
(***************************************************************************)
EXTENDS Integers

CONSTANTS
    Peak,    \* i32PeakCnt
    MaxDuty, \* f32_MaxDutyCnt: at most 0.8 of it
    Scale,   \* voltage units in one count
    VMax     \* bound on the line voltages requested

ASSUME SvpwmParameters ==
    /\ Peak \in Nat \ {0} /\ MaxDuty \in Nat \ {0} /\ 10 * MaxDuty <= 8 * Peak
    /\ Scale \in Nat \ {0} /\ VMax \in Nat

Legs == {"U", "V", "W"}

VARIABLES
    ab, bc,  \* f32Vab, f32Vbc
    on,      \* u16Uon, u16Von, u16Won
    ov,      \* u8OvFlag
    fresh    \* on is of ab and bc

pwmVars == <<ab, bc, on, ov, fresh>>

PwmTypeOK ==
    /\ ab \in -VMax..VMax /\ bc \in -VMax..VMax
    /\ on \in [Legs -> 0..Peak] /\ ov \in BOOLEAN /\ fresh \in BOOLEAN

\* Before the first vector: SVPWM_Init and Motor_FastStop.
PwmInit == ab = 0 /\ bc = 0 /\ on = [l \in Legs |-> 0] /\ ov = FALSE /\ fresh = FALSE

-----------------------------------------------------------------------------
ca == -(ab + bc)

\* The sector: its two vectors, and the legs by rising compare value.
Sector(v1, v2, first, second, third) == [v1 |-> v1, v2 |-> v2, order |-> <<first, second, third>>]

\* Mutant: the legs of sector 3 in the order of sector 2.
SectorThreeAsTwo ==
    IF ab >= 0
    THEN IF bc >= 0      THEN Sector(ab, bc, "U", "V", "W")     \* 1
         ELSE IF ca >= 0 THEN Sector(ca, ab, "W", "U", "V")     \* 5
                         ELSE Sector(-ca, -bc, "U", "W", "V")   \* 6
    ELSE IF bc <= 0      THEN Sector(-bc, -ab, "W", "V", "U")   \* 4
         ELSE IF ca <= 0 THEN Sector(-ab, -ca, "V", "U", "W")   \* 2
                         ELSE Sector(bc, ca, "V", "U", "W")

SectorOf ==
    IF ab >= 0
    THEN IF bc >= 0      THEN Sector(ab, bc, "U", "V", "W")     \* 1
         ELSE IF ca >= 0 THEN Sector(ca, ab, "W", "U", "V")     \* 5
                         ELSE Sector(-ca, -bc, "U", "W", "V")   \* 6
    ELSE IF bc <= 0      THEN Sector(-bc, -ab, "W", "V", "U")   \* 4
         ELSE IF ca <= 0 THEN Sector(-ab, -ca, "V", "U", "W")   \* 2
                         ELSE Sector(bc, ca, "V", "W", "U")     \* 3

\* f32T1 + f32T2 > f32_MaxDutyCnt
Exceeds(v1, v2) == v1 + v2 > MaxDuty * Scale

\* The time of a vector: cut in proportion when the two exceed the maximum.
Time(v, v1, v2) == IF Exceeds(v1, v2) THEN (v * MaxDuty) \div (v1 + v2) ELSE v \div Scale

\* The time of the zero vectors: what the other two, uncut, leave of the peak.
ZeroTime(v1, v2) ==
    IF Exceeds(v1, v2) THEN Peak - MaxDuty
    ELSE IF v1 + v2 > Peak * Scale THEN 0 ELSE (Peak * Scale - v1 - v2) \div Scale

SvpwmCalc ==
    /\ ~fresh
    /\ LET s == SectorOf
           t0 == ZeroTime(s.v1, s.v2)
           t1 == Time(s.v1, s.v1, s.v2)
           t2 == Time(s.v2, s.v1, s.v2)
       IN  /\ on' = [l \in Legs |-> t0 \div 2 + (IF l = s.order[1] THEN 0
                                            ELSE IF l = s.order[2] THEN t1 ELSE t1 + t2)]
           /\ ov' = Exceeds(s.v1, s.v2)
    /\ fresh' = TRUE
    /\ UNCHANGED <<ab, bc>>

\* Another vector.  (Bound: a unit away; every vector is reached.)
Requests ==
    /\ fresh
    /\ \/ ab' \in {ab - 1, ab + 1} \cap (-VMax .. VMax) /\ bc' = bc
       \/ bc' \in {bc - 1, bc + 1} \cap (-VMax .. VMax) /\ ab' = ab
    /\ fresh' = FALSE
    /\ UNCHANGED <<on, ov>>

PwmNext == SvpwmCalc \/ Requests
PwmSpec == PwmInit /\ [][PwmNext]_pwmVars

-----------------------------------------------------------------------------
(***************************************************************************)
(* Properties                                                              *)
(***************************************************************************)

AbsOf(n) == IF n < 0 THEN -n ELSE n
Largest == LET a == AbsOf(ab)  b == AbsOf(bc)  c == AbsOf(ca)
           IN  IF a >= b /\ a >= c THEN a ELSE IF b >= c THEN b ELSE c

\* Two legs are as far apart as the line voltage requested between them, up to
\* the two counts the conversions cut off; beyond the limit, scaled down by the
\* same factor for all three, to the longest time allowed.
Reproduces(leg1, leg2, v) ==
    LET counts == on[leg2] - on[leg1] IN
    IF Largest > MaxDuty * Scale
    THEN AbsOf(counts * Largest - v * MaxDuty) < 2 * Largest
    ELSE AbsOf(counts * Scale - v) < 2 * Scale

\* In all six sectors and on their borders, and with the vector cut or not, the
\* three legs make the vector requested.
VectorReproduced ==
    fresh => /\ Reproduces("U", "V", ab)
             /\ Reproduces("V", "W", bc)
             /\ Reproduces("W", "U", ca)

\* Whatever is requested, no leg switches nearer to either end of the count than
\* half of what the maximum leaves: near the peak, where the timer triggers the
\* sampling of the currents, all three have switched.  And the pulses sit in
\* the middle.
WindowKept ==
    fresh => /\ \A l \in Legs : /\ on[l] >= (Peak - MaxDuty) \div 2
                                /\ on[l] <= Peak - (Peak - MaxDuty) \div 2
             /\ \E f, t \in Legs : /\ \A l \in Legs : on[f] <= on[l] /\ on[l] <= on[t]
                                   /\ AbsOf(on[f] + on[t] - Peak) <= 3

\* In every sector, on its borders and beyond the limit the three legs make the
\* vector requested, or that vector cut, within the window.
VectorInWindow == VectorReproduced /\ WindowKept

=============================================================================
