---------------------------- MODULE EncoderCount ----------------------------
(***************************************************************************)
(* The count arithmetic of Encoder_Loop, which the ADC handler runs at     *)
(* every sample, against Encoder_Init and the change of i32TgtWrDir, which *)
(* main stores with interrupts enabled: the raw angle is mirrored for CW,  *)
(* wrapped into one turn, and its difference to the previous count is      *)
(* unwrapped into the shadow count.                                        *)
(*                                                                         *)
(* off_interp of the code shifts the low 11 bits right by 11: it is 0.     *)
(* The velocity loop and the interpolation (floating point) are left out.  *)
(***************************************************************************)
EXTENDS Integers

CONSTANTS
    Cpr,        \* ENCODER_CPR
    Garbled,    \* angles Encoder_Sample may report that are not the rotor's
    MaxPos      \* bound: how far the rotor moves either way, in counts

ASSUME CprAssumption == Cpr \in Nat \ {0} /\ Cpr % 2 = 0
ASSUME AngleAssumption == Garbled \subseteq Nat
ASSUME BoundAssumption == MaxPos \in Nat

Half == Cpr \div 2   \* ENCODER_CPR_DIV2
Dirs == {"CCW", "CW"}

VARIABLES
    raw,       \* Encoder.i32_Raw
    cntInCpr,  \* i32_CntInCpr, and i32_CntInCprPrev after the sample
    shadow,    \* i64_ShadowCnt
    runDir,    \* MotorRunPara.i32TgtWrDir
    initPc,    \* main, inside MotorSW_Init: its next store
    pos,       \* the rotor, in counts from where it was at power-up
    \* Histories, not in the program:
    seen,      \* pos at the last sample that read the rotor
    base,      \* shadow less the rotor's count at the first sample after a change
    synced,    \* base is of the present direction and count
    torn       \* a sample fell between Encoder_Init's two stores

count     == <<raw, cntInCpr, shadow>>
track     == <<seen, base, synced, torn>>
countVars == <<count, runDir, initPc, pos, track>>

CountTypeOK ==
    /\ raw \in Int /\ cntInCpr \in 0..Cpr /\ shadow \in Int
    /\ runDir \in Dirs /\ initPc \in {"elsewhere", "cntInCpr", "shadow", "runDir"}
    /\ pos \in Int /\ seen \in Int /\ base \in Int
    /\ synced \in BOOLEAN /\ torn \in BOOLEAN

CountInit ==
    /\ raw = 0 /\ cntInCpr = 0 /\ shadow = 0 /\ runDir = "CCW" /\ initPc = "elsewhere"
    /\ pos = 0 /\ seen = 0 /\ base = 0 /\ synced = FALSE /\ torn = FALSE

-----------------------------------------------------------------------------
\* Mutant: one turn is taken off at most.
WrapCountOnce(n) == IF n > Cpr THEN n - Cpr ELSE IF n < 0 THEN n + Cpr ELSE n

\* while (count > CPR) count -= CPR; while (count < 0) count += CPR;
\* CPR itself stays.
WrapCount(n) == IF n > Cpr THEN ((n - 1) % Cpr) + 1 ELSE IF n < 0 THEN n % Cpr ELSE n

\* Mutant: a whole turn is compared with, forwards.
WrapDeltaLate(d) == IF d > Cpr THEN d - Cpr ELSE IF d < -Half THEN d + Cpr ELSE d

\* The same for a difference of two counts and half a turn.
WrapDelta(d) == IF d > Half THEN d - Cpr ELSE IF d < -Half THEN d + Cpr ELSE d

Mirrored(angle) == IF runDir = "CCW" THEN angle ELSE Cpr - angle
Sign == IF runDir = "CCW" THEN 1 ELSE -1

\* Encoder_Loop from the raw angle on.
Loops(newRaw) ==
    /\ raw' = newRaw
    /\ cntInCpr' = WrapCount(newRaw)
    /\ shadow' = shadow + WrapDelta(cntInCpr' - cntInCpr)

Tears == torn' = (torn \/ initPc = "shadow")

\* The angle read is the rotor's.
Accepts ==
    /\ Loops(Mirrored(pos % Cpr))
    /\ seen' = pos
    /\ synced' = (initPc = "elsewhere")
    /\ base' = IF synced /\ synced' THEN base ELSE shadow' - Sign * pos
    /\ Tears
    /\ UNCHANGED <<runDir, initPc, pos>>

\* Encoder_Sample has given up: the last raw angle again.
TimesOut ==
    /\ Loops(raw)
    /\ Tears
    /\ UNCHANGED <<runDir, initPc, pos, seen, base, synced>>

\* The angle read is not the rotor's.  (Bound: MaxPos for the shadow count too.)
AcceptsGarbled ==
    /\ shadow \in -MaxPos .. MaxPos
    /\ \E angle \in Garbled : Loops(Mirrored(angle))
    /\ synced' = FALSE
    /\ Tears
    /\ UNCHANGED <<runDir, initPc, pos, seen, base>>

\* The rotor turns less than half a turn between two readings (16384 counts,
\* 20 kHz).
RotorMoves ==
    /\ \E p \in -MaxPos .. MaxPos : p - seen > -Half /\ p - seen < Half /\ pos' = p
    /\ UNCHANGED <<count, runDir, initPc, track>>

-----------------------------------------------------------------------------
(***************************************************************************)
(* Main: Encoder_Init in MotorSW_Init, then i32TgtWrDir                    *)
(***************************************************************************)

MainInitRaw ==
    /\ initPc = "elsewhere"
    /\ raw' = 0 /\ synced' = FALSE /\ initPc' = "cntInCpr"
    /\ UNCHANGED <<cntInCpr, shadow, runDir, pos, seen, base, torn>>

MainInitCnt ==
    /\ initPc = "cntInCpr"
    /\ cntInCpr' = 0 /\ initPc' = "shadow" /\ torn' = FALSE
    /\ UNCHANGED <<raw, shadow, runDir, pos, seen, base, synced>>

MainInitShadow ==
    /\ initPc = "shadow"
    /\ shadow' = 0 /\ initPc' = "runDir"
    /\ UNCHANGED <<raw, cntInCpr, runDir, pos, track>>

MainSetsDir ==
    /\ initPc = "runDir"
    /\ runDir' \in Dirs /\ initPc' = "elsewhere"
    /\ UNCHANGED <<count, pos, track>>

Sample    == Accepts \/ TimesOut \/ AcceptsGarbled
MainInits == MainInitRaw \/ MainInitCnt \/ MainInitShadow \/ MainSetsDir

CountNext == Sample \/ RotorMoves \/ MainInits

CountSpec == CountInit /\ [][CountNext]_countVars

-----------------------------------------------------------------------------
(***************************************************************************)
(* Properties                                                              *)
(***************************************************************************)

\* From the first reading after a start on, the shadow count moves with the
\* rotor, over any number of turns and time-outs, in the direction of the run:
\* the wrap of the mirrored angle, where CPR stands for 0, loses nothing.  This
\* is what a calibration relies on when it counts the turns of four periods.
ShadowTracksRotor == synced => shadow = base + Sign * seen

\* The shadow count is the count of the turn up to whole turns, also after
\* garbled angles, time-outs and a change of direction, unless a sample has
\* fallen between the stores of the two in Encoder_Init.
ShadowIsCountModTurn ==
    ~torn /\ initPc # "shadow" => (shadow - cntInCpr) % Cpr = 0

=============================================================================
