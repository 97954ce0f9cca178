----------------------------- MODULE EncoderProofs -----------------------------
(***************************************************************************)
(* Proofs about the encoder: the count of EncoderCount, for every even Cpr *)
(* and every rotor, and the transfers of EncoderSample, for every number   *)
(* of polls.                                                               *)
(*                                                                         *)
(* Congruence modulo Cpr is stated with a multiple of Cpr as its witness.  *)
(***************************************************************************)
EXTENDS EncoderCount, EncoderSample, TLAPS

-----------------------------------------------------------------------------
(***************************************************************************)
(* EncoderCount                                                            *)
(***************************************************************************)

LEMMA CprFacts ==
    /\ Cpr \in Nat /\ Cpr >= 2 /\ Half \in Nat /\ 2 * Half = Cpr
    /\ Garbled \subseteq Int
<1>1. Cpr \in Nat /\ Cpr > 0 /\ Cpr % 2 = 0
  BY CprAssumption
<1>2. Cpr >= 2 /\ Cpr \div 2 \in Nat /\ 2 * (Cpr \div 2) = Cpr
  BY <1>1
<1> QED
  BY <1>1, <1>2, AngleAssumption DEF Half

LEMMA CprIsInt == Cpr \in Int
  BY CprFacts

LEMMA Difference ==
    ASSUME NEW c \in Int, NEW x \in Int, NEW y \in Int,
           0 <= x, x <= c, 0 <= y, y <= c
    PROVE  x - y \in Int /\ -c <= x - y /\ x - y <= c
  OBVIOUS

LEMMA DivMod ==
    ASSUME NEW a \in Int
    PROVE  /\ a % Cpr \in Int /\ 0 <= a % Cpr /\ a % Cpr < Cpr
           /\ \E q \in Int : a = q * Cpr + (a % Cpr)
<1>1. Cpr \in Nat /\ Cpr > 0
  BY CprFacts
<1>2. a \div Cpr \in Int /\ a = (a \div Cpr) * Cpr + (a % Cpr)
  BY <1>1
<1>3. a % Cpr \in Int /\ 0 <= a % Cpr /\ a % Cpr < Cpr
  BY <1>1
<1> QED
  BY <1>2, <1>3

\* Two numbers less than Cpr apart that differ by a multiple of it are the same.
LEMMA Unique ==
    ASSUME NEW x \in Int, NEW k \in Int, x = k * Cpr, x < Cpr, -Cpr < x
    PROVE  x = 0
<1>1. CASE k >= 1
  <2>1. k * Cpr = (k - 1) * Cpr + Cpr /\ (k - 1) * Cpr >= 0
    BY <1>1, CprFacts
  <2> QED
    BY <2>1, CprFacts
<1>2. CASE k <= -1
  <2>1. k * Cpr = (k + 1) * Cpr - Cpr /\ (k + 1) * Cpr <= 0
    BY <1>2, CprFacts
  <2> QED
    BY <2>1, CprFacts
<1>3. CASE k = 0
  BY <1>3, CprFacts
<1> QED
  BY <1>1, <1>2, <1>3

LEMMA MultipleHasRestZero ==
    ASSUME NEW k \in Int
    PROVE  (k * Cpr) % Cpr = 0
<1>1. k * Cpr \in Int
  BY CprFacts
<1>2. PICK q \in Int : k * Cpr = q * Cpr + ((k * Cpr) % Cpr)
  BY <1>1, DivMod
<1>3. (k * Cpr) % Cpr \in Int /\ 0 <= (k * Cpr) % Cpr /\ (k * Cpr) % Cpr < Cpr
  BY <1>1, DivMod
<1>4. (k * Cpr) % Cpr = (k - q) * Cpr /\ k - q \in Int
  BY <1>2, <1>3, CprFacts
<1> DEFINE r == (k * Cpr) % Cpr
<1>5. r \in Int /\ r = (k - q) * Cpr /\ r < Cpr /\ -Cpr < r
  BY <1>3, <1>4, CprFacts
<1> HIDE DEF r
<1>6. r = 0
  BY <1>4, <1>5, Unique
<1> QED
  BY <1>6 DEF r

\* A count is wrapped into 0..Cpr by whole turns, and is kept if it is there.
LEMMA WrapCountFacts ==
    ASSUME NEW n \in Int
    PROVE  /\ WrapCount(n) \in 0..Cpr
           /\ n \in 0..Cpr => WrapCount(n) = n
<1>1. \A a \in Int : a % Cpr \in Int /\ 0 <= a % Cpr /\ a % Cpr < Cpr
  BY DivMod
<1>2. CASE n > Cpr
  <2>1. WrapCount(n) = ((n - 1) % Cpr) + 1 /\ n - 1 \in Int
    BY <1>2 DEF WrapCount
  <2> QED
    BY <1>1, <1>2, <2>1, CprFacts
<1>3. CASE n < 0
  <2>1. WrapCount(n) = n % Cpr
    BY <1>3, CprFacts DEF WrapCount
  <2> QED
    BY <1>1, <1>3, <2>1, CprFacts
<1>4. CASE 0 <= n /\ n <= Cpr
  <2>1. WrapCount(n) = n
    BY <1>4, CprFacts DEF WrapCount
  <2> QED
    BY <1>4, <2>1, CprFacts
<1> QED
  BY <1>2, <1>3, <1>4, CprFacts

\* A difference of two counts is wrapped into half a turn by a whole turn.
LEMMA WrapDeltaFacts ==
    ASSUME NEW d \in Int, -Cpr <= d, d <= Cpr
    PROVE  /\ WrapDelta(d) \in Int /\ -Half <= WrapDelta(d) /\ WrapDelta(d) <= Half
           /\ \E k \in {-1, 0, 1} : WrapDelta(d) = d + k * Cpr
<1>1. CASE d > Half
  <2>1. WrapDelta(d) = d + (-1) * Cpr
    BY <1>1, CprFacts DEF WrapDelta
  <2> QED
    BY <1>1, <2>1, CprFacts
<1>2. CASE d < -Half
  <2>1. WrapDelta(d) = d + 1 * Cpr
    BY <1>2, CprFacts DEF WrapDelta
  <2> QED
    BY <1>2, <2>1, CprFacts
<1>3. CASE d <= Half /\ d >= -Half
  <2>1. WrapDelta(d) = d + 0 * Cpr
    BY <1>3, CprFacts DEF WrapDelta
  <2> QED
    BY <1>3, <2>1, CprFacts
<1> QED
  BY <1>1, <1>2, <1>3, CprFacts

-----------------------------------------------------------------------------
Numbers == raw \in Int /\ cntInCpr \in 0..Cpr /\ shadow \in Int
           /\ pos \in Int /\ seen \in Int /\ base \in Int
Flags   == runDir \in Dirs /\ initPc \in {"elsewhere", "cntInCpr", "shadow", "runDir"}
           /\ synced \in BOOLEAN /\ torn \in BOOLEAN

LEMMA SignFacts == Sign \in {-1, 1} /\ Sign \in Int
  BY DEF Sign

LEMMA LoopsKeepsType ==
    ASSUME Numbers, NEW newRaw \in Int, Loops(newRaw)
    PROVE  raw' \in Int /\ cntInCpr' \in 0..Cpr /\ shadow' \in Int
<1>1. cntInCpr' \in 0..Cpr /\ raw' \in Int
  BY WrapCountFacts DEF Loops
<1>2. cntInCpr' - cntInCpr \in Int /\ -Cpr <= cntInCpr' - cntInCpr /\ cntInCpr' - cntInCpr <= Cpr
  <2>1. cntInCpr' \in Int /\ 0 <= cntInCpr' /\ cntInCpr' <= Cpr
    BY <1>1, CprFacts
  <2>2. cntInCpr \in Int /\ 0 <= cntInCpr /\ cntInCpr <= Cpr
    BY CprFacts DEF Numbers
  <2> QED
    BY <2>1, <2>2, CprIsInt, Difference
<1>3. WrapDelta(cntInCpr' - cntInCpr) \in Int
  BY <1>2, WrapDeltaFacts
<1> QED
  BY <1>1, <1>3 DEF Loops, Numbers

LEMMA MirroredFacts ==
    ASSUME NEW a \in Int
    PROVE  /\ Mirrored(a) \in Int
           /\ 0 <= a /\ a < Cpr => Mirrored(a) \in 0..Cpr
  BY CprFacts DEF Mirrored

LEMMA RotorAngle ==
    ASSUME pos \in Int
    PROVE  Mirrored(pos % Cpr) \in 0..Cpr /\ Mirrored(pos % Cpr) \in Int
<1>1. pos % Cpr \in Int /\ 0 <= pos % Cpr /\ pos % Cpr < Cpr
  BY DivMod
<1> QED
  BY <1>1, MirroredFacts

LEMMA NumbersStep == Numbers /\ Flags /\ [CountNext]_countVars => Numbers'
<1> SUFFICES ASSUME Numbers, Flags, [CountNext]_countVars PROVE Numbers'
  OBVIOUS
<1>1. CASE Accepts
  <2>1. raw' \in Int /\ cntInCpr' \in 0..Cpr /\ shadow' \in Int
    BY <1>1, RotorAngle, LoopsKeepsType DEF Accepts, Numbers
  <2>2. pos' = pos /\ seen' = pos /\ (base' = base \/ base' = shadow' - Sign * pos)
    BY <1>1 DEF Accepts
  <2>3. Sign * pos \in Int
    BY SignFacts DEF Numbers
  <2> QED
    BY <2>1, <2>2, <2>3 DEF Numbers
<1>2. CASE TimesOut
  <2>1. raw' \in Int /\ cntInCpr' \in 0..Cpr /\ shadow' \in Int
    BY <1>2, LoopsKeepsType DEF TimesOut, Numbers
  <2> QED
    BY <1>2, <2>1 DEF TimesOut, Numbers
<1>3. CASE AcceptsGarbled
  <2>1. PICK angle \in Garbled : Loops(Mirrored(angle))
    BY <1>3 DEF AcceptsGarbled
  <2>2. Mirrored(angle) \in Int
    BY CprFacts, MirroredFacts
  <2>3. raw' \in Int /\ cntInCpr' \in 0..Cpr /\ shadow' \in Int
    BY <2>1, <2>2, LoopsKeepsType
  <2> QED
    BY <1>3, <2>3 DEF AcceptsGarbled, Numbers
<1>4. CASE RotorMoves
  <2>1. pos' \in Int /\ UNCHANGED <<raw, cntInCpr, shadow, seen, base>>
    BY <1>4, BoundAssumption DEF RotorMoves, count, track
  <2> QED
    BY <2>1 DEF Numbers
<1>5. CASE MainInits
  <2>1. /\ raw' \in {raw, 0} /\ cntInCpr' \in {cntInCpr, 0} /\ shadow' \in {shadow, 0}
        /\ UNCHANGED <<pos, seen, base>>
    BY <1>5 DEF MainInits, MainInitRaw, MainInitCnt, MainInitShadow, MainSetsDir, count, track
  <2> QED
    BY <2>1, CprFacts DEF Numbers
<1>6. CASE UNCHANGED countVars
  BY <1>6 DEF countVars, count, track, Numbers
<1> QED
  BY <1>1, <1>2, <1>3, <1>4, <1>5, <1>6 DEF CountNext, Sample

LEMMA FlagsStep == Flags /\ [CountNext]_countVars => Flags'
<1> SUFFICES ASSUME Flags, [CountNext]_countVars PROVE Flags'
  OBVIOUS
<1>1. CASE Sample
  <2>1. UNCHANGED <<runDir, initPc>> /\ Tears /\ synced' \in BOOLEAN
    BY <1>1 DEF Sample, Accepts, TimesOut, AcceptsGarbled, Flags
  <2>2. torn' \in BOOLEAN
    BY <2>1 DEF Tears
  <2> QED
    BY <2>1, <2>2 DEF Flags
<1>2. CASE RotorMoves \/ UNCHANGED countVars
  BY <1>2 DEF RotorMoves, countVars, count, track, Flags
<1>3. CASE MainInits
  BY <1>3 DEF MainInits, MainInitRaw, MainInitCnt, MainInitShadow, MainSetsDir, count, track, Flags
<1> QED
  BY <1>1, <1>2, <1>3 DEF CountNext

LEMMA TypeIsBoth == CountTypeOK <=> Numbers /\ Flags
  BY DEF CountTypeOK, Numbers, Flags

\* The count of the turn stays in 0..Cpr, where Cpr stands for 0, whatever the
\* encoder reports.
THEOREM CountTypeCorrect == CountSpec => []CountTypeOK
<1>1. CountInit => Numbers /\ Flags
  <2> SUFFICES ASSUME CountInit PROVE Numbers /\ Flags
    OBVIOUS
  <2>1. Numbers
    BY CprFacts DEF CountInit, Numbers
  <2>2. Flags
    BY DEF CountInit, Flags, Dirs
  <2> QED
    BY <2>1, <2>2
<1>2. Numbers /\ Flags /\ [CountNext]_countVars => (Numbers /\ Flags)'
  BY NumbersStep, FlagsStep
<1> QED
  BY <1>1, <1>2, TypeIsBoth, PTL DEF CountSpec

-----------------------------------------------------------------------------
(***************************************************************************)
(* The shadow count and the count of the turn                              *)
(***************************************************************************)

Congruent ==
    /\ ~torn /\ initPc # "shadow" => \E k \in Int : shadow - cntInCpr = k * Cpr
    /\ ~torn /\ initPc = "shadow" => cntInCpr = 0

LEMMA LoopsKeepsCongruence ==
    ASSUME Numbers, NEW newRaw \in Int, Loops(newRaw),
           NEW k \in Int, shadow - cntInCpr = k * Cpr
    PROVE  \E m \in Int : shadow' - cntInCpr' = m * Cpr
<1>1. cntInCpr' \in Int /\ 0 <= cntInCpr' /\ cntInCpr' <= Cpr
  BY LoopsKeepsType, CprFacts
<1>2. cntInCpr \in Int /\ 0 <= cntInCpr /\ cntInCpr <= Cpr /\ shadow \in Int
  BY CprFacts DEF Numbers
<1>3. cntInCpr' - cntInCpr \in Int /\ -Cpr <= cntInCpr' - cntInCpr /\ cntInCpr' - cntInCpr <= Cpr
  BY <1>1, <1>2, CprIsInt, Difference
<1>4. PICK j \in {-1, 0, 1} : WrapDelta(cntInCpr' - cntInCpr) = (cntInCpr' - cntInCpr) + j * Cpr
  BY <1>3, WrapDeltaFacts
<1>5. shadow' = shadow + WrapDelta(cntInCpr' - cntInCpr)
  BY DEF Loops
<1>6. shadow' - cntInCpr' = (k + j) * Cpr /\ k + j \in Int
  BY <1>1, <1>2, <1>4, <1>5, CprFacts
<1> QED
  BY <1>6

LEMMA SampleIsLoop ==
    ASSUME Numbers, Sample
    PROVE  /\ \E newRaw \in Int : Loops(newRaw)
           /\ UNCHANGED <<runDir, initPc, pos>> /\ Tears
<1>1. CASE Accepts
  BY <1>1, RotorAngle DEF Accepts, Numbers
<1>2. CASE TimesOut
  BY <1>2 DEF TimesOut, Numbers
<1>3. CASE AcceptsGarbled
  <2>1. PICK angle \in Garbled : Loops(Mirrored(angle))
    BY <1>3 DEF AcceptsGarbled
  <2>2. Mirrored(angle) \in Int
    BY CprFacts, MirroredFacts
  <2> QED
    BY <1>3, <2>1, <2>2 DEF AcceptsGarbled
<1> QED
  BY <1>1, <1>2, <1>3 DEF Sample

LEMMA CongruentStep == Numbers /\ Congruent /\ [CountNext]_countVars => Congruent'
<1> SUFFICES ASSUME Numbers, Congruent, [CountNext]_countVars PROVE Congruent'
  OBVIOUS
<1>1. CASE Sample
  <2>1. CASE torn \/ initPc = "shadow"
    <3>1. torn' = TRUE
      BY <1>1, <2>1, SampleIsLoop DEF Tears
    <3> QED
      BY <3>1 DEF Congruent
  <2>2. CASE ~torn /\ initPc # "shadow"
    <3>1. PICK k \in Int : shadow - cntInCpr = k * Cpr
      BY <2>2 DEF Congruent
    <3>2. \E m \in Int : shadow' - cntInCpr' = m * Cpr
      BY <1>1, <3>1, SampleIsLoop, LoopsKeepsCongruence
    <3>3. initPc' # "shadow"
      BY <1>1, <2>2, SampleIsLoop
    <3> QED
      BY <3>2, <3>3 DEF Congruent
  <2> QED
    BY <2>1, <2>2
<1>2. CASE RotorMoves \/ UNCHANGED countVars
  BY <1>2 DEF RotorMoves, countVars, count, track, Congruent
<1>3. CASE MainInitRaw
  BY <1>3 DEF MainInitRaw, Congruent
<1>4. CASE MainInitCnt
  BY <1>4 DEF MainInitCnt, Congruent
<1>5. CASE MainInitShadow
  <2>1. ~torn' => shadow' - cntInCpr' = 0 * Cpr
    BY <1>5, CprFacts DEF MainInitShadow, Congruent, track
  <2> QED
    BY <1>5, <2>1 DEF MainInitShadow, Congruent
<1>6. CASE MainSetsDir
  BY <1>6 DEF MainSetsDir, Congruent, count, track
<1> QED
  BY <1>1, <1>2, <1>3, <1>4, <1>5, <1>6 DEF CountNext, MainInits

\* After any readings, time-outs and changes of direction, the shadow count and
\* the count of the turn differ by whole turns, unless a sample has torn
\* Encoder_Init.
THEOREM CountsAgree == CountSpec => []ShadowIsCountModTurn
<1>1. CountInit => Congruent
  <2> SUFFICES ASSUME CountInit PROVE Congruent
    OBVIOUS
  <2>1. shadow - cntInCpr = 0 * Cpr /\ initPc = "elsewhere"
    BY CprFacts DEF CountInit
  <2> QED
    BY <2>1 DEF Congruent
<1>2. Congruent => ShadowIsCountModTurn
  BY MultipleHasRestZero DEF Congruent, ShadowIsCountModTurn
<1>3. CountTypeOK => Numbers
  BY TypeIsBoth
<1> QED
  BY <1>1, <1>2, <1>3, CongruentStep, CountTypeCorrect, PTL DEF CountSpec

-----------------------------------------------------------------------------
(***************************************************************************)
(* The shadow count and the rotor                                          *)
(***************************************************************************)

Near == -Half < pos - seen /\ pos - seen < Half

\* While synced, raw and cntInCpr are the angle last read, in the direction of the run.
Tracked ==
    synced => /\ initPc = "elsewhere" /\ raw = cntInCpr
              /\ shadow = base + Sign * seen
              /\ \E k \in Int : cntInCpr = Sign * seen + k * Cpr

\* The angle of the rotor is its position, in the direction of the run, up to
\* whole turns.
LEMMA MirroredIsCongruent ==
    ASSUME pos \in Int
    PROVE  \E k \in Int : Mirrored(pos % Cpr) = Sign * pos + k * Cpr
<1>1. PICK q \in Int : pos = q * Cpr + (pos % Cpr)
  BY DivMod
<1>2. pos % Cpr \in Int
  BY DivMod
<1>3. CASE runDir = "CCW"
  <2>1. Mirrored(pos % Cpr) = pos % Cpr /\ Sign = 1
    BY <1>3 DEF Mirrored, Sign
  <2>2. pos % Cpr = 1 * pos + (-q) * Cpr /\ -q \in Int
    BY <1>1, <1>2, CprFacts
  <2> QED
    BY <2>1, <2>2
<1>4. CASE runDir # "CCW"
  <2>1. Mirrored(pos % Cpr) = Cpr - (pos % Cpr) /\ Sign = -1
    BY <1>4 DEF Mirrored, Sign
  <2>2. Cpr - (pos % Cpr) = (-1) * pos + (q + 1) * Cpr /\ q + 1 \in Int
    BY <1>1, <1>2, CprFacts
  <2> QED
    BY <2>1, <2>2
<1> QED
  BY <1>3, <1>4

LEMMA AcceptsReadsRotor ==
    ASSUME Numbers, Accepts
    PROVE  raw' = cntInCpr' /\ \E k \in Int : cntInCpr' = Sign * pos + k * Cpr
<1>1. Mirrored(pos % Cpr) \in 0..Cpr /\ Mirrored(pos % Cpr) \in Int
  BY RotorAngle DEF Numbers
<1>2. cntInCpr' = Mirrored(pos % Cpr) /\ raw' = Mirrored(pos % Cpr)
  BY <1>1, WrapCountFacts DEF Accepts, Loops
<1> QED
  BY <1>2, MirroredIsCongruent DEF Numbers

\* The core of the argument: the wrapped difference of two readings is the turn
\* of the rotor between them.
LEMMA AcceptsMovesWithRotor ==
    ASSUME Numbers, Near, Tracked, synced, Accepts
    PROVE  shadow' = base + Sign * pos
<1>1. PICK k \in Int : cntInCpr = Sign * seen + k * Cpr
  BY DEF Tracked
<1>2. PICK m \in Int : cntInCpr' = Sign * pos + m * Cpr
  BY AcceptsReadsRotor
<1>3. cntInCpr' \in Int /\ 0 <= cntInCpr' /\ cntInCpr' <= Cpr
  BY RotorAngle, LoopsKeepsType, CprFacts DEF Accepts, Numbers
<1>4. cntInCpr \in Int /\ 0 <= cntInCpr /\ cntInCpr <= Cpr /\ pos \in Int /\ seen \in Int /\ base \in Int
  BY CprFacts DEF Numbers
<1>5. cntInCpr' - cntInCpr \in Int /\ -Cpr <= cntInCpr' - cntInCpr /\ cntInCpr' - cntInCpr <= Cpr
  BY <1>3, <1>4, CprIsInt, Difference
<1> DEFINE w == WrapDelta(cntInCpr' - cntInCpr)
<1>6. w \in Int /\ -Half <= w /\ w <= Half
  BY <1>5, WrapDeltaFacts
<1>7. PICK j \in {-1, 0, 1} : w = (cntInCpr' - cntInCpr) + j * Cpr
  BY <1>5, WrapDeltaFacts
<1>8. shadow' = shadow + w /\ shadow = base + Sign * seen
  BY DEF Accepts, Loops, Tracked
<1> HIDE DEF w
<1> DEFINE turn == Sign * pos - Sign * seen
<1>9. turn \in Int /\ -Half < turn /\ turn < Half
  <2>1. CASE Sign = 1
    BY <1>4, <2>1, CprFacts DEF Near
  <2>2. CASE Sign = -1
    BY <1>4, <2>2, CprFacts DEF Near
  <2> QED
    BY <2>1, <2>2, SignFacts
<1>10. w - turn = (m - k + j) * Cpr /\ m - k + j \in Int
  <2>1. Sign * pos \in Int /\ Sign * seen \in Int
    BY <1>4, SignFacts
  <2>2. (m - k + j) * Cpr = m * Cpr - k * Cpr + j * Cpr
        /\ m * Cpr \in Int /\ k * Cpr \in Int /\ j * Cpr \in Int
    BY CprFacts
  <2> QED
    BY <1>1, <1>2, <1>7, <2>1, <2>2
<1> HIDE DEF turn
<1>11. w - turn \in Int /\ w - turn < Cpr /\ -Cpr < w - turn
  BY <1>6, <1>9, CprFacts
<1>12. w - turn = 0
  BY <1>10, <1>11, Unique
<1>13. w = Sign * pos - Sign * seen
  BY <1>6, <1>9, <1>12 DEF turn
<1>14. Sign * pos \in Int /\ Sign * seen \in Int
  BY <1>4, SignFacts
<1> QED
  BY <1>4, <1>8, <1>13, <1>14

LEMMA NearStep == Numbers /\ Near /\ [CountNext]_countVars => Near'
<1> SUFFICES ASSUME Numbers, Near, [CountNext]_countVars PROVE Near'
  OBVIOUS
<1>1. CASE Accepts
  <2>1. pos' = pos /\ seen' = pos
    BY <1>1 DEF Accepts
  <2>2. pos' - seen' = 0
    BY <2>1 DEF Numbers
  <2> QED
    BY <2>2, CprFacts DEF Near
<1>2. CASE RotorMoves
  BY <1>2 DEF RotorMoves, track, Near
<1>3. CASE TimesOut \/ AcceptsGarbled \/ MainInits \/ UNCHANGED countVars
  <2>1. pos' = pos /\ seen' = seen
    BY <1>3 DEF TimesOut, AcceptsGarbled, MainInits, MainInitRaw, MainInitCnt, MainInitShadow,
       MainSetsDir, track, countVars
  <2> QED
    BY <2>1 DEF Near
<1> QED
  BY <1>1, <1>2, <1>3 DEF CountNext, Sample

LEMMA TrackedAccepts ==
    ASSUME Numbers, Flags, Near, Tracked, Accepts, synced'
    PROVE  Tracked'
<1>1. initPc' = "elsewhere" /\ seen' = pos /\ Sign' = Sign
  BY DEF Accepts, Sign
<1>2. raw' = cntInCpr' /\ \E k \in Int : cntInCpr' = Sign' * seen' + k * Cpr
  BY <1>1, AcceptsReadsRotor
<1>3. shadow' = base' + Sign' * seen'
  <2>1. CASE synced
    <3>1. base' = base
      BY <2>1 DEF Accepts
    <3> QED
      BY <1>1, <2>1, <3>1, AcceptsMovesWithRotor
  <2>2. CASE ~synced
    <3>1. base' = shadow' - Sign * pos
      BY <2>2 DEF Accepts
    <3>2. shadow' \in Int /\ Sign * pos \in Int
      BY RotorAngle, LoopsKeepsType, SignFacts DEF Accepts, Numbers
    <3> QED
      BY <1>1, <3>1, <3>2
  <2> QED
    BY <2>1, <2>2
<1> QED
  BY <1>1, <1>2, <1>3 DEF Tracked

LEMMA TrackedTimesOut ==
    ASSUME Numbers, Tracked, TimesOut, synced
    PROVE  Tracked'
<1>1. raw = cntInCpr /\ cntInCpr \in 0..Cpr /\ cntInCpr \in Int /\ shadow \in Int
  BY CprFacts DEF Tracked, Numbers
<1>2. cntInCpr' = cntInCpr /\ raw' = raw
  BY <1>1, WrapCountFacts DEF TimesOut, Loops
<1>3. shadow' = shadow
  <2>1. cntInCpr' - cntInCpr = 0
    BY <1>1, <1>2
  <2>2. WrapDelta(0) = 0
    BY CprFacts DEF WrapDelta
  <2>3. shadow' = shadow + WrapDelta(cntInCpr' - cntInCpr)
    BY DEF TimesOut, Loops
  <2> QED
    BY <1>1, <2>1, <2>2, <2>3
<1>4. UNCHANGED <<runDir, initPc, seen, base, synced>> /\ Sign' = Sign
  BY DEF TimesOut, Sign
<1> QED
  BY <1>2, <1>3, <1>4 DEF Tracked

LEMMA TrackedStep == Numbers /\ Flags /\ Near /\ Tracked /\ [CountNext]_countVars => Tracked'
<1> SUFFICES ASSUME Numbers, Flags, Near, Tracked, [CountNext]_countVars, synced' PROVE Tracked'
  BY DEF Tracked
<1>1. CASE Accepts
  BY <1>1, TrackedAccepts
<1>2. CASE TimesOut
  <2>1. synced
    BY <1>2 DEF TimesOut
  <2> QED
    BY <1>2, <2>1, TrackedTimesOut
<1>3. CASE RotorMoves \/ UNCHANGED countVars
  <2>1. UNCHANGED <<raw, cntInCpr, shadow, runDir, initPc, seen, base, synced>>
    BY <1>3 DEF RotorMoves, countVars, count, track
  <2> QED
    BY <2>1 DEF Tracked, Sign
<1>4. CASE MainInits
  <2>1. synced => initPc = "elsewhere"
    BY DEF Tracked
  <2>2. synced' = FALSE
    BY <1>4, <2>1 DEF MainInits, MainInitRaw, MainInitCnt, MainInitShadow, MainSetsDir, track, Flags
  <2> QED
    BY <2>2
<1>5. CASE AcceptsGarbled
  BY <1>5 DEF AcceptsGarbled
<1> QED
  BY <1>1, <1>2, <1>3, <1>4, <1>5 DEF CountNext, Sample

\* From the first reading after a start on, the shadow count moves with the
\* rotor, over any number of turns and time-outs.
THEOREM ShadowFollows == CountSpec => []ShadowTracksRotor
<1>1. CountInit => Near /\ Tracked
  <2> SUFFICES ASSUME CountInit PROVE Near /\ Tracked
    OBVIOUS
  <2>1. pos - seen = 0 /\ ~synced
    BY DEF CountInit
  <2>2. Near
    BY <2>1, CprFacts DEF Near
  <2> QED
    BY <2>1, <2>2 DEF Tracked
<1>2. Tracked => ShadowTracksRotor
  BY DEF Tracked, ShadowTracksRotor
<1>3. CountTypeOK => Numbers /\ Flags
  BY TypeIsBoth
<1> QED
  BY <1>1, <1>2, <1>3, NearStep, TrackedStep, CountTypeCorrect, PTL DEF CountSpec

-----------------------------------------------------------------------------
(***************************************************************************)
(* EncoderSample                                                           *)
(***************************************************************************)

\* The answer of this sample to its k-th command.
Answer(k) == [cmd |-> Command(k), own |-> TRUE, clean |-> TRUE]

\* While no wait has given up, the SPI holds nothing but the command of the
\* transfer in which its answer is waited for.
Holds(inTx, inShift, inDt) == spiTx = inTx /\ shift = inShift /\ dt = inDt

InStep ==
    /\ transfer # 0 => ~ncs
    /\ transfer = 0 \/ wait = "TDBE" => Holds(None, None, None)
    /\ transfer # 0 /\ wait = "RDBF" =>
         \/ Holds(Answer(transfer), None, None)
         \/ Holds(None, Answer(transfer), None)
         \/ Holds(None, None, Answer(transfer))
    /\ transfer # 0 => \A j \in 1..3 : j < transfer => data[j] = Answer(j)

\* Afterwards one frame too many is on its way, and what the first transfer
\* reads is not of this sample.
OneTooMany ==
    /\ spiTx # None \/ shift # None \/ dt # None
    /\ transfer # 0 /\ wait = "RDBF" =>
         \/ spiTx # None /\ shift # None
         \/ spiTx # None /\ dt # None
         \/ shift # None /\ dt # None
    /\ transfer = 1 => dt # None /\ dt.own = FALSE
    /\ transfer \in {2, 3} => data[1].own = FALSE

SampleInv == SampleTypeOK /\ (gaveUp \/ InStep) /\ (gaveUp => OneTooMany)

\* A record field set to what it is.
LEMMA SameField ==
  ASSUME NEW a, NEW b, NEW c
  PROVE  LET r == [cmd |-> a, own |-> b, clean |-> c]
         IN  [r EXCEPT !.clean = c] = r /\ [r EXCEPT !.own = b] = r
  BY SMT

\* Frames, and what the chip select and a new sample do to them.
LEMMA FrameFacts ==
  /\ None \notin Frames
  /\ \A k \in 1..3 : Answer(k) \in Frames /\ Answer(k) # None /\ Answer(k).own = TRUE
  /\ Spoiled(None) = None /\ Foreign(None) = None
  /\ \A f \in Frames : /\ Spoiled(f) \in Frames /\ Foreign(f) \in Frames
                       /\ Foreign(f).own = FALSE
                       /\ \A c \in BOOLEAN : [f EXCEPT !.clean = c] \in Frames
  /\ \A k \in 1..3 : [Answer(k) EXCEPT !.clean = TRUE] = Answer(k)
  <1>1. \A k \in 1..3 : Command(k) \in Commands
    <2>1. Command(1) = "0x83" /\ Command(2) = "0x84" /\ Command(3) = "0x85"
      <3>1. 1 # 2 /\ 1 # 3 /\ 2 # 3
        OBVIOUS
      <3>2. QED
        BY <3>1, Zenon DEF Command
    <2>2. 1..3 = {1, 2, 3}
      OBVIOUS
    <2>3. QED
      BY <2>1, <2>2, Zenon DEF Commands
  <1>2. "none" \notin Commands
    BY DEF Commands
  <1>3. None \notin Frames
    BY <1>2 DEF None, Frames
  <1>4. ASSUME NEW k \in 1..3 PROVE Answer(k) \in Frames /\ Answer(k).own = TRUE
    <2>1. Command(k) \in Commands
      BY <1>1
    <2>2. QED
      BY <2>1, Zenon DEF Answer, Frames
  <1>5. Spoiled(None) = None /\ Foreign(None) = None
    BY SameField, Zenon DEF Spoiled, Foreign, None
  <1>6. ASSUME NEW f \in Frames
        PROVE  /\ Spoiled(f) \in Frames /\ Foreign(f) \in Frames /\ Foreign(f).own = FALSE
               /\ \A c \in BOOLEAN : [f EXCEPT !.clean = c] \in Frames
    BY Zenon DEF Spoiled, Foreign, Frames
  <1>7. \A k \in 1..3 : [Answer(k) EXCEPT !.clean = TRUE] = Answer(k)
    BY SameField, Zenon DEF Answer
  <1>8. QED
    BY <1>3, <1>4, <1>5, <1>6, <1>7

LEMMA SampleInitially == SampleInit => SampleInv
  <1> SUFFICES ASSUME SampleInit PROVE SampleInv
    OBVIOUS
  <1>1. ncs \in BOOLEAN /\ gaveUp \in BOOLEAN /\ ~gaveUp
    BY Zenon DEF SampleInit
  <1>2. SampleTypeOK
    BY <1>1, SampleParameters DEF SampleInit, SampleTypeOK
  <1>3. InStep
    BY DEF SampleInit, InStep, Holds
  <1>4. QED
    BY <1>1, <1>2, <1>3, Zenon DEF SampleInv


\* The type, by the parts of the step.
LEMMA SampleTypeStep == SampleTypeOK /\ [SampleNext]_sampleVars => SampleTypeOK'
  <1> SUFFICES ASSUME SampleTypeOK, [SampleNext]_sampleVars PROVE SampleTypeOK'
    OBVIOUS
  <1> DEFINE F == Frames \cup {None}
  <1>1. /\ None \in F /\ Foreign(dt) \in F /\ Spoiled(shift) \in F /\ spiTx \in F
        /\ shift \in F /\ dt \in F
        /\ \A k \in 1..3 : Answer(k) \in F
    BY FrameFacts DEF SampleTypeOK
  <1>2. /\ transfer \in 0..3 /\ polls \in 0 .. PollMax + 1 /\ PollMax \in Nat
        /\ rxErr \in 0..RxErrMax /\ data \in [1..3 -> F]
    BY SampleParameters DEF SampleTypeOK
  <1>3. ncs' \in BOOLEAN /\ gaveUp' \in BOOLEAN
    BY Zenon DEF SampleTypeOK, SampleNext, EncoderSample, SpiGoes, FrameBegins, FrameEnds,
       SampleBegins, Polls, GivesUp, SendsCommand, ReadsAnswer, sampleVars, codeVars
  <1>4. CASE FrameBegins
    <2>1. spiTx \in Frames /\ (~ncs) \in BOOLEAN
      BY <1>1, <1>4, Zenon DEF FrameBegins, SampleTypeOK
    <2>2. shift' \in F
      BY <1>4, <2>1, FrameFacts, Zenon DEF FrameBegins
    <2>3. QED
      BY <1>1, <1>3, <1>4, <2>2 DEF FrameBegins, SampleTypeOK, codeVars
  <1>5. CASE FrameEnds
    <2>1. dt' \in F /\ shift' \in F
      BY <1>1, <1>5, Zenon DEF FrameEnds
    <2>2. QED
      BY <1>3, <1>5, <2>1 DEF FrameEnds, SampleTypeOK, codeVars
  <1>6. CASE SampleBegins
    <2>1. data' \in [1..3 -> F] /\ dt' \in F
      BY <1>1, <1>6 DEF SampleBegins
    <2>2. QED
      BY <1>2, <1>3, <1>6, <2>1 DEF SampleBegins, SampleTypeOK
  <1>7. CASE Polls
    BY <1>2, <1>3, <1>7 DEF Polls, SampleTypeOK
  <1>8. CASE GivesUp
    <2>1. shift' \in F
      BY <1>1, <1>8 DEF GivesUp
    <2>2. rxErr' \in 0..RxErrMax
      BY <1>2, <1>8, SampleParameters DEF GivesUp
    <2>3. transfer' \in 0..3 /\ UNCHANGED <<wait, polls, spiTx, dt, data>>
      BY <1>8 DEF GivesUp
    <2>4. QED
      BY <1>3, <2>1, <2>2, <2>3 DEF SampleTypeOK
  <1>9. CASE SendsCommand
    <2>1. spiTx' = Answer(transfer) /\ transfer \in 1..3
      BY <1>2, <1>9 DEF SendsCommand, Answer
    <2>2. spiTx' \in F
      BY <1>1, <2>1
    <2>3. QED
      BY <1>3, <1>9, <2>2 DEF SendsCommand, SampleTypeOK
  <1>10. CASE ReadsAnswer
    <2>1. /\ data' = [data EXCEPT ![transfer] = dt] /\ dt' = None /\ shift' = Spoiled(shift)
          /\ transfer' \in {0, transfer + 1} /\ (transfer = 3 => transfer' = 0)
          /\ wait' = "TDBE" /\ polls' = 0 /\ UNCHANGED <<spiTx, rxErr, gaveUp>>
      BY <1>10 DEF ReadsAnswer
    <2>2. data' \in [1..3 -> F] /\ dt' \in F /\ shift' \in F
      BY <1>1, <1>2, <2>1
    <2>3. QED
      BY <1>2, <1>3, <2>1, <2>2 DEF SampleTypeOK
  <1>11. CASE UNCHANGED sampleVars
    BY <1>11 DEF SampleTypeOK, sampleVars, codeVars
  <1>12. QED
    BY <1>4, <1>5, <1>6, <1>7, <1>8, <1>9, <1>10, <1>11 DEF SampleNext, EncoderSample, SpiGoes

\* Every variable of the transfers keeps its type: among them the counts that
\* the waits compare.
THEOREM SampleTypeCorrect == SampleSpec => []SampleTypeOK
  BY SampleInitially, SampleTypeStep, PTL DEF SampleSpec, SampleInv


\* In step a transfer stays until its wait gives up, and then one frame is left.
LEMMA InStepStep ==
  ASSUME SampleTypeOK, InStep, ~gaveUp, SampleNext
  PROVE  (gaveUp' => OneTooMany') /\ (gaveUp' \/ InStep')
  <1>1. /\ transfer \in 0..3 /\ wait \in {"TDBE", "RDBF"} /\ data \in [1..3 -> Frames \cup {None}]
        /\ shift \in Frames \cup {None}
    BY DEF SampleTypeOK
  <1>2. /\ Spoiled(None) = None /\ Foreign(None) = None
        /\ \A k \in 1..3 : Answer(k) # None /\ Spoiled(Answer(k)) # None
        /\ \A k \in 1..3 : [Answer(k) EXCEPT !.clean = TRUE] = Answer(k)
    BY FrameFacts
  <1>3. CASE FrameBegins
    <2>1. spiTx # None /\ UNCHANGED <<transfer, wait, ncs, data, gaveUp, dt>> /\ spiTx' = None
          /\ shift' = [spiTx EXCEPT !.clean = ~ncs]
      BY <1>3 DEF FrameBegins, codeVars
    <2>2. transfer # 0 /\ wait = "RDBF" /\ Holds(Answer(transfer), None, None) /\ (~ncs) = TRUE
      BY <1>1, <2>1, Zenon DEF InStep, Holds
    <2>3. shift' = Answer(transfer)
      <3>1. transfer \in 1..3
        BY <1>1, <2>2
      <3>2. shift' = [Answer(transfer) EXCEPT !.clean = TRUE]
        BY <2>1, <2>2, Zenon DEF Holds
      <3>3. QED
        BY <1>2, <3>1, <3>2, Zenon
    <2>4. InStep'
      BY <2>1, <2>2, <2>3, Zenon DEF InStep, Holds, Answer
    <2>5. QED
      BY <2>1, <2>4, Zenon
  <1>4. CASE FrameEnds
    <2>1. shift # None /\ UNCHANGED <<transfer, wait, ncs, data, gaveUp, spiTx>> /\ shift' = None
          /\ dt' = IF dt = None THEN shift ELSE dt
      BY <1>4 DEF FrameEnds, codeVars
    <2>2. transfer # 0 /\ wait = "RDBF" /\ Holds(None, Answer(transfer), None)
      BY <1>1, <2>1, Zenon DEF InStep, Holds
    <2>3. InStep'
      BY <2>1, <2>2, Zenon DEF InStep, Holds, Answer
    <2>4. QED
      BY <2>1, <2>3, Zenon
  <1>5. CASE SampleBegins
    <2>1. transfer = 0 /\ transfer' = 1 /\ wait' = "TDBE" /\ ncs' = FALSE /\ dt' = Foreign(dt)
          /\ UNCHANGED <<spiTx, shift, gaveUp>>
      BY <1>5 DEF SampleBegins
    <2>2. Holds(None, None, None)'
      BY <1>2, <2>1, Zenon DEF InStep, Holds
    <2>3. \A j \in 1..3 : ~(j < transfer')
      BY <2>1
    <2>4. InStep'
      BY <2>1, <2>2, <2>3 DEF InStep
    <2>5. QED
      BY <2>1, <2>4, Zenon
  <1>6. CASE Polls
    <2>1. UNCHANGED <<transfer, wait, ncs, data, gaveUp, spiTx, shift, dt>>
      BY <1>6 DEF Polls
    <2>2. QED
      BY <2>1, Zenon DEF InStep, Holds, Answer
  <1>7. CASE GivesUp
    <2>1. transfer # 0 /\ ~FlagSet /\ transfer' = 0 /\ shift' = Spoiled(shift)
          /\ UNCHANGED <<wait, spiTx, dt, data>> /\ gaveUp' = (gaveUp \/ wait = "RDBF")
      BY <1>7 DEF GivesUp
    <2>2. wait = "RDBF" /\ dt = None
      BY <1>1, <2>1, Zenon DEF FlagSet, InStep, Holds
    <2>3. transfer \in 1..3
      BY <1>1, <2>1
    <2>4. spiTx' # None \/ shift' # None
      BY <1>2, <2>1, <2>2, <2>3, Zenon DEF InStep, Holds
    <2>5. gaveUp'
      BY <2>1, <2>2, Zenon
    <2>6. OneTooMany'
      BY <2>1, <2>4 DEF OneTooMany
    <2>7. QED
      BY <2>5, <2>6
  <1>8. CASE SendsCommand
    <2>1. transfer # 0 /\ wait = "TDBE" /\ spiTx' = Answer(transfer) /\ wait' = "RDBF"
          /\ UNCHANGED <<transfer, ncs, shift, dt, data, gaveUp>>
      BY <1>8 DEF SendsCommand, Answer
    <2>2. QED
      BY <2>1, Zenon DEF InStep, Holds, Answer
  <1>9. CASE ReadsAnswer
    <2>1. /\ transfer # 0 /\ wait = "RDBF" /\ dt # None /\ wait' = "TDBE"
          /\ data' = [data EXCEPT ![transfer] = dt] /\ dt' = None /\ shift' = Spoiled(shift)
          /\ IF transfer = 3 THEN transfer' = 0 /\ ncs' = TRUE
             ELSE transfer' = transfer + 1 /\ ncs' = FALSE
          /\ UNCHANGED <<spiTx, gaveUp>>
      BY <1>9 DEF ReadsAnswer, FlagSet
    <2>2. Holds(None, None, Answer(transfer)) /\ transfer \in 1..3
      BY <1>1, <2>1 DEF InStep, Holds
    <2>3. Holds(None, None, None)'
      BY <1>2, <2>1, <2>2, Zenon DEF Holds
    <2>4. transfer' # 0 => ~ncs'
      BY <2>1, Zenon
    <2>5. ASSUME transfer' # 0, NEW j \in 1..3, j < transfer' PROVE data'[j] = Answer(j)
      <3>1. j <= transfer /\ \A i \in 1..3 : data'[i] = IF i = transfer THEN dt ELSE data[i]
        BY <1>1, <2>1, <2>2, <2>5
      <3>2. j < transfer => data[j] = Answer(j)
        BY <2>1, <2>5 DEF InStep
      <3>3. QED
        BY <2>2, <3>1, <3>2 DEF Holds
    <2>6. InStep'
      BY <2>1, <2>3, <2>4, <2>5, Zenon DEF InStep, Answer
    <2>7. QED
      BY <2>1, <2>6, Zenon
  <1>10. QED
    BY <1>3, <1>4, <1>5, <1>6, <1>7, <1>8, <1>9 DEF SampleNext, EncoderSample, SpiGoes

\* The frame too many never leaves the SPI: it moves on, or another is lost.
LEMMA OneTooManyStep ==
  ASSUME SampleTypeOK, OneTooMany, gaveUp, SampleNext
  PROVE  gaveUp' /\ OneTooMany'
  <1>1. /\ transfer \in 0..3 /\ wait \in {"TDBE", "RDBF"} /\ data \in [1..3 -> Frames \cup {None}]
        /\ spiTx \in Frames \cup {None} /\ shift \in Frames \cup {None}
        /\ dt \in Frames \cup {None}
    BY DEF SampleTypeOK
  <1>2. \A f \in Frames : /\ Spoiled(f) # None /\ Foreign(f) # None /\ Foreign(f).own = FALSE
                         /\ \A c \in BOOLEAN : [f EXCEPT !.clean = c] # None
    BY FrameFacts
  <1>3. gaveUp'
    BY Zenon DEF SampleNext, EncoderSample, SpiGoes, FrameBegins, FrameEnds,
       SampleBegins, Polls, GivesUp, SendsCommand, ReadsAnswer, codeVars
  <1>4. CASE FrameBegins
    <2>1. shift = None /\ spiTx # None /\ UNCHANGED <<transfer, wait, data, dt>> /\ spiTx' = None
          /\ shift' = [spiTx EXCEPT !.clean = ~ncs]
      BY <1>4 DEF FrameBegins, codeVars
    <2>2. shift' # None
      <3>1. (~ncs) \in BOOLEAN /\ spiTx \in Frames
        BY <1>1, <2>1, Zenon
      <3>2. QED
        BY <1>2, <2>1, <3>1, Zenon
    <2>3. QED
      BY <1>3, <2>1, <2>2, Zenon DEF OneTooMany
  <1>5. CASE FrameEnds
    <2>1. shift # None /\ ~(transfer # 0 /\ wait = "RDBF" /\ dt # None)
          /\ UNCHANGED <<transfer, wait, data, spiTx>>
          /\ dt' = (IF dt = None THEN shift ELSE dt)
      BY <1>5 DEF FrameEnds, codeVars
    <2>2. dt' # None /\ (dt # None => dt' = dt)
      BY <2>1, Zenon
    <2>3. transfer # 0 /\ wait = "RDBF" => spiTx # None
      BY <2>1, Zenon DEF OneTooMany
    <2>4. QED
      BY <1>3, <2>1, <2>2, <2>3, Zenon DEF OneTooMany
  <1>6. CASE SampleBegins
    <2>1. transfer' = 1 /\ wait' = "TDBE" /\ dt' = Foreign(dt) /\ spiTx = None /\ shift = None
      BY <1>6 DEF SampleBegins
    <2>2. dt \in Frames
      BY <1>1, <2>1, Zenon DEF OneTooMany
    <2>3. dt' # None /\ dt'.own = FALSE
      BY <1>2, <2>1, <2>2, Zenon
    <2>4. QED
      BY <1>3, <2>1, <2>3 DEF OneTooMany
  <1>7. CASE Polls
    <2>1. UNCHANGED <<transfer, wait, data, spiTx, shift, dt>>
      BY <1>7 DEF Polls
    <2>2. QED
      BY <1>3, <2>1, Zenon DEF OneTooMany
  <1>8. CASE GivesUp
    <2>1. transfer' = 0 /\ shift' = Spoiled(shift) /\ UNCHANGED <<wait, spiTx, dt, data>>
      BY <1>8 DEF GivesUp
    <2>2. shift # None => shift' # None
      BY <1>1, <1>2, <2>1, Zenon
    <2>3. QED
      BY <1>3, <2>1, <2>2 DEF OneTooMany
  <1>9. CASE SendsCommand
    <2>1. transfer \in 1..3 /\ wait = "TDBE" /\ spiTx = None /\ spiTx' = Answer(transfer)
          /\ UNCHANGED <<transfer, shift, dt, data>>
      BY <1>1, <1>9 DEF SendsCommand, FlagSet, Answer
    <2>2. spiTx' # None
      BY <2>1, FrameFacts
    <2>3. QED
      BY <1>3, <2>1, <2>2, Zenon DEF OneTooMany
  <1>10. CASE ReadsAnswer
    <2>1. /\ transfer # 0 /\ wait = "RDBF" /\ dt # None /\ wait' = "TDBE"
          /\ data' = [data EXCEPT ![transfer] = dt] /\ shift' = Spoiled(shift)
          /\ transfer' = IF transfer = 3 THEN 0 ELSE transfer + 1
          /\ spiTx' = spiTx
      BY <1>10 DEF ReadsAnswer, FlagSet
    <2>2. spiTx' # None \/ shift' # None
      BY <1>1, <1>2, <2>1, Zenon DEF OneTooMany
    <2>3. transfer' # 1
      BY <1>1, <2>1
    <2>4. data'[1] = IF transfer = 1 THEN dt ELSE data[1]
      BY <1>1, <2>1
    <2>5. transfer' \in {2, 3} => data'[1].own = FALSE
      BY <1>1, <2>1, <2>4 DEF OneTooMany
    <2>6. QED
      BY <1>3, <2>1, <2>2, <2>3, <2>5 DEF OneTooMany
  <1>11. QED
    BY <1>4, <1>5, <1>6, <1>7, <1>8, <1>9, <1>10 DEF SampleNext, EncoderSample, SpiGoes

LEMMA SampleStep == SampleInv /\ [SampleNext]_sampleVars => SampleInv'
  <1> SUFFICES ASSUME SampleInv, [SampleNext]_sampleVars PROVE SampleInv'
    OBVIOUS
  <1>1. SampleTypeOK'
    BY SampleTypeStep DEF SampleInv
  <1>2. CASE SampleNext
    <2>1. CASE gaveUp
      BY <1>1, <1>2, <2>1, OneTooManyStep, Zenon DEF SampleInv
    <2>2. CASE ~gaveUp
      BY <1>1, <1>2, <2>2, InStepStep, Zenon DEF SampleInv
    <2>3. QED
      BY <2>1, <2>2
  <1>3. CASE UNCHANGED sampleVars
    <2>1. UNCHANGED <<transfer, wait, ncs, data, gaveUp, spiTx, shift, dt>>
      BY <1>3 DEF sampleVars, codeVars
    <2>2. QED
      BY <1>1, <2>1, Zenon DEF SampleInv, InStep, Holds, Answer, OneTooMany
  <1>4. QED
    BY <1>2, <1>3

\* Encoder_Sample returns TRUE with its own three answers exactly as long as no
\* wait for an answer has given up, for every number of polls.
THEOREM OwnAnswers == SampleSpec => WholeUntilGivenUp
  <1>1. ASSUME SampleInv, transfer = 3, ReadsAnswer PROVE Whole(data') <=> ~gaveUp
    <2>1. /\ wait = "RDBF" /\ data' = [data EXCEPT ![3] = dt] /\ dt # None
          /\ data \in [1..3 -> Frames \cup {None}]
      BY <1>1 DEF ReadsAnswer, FlagSet, SampleInv, SampleTypeOK
    <2>2. data'[1] = data[1] /\ data'[2] = data[2] /\ data'[3] = dt
      BY <2>1
    <2>3. ASSUME gaveUp PROVE ~Whole(data')
      <3>1. data'[1].own = FALSE
        BY <1>1, <2>2, <2>3 DEF SampleInv, OneTooMany
      <3>2. Answer(1).own = TRUE /\ 1 \in 1..3
        BY FrameFacts
      <3>3. QED
        BY <3>1, <3>2, Zenon DEF Whole, Answer
    <2>4. ASSUME ~gaveUp PROVE Whole(data')
      <3>1. InStep
        BY <1>1, <2>4, Zenon DEF SampleInv
      <3>2. data[1] = Answer(1) /\ data[2] = Answer(2) /\ dt = Answer(3)
        BY <1>1, <2>1, <3>1 DEF InStep, Holds
      <3>3. \A k \in 1..3 : data'[k] = Answer(k)
        BY <2>2, <3>2
      <3>4. QED
        BY <3>3, Zenon DEF Whole, Answer
    <2>5. QED
      BY <2>3, <2>4, Zenon
  <1>2. SampleInv /\ [SampleNext]_sampleVars =>
          [transfer = 3 /\ ReadsAnswer => (Whole(data') <=> ~gaveUp)]_sampleVars
    BY <1>1, Zenon
  <1>3. QED
    BY <1>2, SampleInitially, SampleStep, PTL DEF SampleSpec, WholeUntilGivenUp

-----------------------------------------------------------------------------
\* The steps Encoder_Sample still takes at most: the polls its transfer has left,
\* which its two waits share, and those of the transfers to come.
PerTransfer == PollMax + 3
InTransfer(waitFor, n) == PollMax + 1 - n + (IF waitFor = "TDBE" THEN 2 ELSE 1)
StepsLeft ==
    IF transfer = 0 THEN 0
    ELSE IF transfer = 3 THEN InTransfer(wait, polls)
    ELSE IF transfer = 2 THEN PerTransfer + InTransfer(wait, polls)
    ELSE 2 * PerTransfer + InTransfer(wait, polls)

HandlerSteps == Polls \/ GivesUp \/ SendsCommand \/ ReadsAnswer

LEMMA InTransferRange ==
  ASSUME NEW n \in 0 .. PollMax + 1, NEW waitFor
  PROVE  InTransfer(waitFor, n) \in 1..PerTransfer
  BY SampleParameters DEF InTransfer, PerTransfer

\* A poll takes one of those left; what is left for an answer read is less than
\* what begins with the next transfer.
LEMMA HandlerDescends ==
  ASSUME SampleTypeOK, SampleTypeOK', HandlerSteps
  PROVE  StepsLeft' < StepsLeft
  <1>1. /\ PollMax \in Nat /\ transfer \in 0..3 /\ transfer' \in 0..3
        /\ polls \in 0 .. PollMax + 1 /\ polls' \in 0 .. PollMax + 1
    BY SampleParameters DEF SampleTypeOK
  <1>2. /\ InTransfer(wait, polls) \in 1..PerTransfer
        /\ InTransfer(wait', polls') \in 1..PerTransfer
    BY <1>1, InTransferRange
  <1>3. PerTransfer \in Nat
    BY <1>1 DEF PerTransfer
  <1>4. CASE Polls
    <2>1. transfer # 0 /\ transfer' = transfer /\ wait' = wait /\ polls' = polls + 1
      BY <1>4 DEF Polls
    <2>2. InTransfer(wait', polls') < InTransfer(wait, polls)
      BY <1>1, <2>1 DEF InTransfer
    <2>3. QED
      BY <1>1, <1>2, <1>3, <2>1, <2>2 DEF StepsLeft
  <1>5. CASE GivesUp
    <2>1. transfer # 0 /\ transfer' = 0
      BY <1>5 DEF GivesUp
    <2>2. QED
      BY <1>1, <1>2, <1>3, <2>1 DEF StepsLeft
  <1>6. CASE SendsCommand
    <2>1. /\ transfer # 0 /\ transfer' = transfer /\ polls' = polls
          /\ wait = "TDBE" /\ wait' = "RDBF"
      BY <1>6 DEF SendsCommand
    <2>2. InTransfer(wait', polls') < InTransfer(wait, polls)
      BY <1>1, <2>1 DEF InTransfer
    <2>3. QED
      BY <1>1, <1>2, <1>3, <2>1, <2>2 DEF StepsLeft
  <1>7. CASE ReadsAnswer
    <2>1. transfer # 0 /\ transfer' = IF transfer = 3 THEN 0 ELSE transfer + 1
      BY <1>7 DEF ReadsAnswer
    <2>2. QED
      BY <1>1, <1>2, <1>3, <2>1 DEF StepsLeft
  <1>8. QED
    BY <1>4, <1>5, <1>6, <1>7 DEF HandlerSteps

\* The ADC handler does not hang on its SPI, whatever the peripheral does: a sample
\* is over after 3 * (PollMax + 3) of its own steps at most, and nothing the
\* peripheral does puts that off.
THEOREM SampleDescends ==
  SampleSpec =>
    /\ [](StepsLeft \in 0 .. 3 * PerTransfer /\ (StepsLeft = 0 <=> transfer = 0))
    /\ [][/\ HandlerSteps => StepsLeft' < StepsLeft
          /\ SpiGoes => StepsLeft' = StepsLeft]_sampleVars
  <1>1. SampleTypeOK =>
          StepsLeft \in 0 .. 3 * PerTransfer /\ (StepsLeft = 0 <=> transfer = 0)
    <2> SUFFICES ASSUME SampleTypeOK
                 PROVE  StepsLeft \in 0 .. 3 * PerTransfer /\ (StepsLeft = 0 <=> transfer = 0)
      OBVIOUS
    <2>1. transfer \in 0..3 /\ PerTransfer \in Nat
      BY SampleParameters DEF SampleTypeOK, PerTransfer
    <2>2. InTransfer(wait, polls) \in 1..PerTransfer
      BY InTransferRange DEF SampleTypeOK
    <2>3. QED
      BY <2>1, <2>2 DEF StepsLeft
  <1>2. SampleTypeOK /\ SampleTypeOK' =>
          [/\ HandlerSteps => StepsLeft' < StepsLeft
           /\ SpiGoes => StepsLeft' = StepsLeft]_sampleVars
    <2>1. ASSUME SpiGoes PROVE StepsLeft' = StepsLeft
      <3>1. UNCHANGED <<transfer, wait, polls>>
        BY <2>1 DEF SpiGoes, FrameBegins, FrameEnds, codeVars
      <3>2. QED
        BY <3>1 DEF StepsLeft, InTransfer
    <2>2. QED
      BY <2>1, HandlerDescends
  <1>3. QED
    BY <1>1, <1>2, SampleTypeCorrect, PTL

=============================================================================
