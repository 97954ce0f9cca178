---------------------------- MODULE TripLockout ----------------------------
(***************************************************************************)
(* The drive with the over-current counter of Prot_MotorOverCurrent in it: *)
(* how long a trip keeps the motor off, and what it takes to start again.  *)
(* Every step is a step of MotorDrive; the counter decides the choice that *)
(* its OverCurrent leaves open.                                            *)
(***************************************************************************)
EXTENDS MotorDrive

CONSTANTS
    PeakOcpTime,   \* MotorProtectOC.i32PeakOcpTime, in samples
    ErrClrTime     \* MotorProtectOC.i32ErrClrTime, in samples

ASSUME LockoutAssumption ==
    /\ PeakOcpTime \in Nat \ {0}
    /\ ErrClrTime \in Nat /\ ErrClrTime >= PeakOcpTime

VARIABLES
    ocpCnt,  \* MotorProtectOC.i32PeakOcpCnt
    \* Histories, not in the program:
    calm,    \* samples in a row without an over-current, up to ErrClrTime
    trip,    \* "locked" from a trip to its release, then "released" until a
             \* new command; "erased" once a store by TMR3 has dropped the bit
    passes,  \* polls main has begun since the trip, up to 2
    sent     \* the host has sent a speed since main last cleared the command

lockVars == <<ocpCnt, calm, trip, passes, sent>>
allVars  == <<vars, lockVars>>

LockTypeOK ==
    /\ ocpCnt \in Int /\ ocpCnt <= ErrClrTime
    /\ calm \in 0 .. ErrClrTime
    /\ trip \in {"none", "locked", "released", "erased"}
    /\ passes \in 0..2 /\ sent \in BOOLEAN

LockInit == /\ Init
            /\ ocpCnt = 0 /\ calm = 0 /\ trip = "none" /\ passes = 0 /\ sent = FALSE

-----------------------------------------------------------------------------
\* A phase is above the limit: at the end of the count it trips.
CountsOver ==
    LET trips == "OC_PEAK" \notin fault /\ ocpCnt + 1 >= PeakOcpTime IN
    /\ ocpCnt' = IF trips \/ "OC_PEAK" \in fault THEN ErrClrTime ELSE ocpCnt + 1
    /\ ("OC_PEAK" \in fault') = (trips \/ "OC_PEAK" \in fault)
    /\ calm' = 0
    /\ IF trips THEN trip' = "locked" /\ passes' = 0 ELSE UNCHANGED <<trip, passes>>
    /\ UNCHANGED sent

\* What a release leads to: a speed sent after main's last clearing may start
\* the motor at once.
Released == IF sent THEN "none" ELSE "released"

\* Mutant: the first calm sample clears the bit.
CountsCalmClears ==
    /\ ocpCnt' = 0
    /\ "OC_PEAK" \notin fault'
    /\ calm' = IF calm = ErrClrTime THEN calm ELSE calm + 1
    /\ trip' = IF trip = "locked" /\ "OC_PEAK" \in fault THEN Released ELSE trip
    /\ UNCHANGED <<passes, sent>>

\* No phase is: with the bit set the count runs down to its release.  Main polls
\* without waiting and the release takes 5 s: at least one whole poll lies between
\* a trip and its release.
CountsCalm ==
    LET releases == "OC_PEAK" \in fault /\ ocpCnt - 1 <= 0 IN
    /\ releases => passes = 2
    /\ ocpCnt' = IF "OC_PEAK" \in fault THEN ocpCnt - 1 ELSE 0
    /\ ("OC_PEAK" \in fault') = ("OC_PEAK" \in fault /\ ~releases)
    /\ calm' = IF calm = ErrClrTime THEN calm ELSE calm + 1
    /\ trip' = IF releases /\ trip = "locked" THEN Released ELSE trip
    /\ UNCHANGED <<passes, sent>>

\* The conversion handler of a ready drive.
LockSample == /\ AdcTrip \/ AdcIdle \/ AdcCalibrate \/ AdcRun \/ AdcStop
              /\ CountsOver \/ CountsCalm

\* A spurious interrupt and the offset check do not count.
LockOtherIsr == (AdcOffset \/ AdcSpurious) /\ UNCHANGED lockVars

\* A word loaded before the trip erases it when it is stored.
LockTmr3 ==
    /\ Tmr3
    /\ trip' = IF trip = "locked" /\ "OC_PEAK" \in fault /\ "OC_PEAK" \notin fault'
               THEN "erased" ELSE trip
    /\ UNCHANGED <<ocpCnt, calm, passes, sent>>

LockHost ==
    /\ Host
    /\ sent' = (sent \/ cmdRpm' # 0)
    /\ trip' = IF trip = "released" /\ sent' THEN "none" ELSE trip
    /\ UNCHANGED <<ocpCnt, calm, passes>>

LockMain ==
    /\ Main
    /\ passes' = IF MainCheckFault /\ passes < 2 THEN passes + 1 ELSE passes
    /\ sent' = (sent /\ ~MainClearCommand)
    /\ UNCHANGED <<ocpCnt, calm, trip>>

LockNext == LockSample \/ LockOtherIsr \/ LockTmr3 \/ LockHost \/ LockMain

LockSpec == LockInit /\ [][LockNext]_allVars

-----------------------------------------------------------------------------
(***************************************************************************)
(* Properties                                                              *)
(***************************************************************************)

\* An over-current trip (and with it Speed_CmdSpdSet's clearing of the command)
\* keeps the bridge off for i32ErrClrTime calm samples, wherever main was in
\* its poll or in MotorSW_Init, and after its release until the host sends a
\* new command.  The one excuse is a store by TMR3 that erases the bit: the
\* handler then has nothing to release, main has never seen the fault, and the
\* motor restarts by itself.
TripLocksOut == trip \in {"locked", "released"} => ~pwmOn

\* A trip is released only after i32ErrClrTime calm samples in a row, also when
\* a store by TMR3 has brought a bit back that had been released.
ReleasedAfterCalm ==
    [][trip = "locked" /\ trip' \in {"released", "none"} => calm' = ErrClrTime]_allVars

=============================================================================
