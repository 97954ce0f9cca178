----------------------------- MODULE RunSession -----------------------------
(***************************************************************************)
(* What the drive promises about one run of the motor, whatever the        *)
(* interrupts do: a run starts from rest with every control loop open,     *)
(* turns the bridge on, closes the current loop, then the speed loop, in   *)
(* that order and never back; it may end at any point; the rotation        *)
(* direction is chosen at rest and holds for the whole run; and while it   *)
(* is past power-up nothing but its end takes the bridge away.             *)
(***************************************************************************)
CONSTANT Dirs

VARIABLES stage, dir, on, loops

vars == <<stage, dir, on, loops>>

Init == stage = "rest" /\ dir \in Dirs /\ on = FALSE /\ loops = {}

\* At rest the bridge may be used for other purposes and the direction set.
Rest ==
    /\ stage = "rest" /\ stage' = "rest"
    /\ dir' \in Dirs /\ on' \in BOOLEAN
    /\ UNCHANGED loops

Begin ==
    /\ stage = "rest" /\ stage' = "arming"
    /\ loops' = {}
    /\ UNCHANGED <<dir, on>>

PowerUp ==
    /\ stage = "arming" /\ stage' = "powered"
    /\ on' = TRUE
    /\ UNCHANGED <<dir, loops>>

CloseCurrentLoop ==
    /\ stage = "powered" /\ stage' = "current"
    /\ loops' = {"current"}
    /\ UNCHANGED <<dir, on>>

CloseSpeedLoop ==
    /\ stage = "current" /\ stage' = "speed"
    /\ loops' = {"current", "speed", "ramp"}
    /\ UNCHANGED <<dir, on>>

End ==
    /\ stage # "rest" /\ stage' = "rest"
    /\ on' \in BOOLEAN /\ loops' = {}
    /\ UNCHANGED dir

Next == Rest \/ Begin \/ PowerUp \/ CloseCurrentLoop \/ CloseSpeedLoop \/ End

Spec == Init /\ [][Next]_vars
=============================================================================
