---------------------------- MODULE MCMotorDrive ----------------------------
(***************************************************************************)
(* MotorDrive for TLC.                                                     *)
(***************************************************************************)
EXTENDS MotorDrive

\* The bus-voltage checks of an instance.
NoChecks  == <<>>
OneCheck  == <<"OV">>
TwoChecks == <<"OV", "UV">>
=============================================================================
