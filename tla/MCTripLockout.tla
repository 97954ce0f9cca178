--------------------------- MODULE MCTripLockout ---------------------------
(***************************************************************************)
(* TripLockout for TLC.                                                    *)
(***************************************************************************)
EXTENDS TripLockout

\* The bus-voltage checks of an instance.
OneCheck == <<"OV">>
=============================================================================
