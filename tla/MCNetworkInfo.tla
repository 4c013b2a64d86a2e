--------------------------- MODULE MCNetworkInfo ---------------------------
(***************************************************************************)
(* An instance of NetworkInfo for TLC: two events after startup, at one    *)
(* instant or with a tick of the clock in between.                         *)
(***************************************************************************)
EXTENDS NetworkInfo
=============================================================================
