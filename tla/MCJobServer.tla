----------------------------- MODULE MCJobServer -----------------------------
(* Instance of PRActivity, with Listing, for TLC.                           *)
EXTENDS PRActivity
=============================================================================
