------------------------------ MODULE MCStartup ------------------------------
(***************************************************************************)
(* Three of the five keys are enough for one that cannot be used, one that *)
(* is picked and one that comes too late.                                  *)
(***************************************************************************)
EXTENDS Startup

MCProbes == <<"Systems", "Chassis", "Managers">>
=============================================================================
