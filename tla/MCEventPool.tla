---------------------------- MODULE MCEventPool ----------------------------
(***************************************************************************)
(* An instance of EventPool for TLC.                                       *)
(***************************************************************************)
EXTENDS EventPool

CONSTANTS risk, match
=============================================================================
