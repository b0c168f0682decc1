-------------------------- MODULE MCCommandResults --------------------------
(***************************************************************************)
(* An instance of CommandResults for TLC.                                  *)
(***************************************************************************)
EXTENDS CommandResults, TLC

CONSTANTS c1, c2

Request(kind, frames) == [kind |-> kind, frames |-> frames]

RequestsOfAllKinds ==
  {Request("plain", 1), Request("fullResponse", 1), Request("orderBook", 1),
   Request("persist", 2), Request("binary", 2), Request("report", 2),
   Request("reportAny", 1)}

ClientSymmetry == Permutations(Clients)
=============================================================================
