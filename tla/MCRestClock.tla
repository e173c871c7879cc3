---------------------------- MODULE MCRestClock ----------------------------
(***************************************************************************)
(* The clocks of a few functions of RestClient, and what holds of all its  *)
(* functions: the facts about the tables that theorems of RestClient_proofs *)
(* have as their hypotheses.                                               *)
(***************************************************************************)
EXTENDS MCRestClient

ASSUME TablesAssumption ==
    \A f \in AllFunctions : Quiet(f) /\ Fits(f) /\ (f \in MCUnnamed \/ Identifies(f))
=============================================================================
