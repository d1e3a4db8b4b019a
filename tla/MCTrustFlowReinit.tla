-------------------------- MODULE MCTrustFlowReinit --------------------------
(***************************************************************************)
(* The instance of TrustFlowReinit for TLC.                                 *)
(***************************************************************************)
EXTENDS TrustFlowReinit

CONSTANTS contract, alice, bob, gov

NoPlans   == {}
Endowment == [account \in Accounts |-> IF account = alice THEN 4 ELSE 0]
=============================================================================
