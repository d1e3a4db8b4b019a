--------------------------- MODULE MCTrustFlowTtl ---------------------------
(***************************************************************************)
(* Instances of TrustFlowTtl for TLC.  A day is one ledger, 30 days are     *)
(* two and 90 days six, or three where entries are to lapse within the run. *)
(***************************************************************************)
EXTENDS TrustFlowTtl, TLC

CONSTANTS contract, alice, bob, gov, j1, j2

\* A milestone, released whole or in two tranches.
OneMilestone == <<[amount |-> 2, approved |-> FALSE, release_time |-> 0]>>
MilestoneChoices == {OneMilestone}

\* Enough for one escrow and for one stake each.
Endowment ==
  [account \in Accounts |-> IF account \in Jurors \union Depositors THEN 2 ELSE 0]

JurorSymmetry == Permutations(Jurors)
=============================================================================
