----------------------------- MODULE MCCrowdfund -----------------------------
(***************************************************************************)
(* Instances of Crowdfund for TLC, with amounts both contracts must refuse. *)
(***************************************************************************)
EXTENDS Crowdfund

CONSTANTS fund, ann, ben, rec

\* Targets below, at and above what deposits alone can reach.
GoalChoices    == {-1, 2, 3}
DepositChoices == {-1, 0, 1, 2}
GiftChoices    == {-1, 0, 1}
MintChoices    == {-1, 1, 2}
=============================================================================
