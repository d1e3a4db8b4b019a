----------------------------- MODULE MCTrustFlow -----------------------------
(***************************************************************************)
(* Instances of TrustFlow for TLC.  Amounts are a handful of tokens and     *)
(* BPS_DENOMINATOR is 4: every rounding case of the fee and the slash then  *)
(* occurs within a few tranches.                                            *)
(***************************************************************************)
EXTENDS TrustFlow, TLC

CONSTANTS contract, alice, bob, gov, j1, j2, j3

\* One milestone open from the start and one locked until ledger 1.
TwoMilestones ==
  <<[amount |-> 2, approved |-> FALSE, release_time |-> 0],
    [amount |-> 1, approved |-> FALSE, release_time |-> 1]>>
\* A vector init_escrow refuses.
BadMilestones ==
  <<[amount |-> 3, approved |-> FALSE, release_time |-> 0],
    [amount |-> -1, approved |-> FALSE, release_time |-> 0]>>
\* A milestone released in two equal tranches.
HalvedMilestone == <<[amount |-> 2, approved |-> FALSE, release_time |-> 0]>>

NoPlans     == {}
EscrowPlans == {TwoMilestones, BadMilestones}
PairPlans   == {HalvedMilestone}

\* What each account starts with.
Endow(clients, jurors) ==
  [account \in Accounts |-> IF account \in Jurors THEN jurors
                            ELSE IF account \in Depositors THEN clients ELSE 0]
BallotEndowment == Endow(2, 3)
\* A token was sent to the contract's address before the contract was there.
EscrowEndowment == [Endow(7, 3) EXCEPT ![Contract] = 1]
PairEndowment   == [Endow(4, 15) EXCEPT ![Contract] = 1]

JurorSymmetry == Permutations(Jurors)
=============================================================================
