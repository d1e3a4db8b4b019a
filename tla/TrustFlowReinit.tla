--------------------------- MODULE TrustFlowReinit ---------------------------
(***************************************************************************)
(* TrustFlow with initialize callable at any time, as it is: the entry      *)
(* point has no test that it ran before, only a comment asks for one call.  *)
(* Module TrustFlow keeps to the comment; this one does not.                *)
(***************************************************************************)
EXTENDS TrustFlow

(***************************************************************************)
(* initialize on a contract in use: the governance values and the escrow    *)
(* counter are written again; the pause flag, the pauser and everything in  *)
(* persistent storage stay.  The token address is the same.                 *)
(***************************************************************************)
Reinitialize(caller, slash) ==
  /\ admin' = caller
  /\ slashBps' = slash
  /\ escrowCounter' = 0
  /\ feeBps' = DEFAULT_FEE_BPS
  /\ treasury' = caller
  /\ UNCHANGED <<circuitVars, escrows, feeConfigs, escrowReleased,
                 milestoneReleased, feesPaid, escrowFunds>>
  /\ UNCHANGED <<disputes, ballotVars, stakeVars, balances, gifts, now>>

ReinitNext ==
  \/ Next
  \/ \E caller \in Operators, slash \in SlashChoices : Reinitialize(caller, slash)

ReinitSpec == Init /\ [][ReinitNext]_vars

(***************************************************************************)
(* An id names one escrow: the counter never moves on to an id that has a   *)
(* record (lib.rs: "Counter for generating unique escrow IDs").             *)
(***************************************************************************)
FreshIds ==
  [][escrowCounter' > escrowCounter => escrowCounter' \notin DOMAIN escrows]_vars
=============================================================================
