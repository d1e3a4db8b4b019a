--------------------------- MODULE TrustFlowAdmin ---------------------------
(***************************************************************************)
(* Governance of the TrustFlow contract: the fee and treasury defaults and  *)
(* the pause circuit breaker.  None of these calls is itself stopped by a   *)
(* pause.                                                                   *)
(***************************************************************************)
EXTENDS TrustFlowState

\* Deviation: an entry point that forgets require_not_paused.
PauseIgnored == TRUE

\* require_not_paused returned Ok
NotPaused == ~paused

\* initialize: the state every other call finds.  The documentation has it
\* called once, before anything else, so it is the initial state.
Initialize(caller, slash) ==
  /\ admin = caller
  /\ slashBps = slash
  /\ escrowCounter = 0
  /\ feeBps = DEFAULT_FEE_BPS
  /\ treasury = caller

SetFeeBps(caller, bps) ==
  /\ caller = admin
  /\ bps <= MAX_FEE_BPS
  /\ feeBps' = bps
  /\ UNCHANGED <<admin, slashBps, treasury>>
  /\ UNCHANGED <<circuitVars, escrowVars, disputes, ballotVars, stakeVars,
                 balances, gifts, now>>

SetTreasury(caller, account) ==
  /\ caller = admin
  /\ treasury' = account
  /\ UNCHANGED <<admin, slashBps, feeBps>>
  /\ UNCHANGED <<circuitVars, escrowVars, disputes, ballotVars, stakeVars,
                 balances, gifts, now>>

SetPauser(caller, account) ==
  /\ caller = admin
  /\ pauser' = account
  /\ UNCHANGED paused
  /\ UNCHANGED <<configVars, escrowVars, disputes, ballotVars, stakeVars,
                 balances, gifts, now>>

RevokePauser(caller) ==
  /\ caller = admin
  /\ pauser' = None
  /\ UNCHANGED paused
  /\ UNCHANGED <<configVars, escrowVars, disputes, ballotVars, stakeVars,
                 balances, gifts, now>>

Pause(caller) ==
  /\ caller = admin \/ caller = pauser
  /\ paused' = TRUE
  /\ UNCHANGED pauser
  /\ UNCHANGED <<configVars, escrowVars, disputes, ballotVars, stakeVars,
                 balances, gifts, now>>

Unpause(caller) ==
  /\ caller = admin
  /\ paused' = FALSE
  /\ UNCHANGED pauser
  /\ UNCHANGED <<configVars, escrowVars, disputes, ballotVars, stakeVars,
                 balances, gifts, now>>
=============================================================================
