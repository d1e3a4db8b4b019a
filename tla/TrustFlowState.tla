--------------------------- MODULE TrustFlowState ---------------------------
(***************************************************************************)
(* The state of the TrustFlow contract (contracts/trustflow/src/lib.rs):   *)
(* its constants, its storage entries (enum DataKey), the records kept in   *)
(* them, the token balances and the ledger clock, and what every module of  *)
(* the model uses of them.                                                  *)
(*                                                                          *)
(* An entry the code always reads with unwrap_or(0) or with an empty        *)
(* default is a total function; an entry whose absence the code tells apart *)
(* is a store of module Storage, whose domain is the set of present keys.   *)
(* A call that returns Err or traps is undone by the host, so it is no step.*)
(***************************************************************************)
EXTENDS FeeMath, TokenLedger, Storage, FiniteSets, Sequences

CONSTANTS
  Accounts,        \* the addresses that hold tokens
  Contract,        \* the address of the TrustFlow contract
  None,            \* no pauser is set
  Depositors, Beneficiaries, Jurors, Treasuries,
  Operators,       \* the accounts that call the governance entry points
  Wardens,         \* those among them that pause, resume or become the pauser
  EscrowAmounts,   \* amounts offered to create_escrow
  MilestonePlans,  \* milestone vectors offered to init_escrow
  TrancheAmounts,  \* gross amounts offered to release_milestone_tranche
  StakeAmounts,    \* amounts offered to stake and unstake
  FeeChoices,      \* values offered to set_fee_bps
  SlashChoices,    \* values offered to initialize
  Salts,           \* the 32-byte salts jurors choose from
  GiftAmounts,     \* amounts others transfer to the contract without a call to it
  InitialBalances, \* what each account holds when the contract is deployed
  DEFAULT_FEE_BPS, MAX_FEE_BPS,
  COMMIT_WINDOW_LEDGERS, REVEAL_WINDOW_LEDGERS,
  MaxLedger,       \* the last ledger sequence number (u32::MAX)
  MaxEscrows       \* the last escrow id (u64::MAX)

EscrowIds == 1 .. MaxEscrows
Ledgers   == 0 .. MaxLedger
Bps       == 0 .. BPS_DENOMINATOR

EscrowStatus == {"Active", "Disputed", "Settled"}

Milestone == [amount : Int, approved : BOOLEAN, release_time : Ledgers]

EscrowRecord ==
  [id : EscrowIds, depositor : Accounts, beneficiary : Accounts,
   amount : 1 .. I128_MAX, status : EscrowStatus, milestones : Seq(Milestone)]

EscrowFeeConfig == [treasury : Accounts, fee_bps : Bps]

DisputeRecord ==
  [escrow_id : EscrowIds, raised_by : Accounts, resolved : BOOLEAN,
   ruling_for_depositor : BOOLEAN,
   commit_deadline : Ledgers, reveal_deadline : Ledgers]

VoteKeys == EscrowIds \X Jurors

\* Deviation: the vote byte is left out of the preimage.
HashOfSalt(voteForDepositor, salt) == <<TRUE, salt>>

\* sha256(vote_byte ++ salt).  The hash is taken to be injective, and nothing in
\* the contract reads a commitment except to compare it.
HashVote(voteForDepositor, salt) == <<voteForDepositor, salt>>

Commitments == BOOLEAN \X Salts

VARIABLES
  \* instance storage
  admin, slashBps, escrowCounter, feeBps, treasury, paused, pauser,
  \* persistent storage, by escrow id, <<id, milestone>>, <<id, juror>> or juror
  escrows, feeConfigs, escrowReleased, milestoneReleased,
  disputes, jurorCommits, jurorVotes, disputeVoters,
  jurorStakes, slashCounts,
  \* the token contract and the ledger
  balances, now,
  \* history, which no call reads: the treasury_fee of an escrow's releases and
  \* the slash_amount of a juror's slashes, added up from the events; what the
  \* calls on an escrow moved into and out of custody; and the tokens that are
  \* at the contract's address without having been deposited with it
  feesPaid, slashed, escrowFunds, gifts

configVars  == <<admin, slashBps, feeBps, treasury>>
circuitVars == <<paused, pauser>>
escrowVars  == <<escrowCounter, escrows, feeConfigs, escrowReleased,
                 milestoneReleased, feesPaid, escrowFunds>>
ballotVars  == <<jurorCommits, jurorVotes, disputeVoters>>
stakeVars   == <<jurorStakes, slashCounts, slashed>>

vars == <<configVars, circuitVars, escrowVars, disputes, ballotVars, stakeVars,
          balances, gifts, now>>

\* Depositors, jurors and operators have to authorise their calls, which the
\* contract does not do for itself; any address, the contract's own included,
\* can be named as a beneficiary or a treasury.
ASSUME PartiesAssumption ==
  /\ Contract \in Accounts
  /\ Depositors \subseteq Accounts \ {Contract}
  /\ Beneficiaries \subseteq Accounts
  /\ Jurors \subseteq Accounts \ {Contract}
  /\ Treasuries \subseteq Accounts
  /\ Operators \subseteq Treasuries \ {Contract}
  /\ Wardens \subseteq Operators
  /\ None \notin Accounts
  /\ IsFiniteSet(Jurors)

ASSUME InputsAssumption ==
  /\ EscrowAmounts \subseteq Int
  /\ MilestonePlans \subseteq Seq(Milestone)
  /\ TrancheAmounts \subseteq Int
  /\ StakeAmounts \subseteq Int
  /\ GiftAmounts \subseteq Nat
  /\ FeeChoices \subseteq Nat
  /\ SlashChoices \subseteq Bps
  /\ InitialBalances \in [Accounts -> Nat]

ASSUME BoundsAssumption ==
  /\ MAX_FEE_BPS \in Bps
  /\ DEFAULT_FEE_BPS \in 0 .. MAX_FEE_BPS
  /\ COMMIT_WINDOW_LEDGERS \in Nat \ {0}
  /\ REVEAL_WINDOW_LEDGERS \in Nat \ {0}
  /\ MaxLedger \in Nat
  /\ MaxEscrows \in Nat

\* u32::saturating_add on ledger sequence numbers
LaterLedger(ledger, window) ==
  IF ledger + window <= MaxLedger THEN ledger + window ELSE MaxLedger

\* The tokens the contract holds because somebody deposited them with a call.
Custody == balances[Contract] - gifts

\* What stays when the contract pays an account that may be its own.
SelfPaid(account, amount) == IF account = Contract THEN amount ELSE 0

\* What this step moves into or out of custody is put down to one escrow.
ChargedTo(id) ==
  escrowFunds' = [escrowFunds EXCEPT ![id] = @ + (Custody' - Custody)]

TypeOK ==
  /\ admin \in Operators
  /\ slashBps \in Bps
  /\ feeBps \in 0 .. MAX_FEE_BPS
  /\ treasury \in Treasuries
  /\ paused \in BOOLEAN
  /\ pauser \in Wardens \union {None}
  /\ escrowCounter \in 0 .. MaxEscrows
  /\ IsStore(escrows, EscrowIds, EscrowRecord)
  /\ IsStore(feeConfigs, EscrowIds, EscrowFeeConfig)
  /\ escrowReleased \in [EscrowIds -> 0 .. I128_MAX]
  /\ IsStore(milestoneReleased, EscrowIds \X Nat, 0 .. I128_MAX)
  /\ IsStore(disputes, EscrowIds, DisputeRecord)
  /\ IsStore(jurorCommits, VoteKeys, Commitments)
  /\ IsStore(jurorVotes, VoteKeys, BOOLEAN)
  /\ disputeVoters \in [EscrowIds -> Seq(Jurors)]
  /\ jurorStakes \in [Jurors -> 0 .. I128_MAX]
  /\ slashCounts \in [Jurors -> Nat]
  /\ balances \in [Accounts -> Nat]
  /\ now \in Ledgers
  /\ feesPaid \in [EscrowIds -> Nat]
  /\ slashed \in [Jurors -> Nat]
  /\ escrowFunds \in [EscrowIds -> Int]
  /\ gifts \in Nat
=============================================================================
