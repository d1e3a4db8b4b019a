# TrustFlow: models, checks and proofs

This directory specifies the contracts of this repository in TLA+. TLC checks the
specifications on small instances and TLAPS proves the results listed under *Proofs*
for every instance. The reference is the Rust source; each definition that models code
is tied to its lines in `PROJECT.json` (`map`).

## 1. Inventory: the parts of the system

| Part | Source | State it keeps | Operations |
|---|---|---|---|
| Governance and circuit breaker | `contracts/trustflow/src/lib.rs` 533-709 | admin, token, slash rate, fee rate, treasury, paused, pauser | `initialize`, `set_fee_bps`, `set_treasury`, `set_pauser`, `revoke_pauser`, `pause`, `unpause` |
| Juror staking | same, 717-823 | stake and slash count of each juror | `stake`, `unstake`, `bump_juror_stake_ttl` |
| Escrow lifecycle | same, 831-1097 | escrow counter, escrow records, fee snapshots, released totals per escrow and per milestone | `create_escrow`, `init_escrow`, `release_milestone_tranche` |
| Disputes | same, 1105-1514 | dispute records, commitments, votes, voter lists | `raise_dispute`, `commit_vote`, `reveal_vote`, `resolve_dispute` |
| State archival | same, 24-125, 795-823, 1527-1576 | a live-until ledger for every entry | the TTL bumps inside every call, `bump_escrow_ttl`, `bump_juror_stake_ttl` |
| Mock token | `contracts/mock-token/src/lib.rs` | balances | `initialize`, `mint`, `transfer` |
| Abundance token | `contracts/abundance/src` | admin, balances, allowances with an expiry | `mint`, `approve`, `transfer`, `transfer_from`, `burn`, `burn_from`, `set_admin` |
| Crowdfund | `contracts/crowdfund/src/lib.rs` | recipient, deadline, target, deposits, claimed flag | `initialize`, `deposit`, `withdraw` |
| Older core contract | `contracts/src` | escrow and dispute records | `raise_dispute`; settlement, fee, governance and oracle helpers that no contract calls |
| Backend tests, scripts, CI | `tests/*.ts`, `scripts`, `.github` | none | stubs and shell commands |

How they interact. TrustFlow is called by administrators, depositors, beneficiaries, jurors
and keepers, in any order, each call an atomic transaction: an `Err` or a panic undoes the
call, token transfers included. TrustFlow calls the token (`transfer`) from `stake`,
`unstake`, `create_escrow`, `init_escrow`, `release_milestone_tranche` (twice) and
`resolve_dispute`; **one** balance, that of the contract's address, backs every escrow,
every stake and every stake slashed so far. The parts of TrustFlow share storage: staking
gates `commit_vote` and is cut by `resolve_dispute`; releases decide what a dispute still
pays; governance sets the fee a new escrow snapshots and stops nine entry points with
`require_not_paused`. The ledger sequence number advances by itself and opens and closes
milestone locks, commit windows and reveal windows, also while the contract is paused; it
also archives entries that nothing extended. The crowdfund holds its money in a token
contract like the mock token, whose other callers may change its balance, and with it the
state of the sale, at any moment. The Abundance token stands by itself.

What is hard here, and what each part must get right:

* *Funds*: many claims on one balance; partial releases before a dispute; two transfers in
  one call; parties that are the contract itself, and tokens that arrive without a call. The
  contract must hold what it owes, pay each escrow out once, and keep the milestone and
  escrow ledgers in step.
* *Fees*: charged tranche by tranche with rounding, under terms fixed at creation. The total
  must not depend on how a release is cut.
* *Ballots*: three entries per vote, two windows that meet in one ledger, many jurors. No
  commitment after a vote is known, one vote per juror, the majority decides, each lost vote
  is slashed once.
* *Pause*: any moment, any number of times, with the clock running. Nothing may move, and
  what was decided must still settle afterwards.
* *Arithmetic*: `i128` amounts, checked steps, a slash computed in three widths.
* *Archival*: entries that expire one by one and appear between two calls of a keeper, an
  extension that is skipped while an entry has 30 days left, a ballot no keeper reaches.
  Whatever a later call needs must still be there, or be worth restoring.
* *Allowances*: an amount with a last ledger inside an entry that the host deletes by a clock
  of its own, rewritten by every spend. It must last as long as granted and no longer, and
  what a spender takes from an owner must come out of it.
* *Sale*: a state that is computed, from the clock, a flag and a balance others can move. A
  success must be final, and the books of the donors always covered and paid back.

`PROJECT.json` lists these as `hazards`, each at its line with the properties that cover it.

## 2. Modules

| Module | Models |
|---|---|
| `Storage` | contract storage as functions on the keys present: `has`, `get`, `set`, `remove` |
| `TokenLedger` | the token's `transfer`: debit, then credit of the balance read again |
| `FeeMath` | `cumulative_fee` and the slash of `resolve_dispute` |
| `TrustFlowState` | constants, variables (one per `DataKey`), record types, `TypeOK` |
| `TrustFlowAdmin` | governance and the circuit breaker |
| `TrustFlowStaking` | `stake`, `unstake` |
| `TrustFlowEscrow` | `create_escrow`, `init_escrow`, `release_milestone_tranche` |
| `TrustFlowDispute` | `raise_dispute`, `commit_vote`, `reveal_vote`, `resolve_dispute` |
| `TrustFlow` | the whole contract: `Init`, `Next`, `Spec`, fairness, the properties |
| `EscrowVault` | abstract: the promise about each escrow, which `TrustFlow` implements |
| `SecretBallot` | abstract: the promise about the ballot of each dispute, which `TrustFlow` implements |
| `TrustFlowTtl` | every call of `TrustFlow` with its effect on the lifetime of storage entries, the two maintenance calls, and keepers |
| `TrustFlowReinit` | `TrustFlow` with `initialize` callable again |
| `MockToken` | the mock token: `initialize`, `mint`, `transfer` |
| `Crowdfund` | the sale composed with `MockToken`, whose balances it shares |
| `AbundanceToken` | the Abundance token with its allowances in temporary storage |
| `ConservedSupply` | abstract: tokens are issued, retired and moved, never copied or lost; `MockToken`, inside the sale, implements it |
| `FungibleLedger` | abstract: extends `ConservedSupply` by spending budgets and by who signs each step; `AbundanceToken` implements it |
| `MCTrustFlow`, `MCTrustFlowTtl`, `MCTrustFlowReinit`, `MCCrowdfund`, `MCAbundanceToken` | instances for TLC |
| `SumProofs`, `TrustFlowTypeProofs`, `TrustFlowVaultProofs`, `TrustFlowCustodyProofs`, `TrustFlowBallotProofs`, `TrustFlowTtlProofs`, `AbundanceTokenProofs`, `CrowdfundProofs` | proofs |

Correspondence. Each storage entry of `enum DataKey` is a variable. Entries always read with
`unwrap_or(0)` or an empty default are total functions; entries whose absence the code tests
(`Escrow`, `EscrowFeeConfig`, `Dispute`, `JurorCommit`, `JurorVote`) are partial functions.
Each entry point is one action named after it, with its guards in conjuncts; a call that is
refused changes nothing and is no step. `balances` is the token contract, `now` the ledger
sequence. Four variables are history, which no guard reads: `feesPaid` and `slashed`, the sums
of `treasury_fee` and `slash_amount` over the events `MilestoneTrancheReleased` and
`JurorSlashed`; `gifts`, the tokens the contract holds without having booked them; and
`escrowFunds`, the tokens that the calls on each escrow moved in and out.

Funds. Neither `create_escrow`, `init_escrow` nor `set_treasury` refuses the contract's own
address, and anybody can transfer tokens to it (`Donate`). What a call pays the contract
itself stays in its balance and is owed to nobody, so it counts as given. `Custody` is the
balance less the gifts: what the contract holds for somebody. `escrowFunds` changes by what
the custody does in the call (`ChargedTo`), measured on the token balances and not on the
records, so `EscrowVault`, whose `locked` it is, notices a payout that is missing, too large,
or made from a settled escrow.

Abstractions. SHA-256 is an injective pairing of vote and salt. Labels, reasons and events
other than the two sums are left out. Milestones are numbered from 1. The loop that slashes
voters is one simultaneous update, because a juror is in the voter list at most once
(checked as `BallotIntegrity`). In `TrustFlow` entries never expire: an archived entry makes
the call that needs it trap, so archival only removes behaviours, and the safety properties
hold with it too. What must eventually happen does not carry over, and is checked in
`TrustFlowTtl`. The contract's own address is no depositor and no juror, because those calls
need its signature and the contract makes none of them to itself; it may be a beneficiary and
the treasury. The token's total supply fits in `i128`.

A commitment is `sha256(vote ++ salt)` and names no juror: a juror can copy another's and open
it with the same vote and salt once these are revealed. `NoCommitAfterReveal` and
`SecretBallot` promise that nobody commits when a vote is known, and that nobody changes what
is committed; not that two jurors' votes are independent.

Lifetimes (`TrustFlowTtl`). `liveUntil` gives each stored entry, and the contract instance,
its last ledger. `Access` says what a call does to it: the call traps if a key it reads,
writes or extends is archived; a key it creates gets the host's minimum; a key it extends,
and always the instance, is moved to `now + BUMP_AMOUNT` if less than the threshold is left
and is left alone otherwise. A keeper is a due ledger per escrow (`escrowDue`) or per stake
(`stakeDue`), set by the call that creates the first entry and by each maintenance call; no
ledger closes past it. `Restore` brings an archived entry back with the host's minimum
lifetime (`RestoreFootprintOp`, which needs no signature of the contract's parties; one
operation can restore several entries, the model takes them one by one). Votes and
commitments are reached by no maintenance call, so a dispute left unresolved for long is
resolved only after its votes are restored: `BallotLasts` states the time that is left, and
`VotedDisputeSettles` that a ruling is had in the end. A contract nobody calls is archived
with its instance.

Allowances (`AbundanceToken`). `liveUntil` is the host's clock of a temporary entry and
`expiration_ledger` the contract's own; `write_allowance` moves the first only for a positive
amount. `grantedUntil` and `signer` are history: what the owner named last, and the address
whose `require_auth` the last call passed (`Nobody` for `initialize` and when a ledger
closes). Names and symbols are left out.

The sale (`Crowdfund`). `get_state` is the operator `State`, computed from `time`, the
claimed flag and `balances[Fund]`. The token's other calls (`TokenCall`) interleave with the
sale: its administrator may mint to anyone, a donor may transfer to the contract's address.
`supply` is history, the sum of what was minted; `MaxSupply` bounds it. `pledged` is history,
what each user paid in by `deposit` less what `withdraw` repaid, measured on the contract's
balance. All the sale stores, deposits included, is in the instance entry, and no call extends
it: when a ledger closes the entry may be archived (the length of its lifetime is the
network's), every call then traps, and anyone may restore it.

Definitions commented *Deviation* are not part of the specification: each is a plausible
wrong version of the definition after it, and `PROJECT.json` (`mutants`) says which property
notices the exchange.

## 3. Runs

| Run | Instance | Shows |
|---|---|---|
| `escrow` | 1 escrow (milestones 2+1, the second time-locked, or whole), tranches of 1 and 2, fee 3/4 or 1/4, beneficiary and treasury that may be the contract, direct transfers to it, 3 jurors (symmetric), ledgers 0-3 | `Solvency`, `ImplementsVault`, `CustodyMoves`, `FeeLaw`, `MilestoneLedger`, `BallotIntegrity`, `RulingFollowsMajority`, `NoCommitAfterReveal`, `ImplementsBallot` |
| `two_disputes` | 2 escrows of one milestone released in halves, 2 jurors (one the beneficiary) with stakes of 15, slash 3/4, `I128_MAX` 16, ledgers 0-3 | `TypeOK`, `Solvency`, `CustodyMoves`, `SlashedOncePerLostDispute` |
| `settlement` | `TrustFlowTtl`: 1 escrow, by milestone or whole, 1 juror, an administrator who pauses, keepers every 2 ledgers at the latest, ledgers 0-5, with fairness | `EscrowKept`, `PauseFreezes`, `VotedDisputeSettles` |
| `archival` | `TrustFlowTtl`: 1 milestone escrow and its dispute, 2 jurors (symmetric), direct transfers, keepers every ledger, ledgers 0-6 | `BallotLasts`, `StakeKept` |
| `abundance` | 2 users, amounts up to 3, grants to ledgers 1 and 3, ledgers 0-3 | `TypeOK`, `AllowanceLasts`, `NothingAfterExpiry`, `ImplementsLedger` |
| `sale` | 2 donors and a recipient who also sends tokens directly, targets -1, 2 and 3, deadlines 0 and 2, supply up to 5, archival at any ledger, ledgers 0-3, with fairness | `TypeOK`, `DepositsCovered`, `SuccessIsFinal`, `SaleWindsUp`, `TokensConserved` |
| `stalled` | 1 escrow, 1 juror, with fairness | `DisputeSettles` is **violated** |
| `withdrawn_stake` | 1 escrow, 2 jurors | `MinorityVotersPay` is **violated** |
| `slashed_kept` | 1 escrow, 2 jurors | `SlashesBurn` is **violated** |
| `early_expiry` | 1 escrow, its keeper, ledgers 0-7 | `BumpGuarantees` is **violated** |
| `reinit` | 1 administrator, whole escrows, `initialize` at any time | `FreshIds` is **violated** |
| `late_gift` | as `sale` | `ExpiredIsFinal` is **violated** |

Bounds. `BPS_DENOMINATOR` is 4 instead of 10 000 so that every remainder of the rounding
occurs with amounts up to 5. `MaxEscrows` and `MaxLedger` stand for `u64::MAX` and
`u32::MAX` and are also where the exploration ends: two escrows are enough for one to touch
another's funds, two disputes for one to touch another's jurors, and the last ledger leaves
room to raise, commit, reveal and resolve from two different ledgers. Three jurors give
majorities, ties (with two voters) and silent jurors. The windows are a ledger each, so that the
ledger where one closes and the next opens is reached by every dispute. In `escrow` the direct
transfers are of 4 tokens, which only the depositor has, and it and `two_disputes` start with a
token at the contract's address already.

The slash has three widths, `i128`, `u128` and dividing first. In `two_disputes`, with
`I128_MAX` 16, a stake of 15 slashed at 3/4 overflows `i128` and `u128` (45, past 33); the 6
that are left overflow only `i128` (18) when the juror loses the second dispute. In `escrow`
the product fits.

In the runs of `TrustFlowTtl` a ledger is a day of the windows and the threshold of 30 days
is two ledgers, no shorter than the two windows together (`WindowAssumption`, true of the
code's constants by far). `archival` and `settlement` take three ledgers for
the bump of 90 days, so that entries lapse within six or seven ledgers, and release the
milestone whole, since a second tranche extends the same keys. The keeper of `settlement`
may let a whole threshold pass between two calls, which is as long as `EscrowKept` allows. A
slash count appears at ledger 2 at the earliest and has three ledgers then, so its keeper is
put to the test at ledger 6 only, which `archival` reaches with keepers that call every ledger
(the proofs allow them a threshold there too). In `settlement` a
vote revealed at ledger 1 lives until ledger 4, so it is archived at ledger 5 if the contract
is paused or nobody resolves the dispute until then. `early_expiry` keeps the ratio of the code, six to two.
In `abundance` an allowance outlives neither or both of the two grants, and `I128_MAX` is
3 so that mints and transfers reach it. In `sale` the amounts include ones the contracts must
refuse, the targets one that is met without any deposit and one that deposits alone cannot
meet, and the deadlines one that has passed when the sale is opened.

Deadlock is checked except in `sale`, which is over after the claim and the last ledger.

Fairness. In `settlement` (`FairTtlSpec`): ledgers keep closing and keepers keep their
cadence; an administrator who paused the contract eventually resumes it (only the
administrator can, lib.rs 676-680); what `resolve_dispute` finds archived is restored, by
anyone; and `resolve_dispute`, which anybody may call and the winner gains by calling, is
eventually called if it can be taken again and again (strong fairness, because pauses and
archival interrupt it). Jurors are never obliged to commit or reveal, nor parties to do
anything else. The clock ends with `MaxLedger`: what is restored there stays, so the entries
that the model restores one by one are live together in the end, as one `RestoreFootprintOp`
makes them at any time. `stalled` assumes the same of the clock, the administrator and
`resolve_dispute`, without archival; its counterexample is a dispute without a vote, which
archival cannot mend. In `sale`: ledgers keep closing, an archived instance is restored, and a
withdrawal that is possible again and again is made; `withdraw` asks for no signature, so
anybody can make it for the one who is paid (crowdfund lib.rs 255-257).

The six violated properties are findings. `DisputeSettles`: a dispute in which no vote was
revealed can never be resolved (`NoVotesCast`), and its escrow's funds have no other exit;
`README.md:101` promises automatic settlement. `MinorityVotersPay`: a stake is not locked
while its juror votes, so a minority voter can be slashed of nothing; `CHANGELOG.md:19-20`
says minority voters are slashed. `SlashesBurn`: a slash lowers the stake entry and moves no
token, so what lib.rs 1328-1330 calls burned stays in the contract's balance, owed to nobody
and out of reach of every call. `BumpGuarantees`: `bump_escrow_ttl` returns `now` plus 90
days whether or not it extended anything; entries with 30 days left or more are not extended
and end before the ledger lib.rs 1525-1526 calls guaranteed. (A keeper that trusts the
return value and not the threshold loses entries.) `FreshIds`: a second `initialize` restarts
the counter of "unique escrow IDs" (lib.rs 402), and the next escrow overwrites a live one.
`ExpiredIsFinal`: a transfer after the deadline turns an expired sale into a successful one,
and its donors are refused what crowdfund lib.rs 38 and 164 promise them.

One more disagreement has no property of its own: crowdfund lib.rs 162 and 164 tell donors to
send tokens to the contract's address and promise that they can withdraw them if the sale
expires. Only `deposit` books anything (lib.rs 240), so what arrives by a transfer is repaid
to nobody; `SaleWindsUp` speaks of booked deposits only.

## 4. Proofs

* `SumProofs`: what `SumFunction`, the sum of the community modules in which the properties
  on funds are stated, does to integers. It is a fold, defined by a recursive equation that
  the library chooses a solution of; that there is one comes first, then that a sum changes by
  what its one changed summand does. Both need induction, of which the library's theorems are
  out of reach; `SetInduction` states it for a *set* of numbers and follows from the
  pigeonhole principle, and `SumProofs` does its inductions over such sets.
* `TrustFlowTypeProofs`: the arithmetic, `CumulativeFeeIsFloor` (the two-part computation is
  the floor it documents), `CumulativeFeeSteps` (a tranche's fee is between 0 and the tranche)
  `SlashAmountBounded` (a slash is at most the stake) and `SlashAmountAccurate` (it is the
  floor of the rate wherever `u128` holds the product, and never more), from Euclidean
  division; and
  `TypeCorrect`, `Spec => []TypeOK`. `TypeOK` is inductive as it stands; there is one lemma
  per action, over lemmas about stores and transfers. That the released amount, fees and
  stakes stay in range uses the arithmetic.
* `TrustFlowVaultProofs`: `FeeLawCorrect`. The inductive invariant `FeeInv` adds `Registry` to
  `FeeLaw`: ids are given out in order and an id not given out has paid nothing, so a new
  escrow starts from the law; a release keeps it because the fees of its tranches telescope.
  Then `VaultInv`: a dispute is open exactly while its escrow is `Disputed` (`Lifecycle`) and
  an unsettled escrow has something left to pay (`Funded`). One lemma per call says what it
  does to the records and to the custody (`GiftKeepsCustody` for direct transfers), and the
  later modules reuse them. Also `PauseFreezesCorrect`.
* `TrustFlowCustodyProofs`: `VaultImplemented`, `CustodyCorrect` and `SolvencyCorrect`, under
  `CustodyInv`, which adds `FundsMatch` to `VaultInv`: what the calls on an escrow moved is
  what its record leaves unpaid, and nothing for an escrow that is settled or not opened. It
  is the step from the records to the money: without it a release that pays too little would
  still be a step of `EscrowVault`. Needs `Lifecycle` (or a ruling could pay an escrow that is
  not disputed) and `Funded` (`resolve_dispute` skips the transfer when nothing is left; an
  open dispute always has something left). Payments to the contract itself change the balance
  and the gifts alike, so no assumption on the parties is needed (`Accounted`,
  `AccountedStep`). `SolvencyCorrect` follows with `SumProofs`: each step moves the custody
  and one summand alike.
  `MilestoneLedgerCorrect` rests on `MilestonesOpened`: no milestone of an id not given out
  has released anything, so that a new escrow starts level, and none was opened with a
  negative amount.
* `TrustFlowBallotProofs`: `BallotIntegrityCorrect`, `NoCommitAfterRevealCorrect`,
  `RulingCorrect`, `SlashingCorrect` and `BallotImplemented`. `commit_vote` does not look at votes, so that a juror
  cannot vote and commit again needs the clock (`VotersRevealed`: a known vote means the
  commit window is over) and `Lifecycle` (a dispute is raised once, so its window never
  reopens). That the count of list entries is the count of jurors is a bijection, from
  `BallotIntegrity`. The slash count of a juror is the cardinality of the set of disputes the
  juror lost (`SlashInv`): that set gains exactly the dispute being resolved, because resolved
  disputes and their votes stand (`RulingsStand`, `ResolvedSidesStand`). `BallotImplemented`
  is the refinement of `SecretBallot`, whose sealed choice is the vote inside a commitment and,
  once revealed, the recorded one: a commit is a `Seal`, a reveal an `Open` that leaves the
  choice as it was because the hash binds, a resolution a `Close`, all else a stutter.
* `TrustFlowTtlProofs`: `EscrowKeptCorrect`, `StakeKeptCorrect` and `BallotLastsCorrect`,
  from one assumption on top of the constants' own: `KEEPER_CADENCE <= LIFETIME_THRESHOLD`, the keepers call within a
  threshold, not within a bump. No entry can be followed by itself, as a bump may be skipped;
  but whatever a call extends has a threshold left after it, and a call extends what it
  creates, so an entry that exists reaches the due ledger of its keeper (`EscrowsKept`). For
  a new escrow this needs that nothing of an unused id is stored yet (`NoEarlyEntries`); for
  the slash counts, that whoever is slashed has a stake with a keeper, because one must
  commit to vote and stake to commit (`Bystander`, `StakesKept`). The ballot has no keeper:
  a commitment is written with a threshold left, in which both windows of its dispute fit
  (`WindowAssumption`, `WindowsFit`), and a vote after the commit window closed, so it lasts
  for a threshold from there (`BallotsKept`). Only archived entries are restored, so a `Restore`
  is never of an entry that these promises speak of.
* `AbundanceTokenProofs`: `AllowanceLastsCorrect`, `NothingAfterExpiryCorrect` and
  `LedgerImplemented`. Inductive invariant `TokenInv`: types, and `ClocksAgree` (an allowance
  with something left has a host clock no earlier than its own, and its own no later than what
  the owner named). The budget of `FungibleLedger` is what `read_allowance` returns, so that
  an expiry is a `Lapse` there, and a spend a `Draw` signed by the spender that takes as much
  from the budget as from the owner, whichever entry is rewritten on the way.
  `TokenTypeCorrect` adds `SupplyHeld`, that balances add up to the supply: `burn` subtracts
  from the supply what it checks against one balance only. `SupplyHeld` follows from the
  refinement, as every step of `FungibleLedger` moves both alike.
* `CrowdfundProofs`: `SaleTypeCorrect`, `DepositsCoveredCorrect`, `SuccessIsFinalCorrect` and
  `TokensConservedCorrect`, under `SaleInv`: types, `SupplyHeld` (which is what bounds each
  balance), `ClaimNeedsSale`, `PledgesBooked` (the books are the money paid in and not paid
  back), and `DepositsCovered` itself, which is inductive with them. A
  success is final because after the deadline no donor is refunded while the target is met
  and a transfer of others can only add to the balance.

The assumptions are those named in the modules; TLC evaluates them in every run. Sums and
counts need finitely many addresses (`IsFiniteSet` of `Jurors`, `Users` and, in the sale,
`Accounts`), without any bound on how many. Every safety property the passing runs check is
proved. Only model-checked is liveness, `VotedDisputeSettles` and `SaleWindsUp`, which is out
of the provers' reach: fairness is about when an action is enabled.

## 5. Not modelled

* The older core contract (`contracts/src`). It is no member of the workspace of
  `contracts/Cargo.toml`; its `lib.rs` compiles `raise_dispute` and the types and storage
  helpers it needs, and nothing in the crate ever stores an escrow to dispute.
  `settlement.rs`, `fee.rs`, `governance.rs` and `oracle.rs` are in no module list. There is
  no program here whose behaviours a specification could have.
* Labels, reasons, events other than the two sums, getters, token metadata.
* The archival of the token contracts' own entries: in the Abundance token, balances and the
  instance, extended at every use; in the mock token, everything. While such an entry is
  archived a transfer traps and the call that makes it is undone, which removes behaviours
  and delays `VotedDisputeSettles` and `SaleWindsUp` until somebody restores it.
* Authorization (`require_auth`) beyond its result: the caller of an action is the account
  that signed, and only `AbundanceToken`, whose promise is about signatures, records it.
* The backend tests, scripts and CI: stubs of a backend that is not in the repository.

## 6. What is left

1. An abstract specification of a stake account (staked, at risk in open disputes, cut once
   for each lost one) and of a keeper's contract for one storage entry, of which `TrustFlow`
   and `TrustFlowTtl` would be refinements; what they would promise is proved property by
   property already.
2. One instance entry and one clock for the sale and the token it uses, so that the archival
   of the token's entries is part of `SaleWindsUp`.
