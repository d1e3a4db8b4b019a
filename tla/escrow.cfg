\* One escrow, by milestones or whole, that may pay the contract itself, a treasury that may be
\* the contract, transfers straight to its address, and a dispute before three jurors.
CONSTANTS
  contract = contract  alice = alice  bob = bob
  gov = gov  j1 = j1  j2 = j2  j3 = j3
  Accounts = {contract, alice, bob, gov, j1, j2, j3}
  Contract = contract
  None = none
  Depositors = {alice}
  Beneficiaries = {bob, contract}
  Jurors = {j1, j2, j3}
  Treasuries = {gov, contract}
  Operators = {gov}
  Wardens = {}
  EscrowAmounts = {3}
  MilestonePlans <- EscrowPlans
  TrancheAmounts = {1, 2}
  StakeAmounts = {3}
  GiftAmounts = {4}
  FeeChoices = {1, 4}
  SlashChoices = {2}
  Salts = {s1}
  InitialBalances <- EscrowEndowment
  BPS_DENOMINATOR = 4
  I128_MAX = 20
  DEFAULT_FEE_BPS = 3
  MAX_FEE_BPS = 3
  COMMIT_WINDOW_LEDGERS = 1
  REVEAL_WINDOW_LEDGERS = 1
  MaxLedger = 3
  MaxEscrows = 1
SYMMETRY JurorSymmetry
SPECIFICATION Spec
INVARIANTS Solvency FeeLaw MilestoneLedger BallotIntegrity RulingFollowsMajority
PROPERTIES ImplementsVault CustodyMoves NoCommitAfterReveal ImplementsBallot
