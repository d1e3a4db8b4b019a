\* A milestone escrow, its dispute and two jurors, long enough for a slash count to outlive its first ledgers.
CONSTANTS
  contract = contract  alice = alice  bob = bob
  gov = gov  j1 = j1  j2 = j2
  Accounts = {contract, alice, bob, gov, j1, j2}
  Contract = contract
  None = none
  Depositors = {alice}
  Beneficiaries = {alice}
  Jurors = {j1, j2}
  Treasuries = {gov}
  Operators = {gov}
  Wardens = {}
  EscrowAmounts = {}
  MilestonePlans <- MilestoneChoices
  TrancheAmounts = {2}
  StakeAmounts = {2}
  GiftAmounts = {2}
  FeeChoices = {}
  SlashChoices = {2}
  Salts = {s1}
  InitialBalances <- Endowment
  BPS_DENOMINATOR = 4
  I128_MAX = 20
  DEFAULT_FEE_BPS = 3
  MAX_FEE_BPS = 3
  COMMIT_WINDOW_LEDGERS = 1
  REVEAL_WINDOW_LEDGERS = 1
  MaxLedger = 6
  MaxEscrows = 1
  BUMP_AMOUNT = 3
  LIFETIME_THRESHOLD = 2
  MIN_TTL = 0
  KEEPER_CADENCE = 1
SYMMETRY JurorSymmetry
SPECIFICATION TtlSpec
INVARIANTS BallotLasts StakeKept
