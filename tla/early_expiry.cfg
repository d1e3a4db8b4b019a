\* What bump_escrow_ttl promises, one ledger after an escrow was opened.
CONSTANTS
  contract = contract  alice = alice  bob = bob
  gov = gov  j1 = j1  j2 = j2
  Accounts = {contract, alice, bob, gov, j1}
  Contract = contract
  None = none
  Depositors = {alice}
  Beneficiaries = {bob}
  Jurors = {j1}
  Treasuries = {gov}
  Operators = {gov}
  Wardens = {}
  EscrowAmounts = {2}
  MilestonePlans <- MilestoneChoices
  TrancheAmounts = {1}
  StakeAmounts = {2}
  GiftAmounts = {}
  FeeChoices = {}
  SlashChoices = {2}
  Salts = {s1}
  InitialBalances <- Endowment
  BPS_DENOMINATOR = 4
  I128_MAX = 20
  DEFAULT_FEE_BPS = 3
  MAX_FEE_BPS = 3
  COMMIT_WINDOW_LEDGERS = 1
  REVEAL_WINDOW_LEDGERS = 1
  MaxLedger = 7
  MaxEscrows = 1
  BUMP_AMOUNT = 6
  LIFETIME_THRESHOLD = 2
  MIN_TTL = 0
  KEEPER_CADENCE = 2
SPECIFICATION TtlSpec
PROPERTY BumpGuarantees
