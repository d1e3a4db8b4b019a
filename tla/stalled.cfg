\* A dispute nobody votes on, under fairness.
CONSTANTS
  contract = contract  alice = alice  bob = bob
  gov = gov  j1 = j1  j2 = j2  j3 = j3
  Accounts = {contract, alice, bob, gov, j1}
  Contract = contract
  None = none
  Depositors = {alice}
  Beneficiaries = {bob}
  Jurors = {j1}
  Treasuries = {gov}
  Operators = {gov}
  Wardens = {}
  EscrowAmounts = {2}
  MilestonePlans <- NoPlans
  TrancheAmounts = {}
  StakeAmounts = {3}
  GiftAmounts = {}
  FeeChoices = {}
  SlashChoices = {2}
  Salts = {s1}
  InitialBalances <- BallotEndowment
  BPS_DENOMINATOR = 4
  I128_MAX = 20
  DEFAULT_FEE_BPS = 3
  MAX_FEE_BPS = 3
  COMMIT_WINDOW_LEDGERS = 1
  REVEAL_WINDOW_LEDGERS = 1
  MaxLedger = 3
  MaxEscrows = 1
SPECIFICATION FairSpec
PROPERTY DisputeSettles
