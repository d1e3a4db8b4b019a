\* initialize called again, by the same administrator, while an escrow is open.
CONSTANTS
  contract = contract  alice = alice  bob = bob
  gov = gov
  Accounts = {contract, alice, bob, gov}
  Contract = contract
  None = none
  Depositors = {alice}
  Beneficiaries = {bob}
  Jurors = {bob}
  Treasuries = {gov}
  Operators = {gov}
  Wardens = {}
  EscrowAmounts = {2}
  MilestonePlans <- NoPlans
  TrancheAmounts = {}
  StakeAmounts = {3}
  GiftAmounts = {}
  FeeChoices = {}
  SlashChoices = {2}
  Salts = {s1}
  InitialBalances <- Endowment
  BPS_DENOMINATOR = 4
  I128_MAX = 20
  DEFAULT_FEE_BPS = 3
  MAX_FEE_BPS = 3
  COMMIT_WINDOW_LEDGERS = 1
  REVEAL_WINDOW_LEDGERS = 1
  MaxLedger = 3
  MaxEscrows = 2
SPECIFICATION ReinitSpec
PROPERTY FreshIds
