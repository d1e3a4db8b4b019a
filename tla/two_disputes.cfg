\* Two disputes over the same two jurors, one of them the beneficiary; the product of stake and
\* slash rate fits neither width at first (15 * 3 > 33), then only u128 (6 * 3 > 16).
CONSTANTS
  contract = contract  alice = alice  bob = bob
  gov = gov  j1 = j1  j2 = j2  j3 = j3
  Accounts = {contract, alice, bob, gov, j1}
  Contract = contract
  None = none
  Depositors = {alice}
  Beneficiaries = {bob}
  Jurors = {j1, bob}
  Treasuries = {gov}
  Operators = {gov}
  Wardens = {}
  EscrowAmounts = {}
  MilestonePlans <- PairPlans
  TrancheAmounts = {1}
  StakeAmounts = {15}
  GiftAmounts = {}
  FeeChoices = {}
  SlashChoices = {3}
  Salts = {s1}
  InitialBalances <- PairEndowment
  BPS_DENOMINATOR = 4
  I128_MAX = 16
  DEFAULT_FEE_BPS = 3
  MAX_FEE_BPS = 3
  COMMIT_WINDOW_LEDGERS = 1
  REVEAL_WINDOW_LEDGERS = 1
  MaxLedger = 3
  MaxEscrows = 2
SPECIFICATION Spec
INVARIANTS TypeOK Solvency SlashedOncePerLostDispute
PROPERTY CustodyMoves
