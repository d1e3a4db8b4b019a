\* Two users who mint, approve and spend over four ledgers; entries last two ledgers by themselves.
CONSTANTS
  Users = {u1, u2}
  Owners = {u1}
  Spenders = {u1, u2}
  NoAdmin = noAdmin
  Nobody = nobody
  MintAmounts <- MintChoices
  SpendAmounts <- SpendChoices
  GrantAmounts <- GrantChoices
  Expirations = {1, 3}
  Decimals = {7, 256}
  I128_MAX = 3
  U8_MAX = 255
  MIN_TEMP_TTL = 1
  MaxLedger = 3
SPECIFICATION Spec
INVARIANTS TypeOK AllowanceLasts NothingAfterExpiry
PROPERTY ImplementsLedger
