\* Two donors, a recipient who may also send tokens directly, and a token that is still being minted.
CONSTANTS
  fund = fund  ann = ann  ben = ben  rec = rec
  Accounts = {fund, ann, ben, rec}
  NoAdmin = noAdmin
  MintAmounts <- MintChoices
  MaxSupply = 5
  Fund = fund
  Unset = unset
  Operators = {rec}
  Recipients = {rec}
  Donors = {ann, ben, rec}
  Deadlines = {0, 2}
  Targets <- GoalChoices
  DepositAmounts <- DepositChoices
  GiftAmounts <- GiftChoices
  MaxTime = 3
SPECIFICATION FairSpec
INVARIANTS TypeOK DepositsCovered
PROPERTIES SuccessIsFinal SaleWindsUp TokensConserved
\* The sale is over once the recipient has claimed and the last ledger has closed.
CHECK_DEADLOCK FALSE
