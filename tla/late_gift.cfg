\* A transfer after the deadline.
CONSTANTS
  fund = fund  ann = ann  ben = ben  rec = rec
  Accounts = {fund, ann, ben, rec}
  NoAdmin = noAdmin
  MintAmounts <- MintChoices
  MaxSupply = 4
  Fund = fund
  Unset = unset
  Operators = {rec}
  Recipients = {rec}
  Donors = {ann, ben, rec}
  Deadlines = {2}
  Targets = {3}
  DepositAmounts <- DepositChoices
  GiftAmounts <- GiftChoices
  MaxTime = 3
SPECIFICATION Spec
PROPERTY ExpiredIsFinal
