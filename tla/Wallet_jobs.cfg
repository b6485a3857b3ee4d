SPECIFICATION Spec
CONSTANTS
  j1 = j1
  old = old
  p1 = p1
  k1 = k1
  Jobs <- OldAndNew
  LegacyJobs <- OneLegacy
  Purchases <- OnePurchase
  Requests <- OneRequest
  Allowances <- ChangingAllowance
  Amounts <- OneOrTwo
  MaxRevision = 1
  MaxMonth = 3
  MaxEntries = 5
INVARIANTS
  TypeOK
  LedgerChains
  FreeNeverMinted
  SettlementConserves
  KeysPostedOnce
  LedgerExplainsWallet
  DebtIsReversals
PROPERTIES
  ChargesAsAuthorized
  RolloverSparesPurchased
