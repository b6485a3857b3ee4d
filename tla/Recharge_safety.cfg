SPECIFICATION Spec
SYMMETRY Symmetry
CONSTANTS
  p1 = p1
  p2 = p2
  cron = cron
  c1 = c1
  c2 = c2
  Purchases <- TwoPurchases
  NoPurchase = NoPurchase
  Old = p1
  Intro <- TwoPurchases
  Price <- OneOrTwo
  Credits <- OneOrThree
  Disputable <- OnePurchase
  Calls <- TwoCalls
  Cron = cron
INVARIANTS
  OnePending
  OneOrder
  IntroOnce
  LedgerMatches
  RefundsTakeTheirShare
PROPERTIES
  PaidStays
