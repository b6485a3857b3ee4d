SPECIFICATION FairSpec
CONSTANTS
  p1 = p1
  p2 = p2
  cron = cron
  c1 = c1
  c2 = c2
  Purchases <- OnePurchase
  NoPurchase = NoPurchase
  Old = NoPurchase
  Intro <- None
  Price <- One
  Credits <- One
  Disputable <- OnePurchase
  Calls <- CronAndOne
  Cron <- cron
PROPERTIES
  FollowsPayment
  Mirrored
