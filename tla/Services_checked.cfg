SPECIFICATION MCSpec
CONSTANTS
  Inputs = 3
  Outputs = 4
  Floor = 1
  MaxRounds = 1
  MaxWatches = 2
  Batch = 1
  Attempts = 2
  InFlight = 0
  MaxEvents = 3
  Users <- TwoUsers
  Models <- TwoModels
  Grants <- TwoRoles
  MaxChanges = 2
  Verified <- TwoUsers
  Founder = u1
  Configured <- TheKeys
  Testing = TRUE
  AccountIds <- TwoAccounts
  DeskRequests <- ThreeRequests
  Nothing = Nothing
  Identities = {"x", "y"}
  Books = {"b"}
  Drafts = {"d1", "d2"}
  Files <- TwoFiles
  Unreadable = "?"
  MaxRows = 4
  MaxTrades = 3
  MaxVersion = 2
  MaxRequests = 3
  MaxOpen = 2
  NoteLimit = 2
  Tabs <- TwoTabs
  LastStep = 1
  MaxRevision = 2
  MaxStrays = 1
  MaxPrice = 3
  Bars = 2
  MaxPositions = 2
  Fees = {0}
  Quantity = 2
  Directions = {1}
  Entry = 2
  Exits = {1, 2, 3}
  Costs = {0}
  Moments = {0, 1}
  PerDay = 1
  Mark = 3
  Setups = {"s", "t"}
  Enough = 2
  MaxReported = 3
  MaxRevised = 1
  NoteSize <- ThreeNotes
  Usual = 1
  SampleSize = 2
  Marker = 1
  Rooms = {3, 5, 7, 20}
  Plans <- SomePlans
  Numbers = {1}
  MaxEdits = 1
  Balances = {0, 1, 5, 9}
  CallInputs = {8000, 12001}
  CallOutputs = {2000, 3001}
  Explored = {"evidence"}
  u1 = u1
  u2 = u2
  m1 = m1
  m2 = m2
  a1 = a1
  a2 = a2
  r1 = r1
  r2 = r2
  r3 = r3
  t1 = t1
  t2 = t2
INVARIANTS
  CheckedBeforeSelected
CHECK_DEADLOCK FALSE
