SPECIFICATION Spec
CONSTANTS
  l1 = l1
  l2 = l2
  l3 = l3
  d1 = d1
  d2 = d2
  NoLead = NoLead
  NoItem = NoItem
  NoMessage = NoMessage
  Lead = {l1, l2, l3}
  Domain = {d1, d2}
  DomainOf <- OneDomain
  DailyLimit = 1
  BounceNum = 1
  BounceDen = 1
  LastStep = 1
  GoodInbox = {1, 2}
  MaxFaults = 2
  SendEnabled = TRUE
  FollowupsEnabled = TRUE
  RepliesEnabled = FALSE
  Category = {}
  DashActions = {}
  SetStatuses = {}
  KillSwitch = FALSE
INVARIANT DailyLimitBound
INVARIANT BouncedStaysOut
SYMMETRY SameDomainSymmetry
CHECK_DEADLOCK FALSE
