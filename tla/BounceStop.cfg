SPECIFICATION Spec
CONSTANTS
  l1 = l1
  l2 = l2
  l3 = l3
  d1 = d1
  d2 = d2
  NoLead = NoLead
  NoItem = NoItem
  NoMessage = NoMessage
  Lead = {l1, l2}
  Domain = {d1, d2}
  DomainOf <- TwoDomains
  DailyLimit = 2
  BounceNum = 1
  BounceDen = 50
  LastStep = 1
  GoodInbox = {1, 2}
  MaxFaults = 0
  SendEnabled = TRUE
  FollowupsEnabled = FALSE
  RepliesEnabled = FALSE
  Category = {}
  DashActions = {}
  SetStatuses = {}
  KillSwitch = FALSE
PROPERTY BounceHardStop
CHECK_DEADLOCK FALSE
