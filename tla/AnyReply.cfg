SPECIFICATION Spec
CONSTANTS
  l1 = l1
  l2 = l2
  l3 = l3
  d1 = d1
  d2 = d2
  NoLead = NoLead
  NoItem = NoItem
  NoMessage = NoMessage
  Lead = {l1}
  Domain = {d1, d2}
  DomainOf <- OneDomain
  DailyLimit = 2
  BounceNum = 1
  BounceDen = 50
  LastStep = 2
  GoodInbox = {1, 2}
  MaxFaults = 0
  SendEnabled = TRUE
  FollowupsEnabled = TRUE
  RepliesEnabled = TRUE
  Category = {"other"}
  DashActions = {}
  SetStatuses = {}
  KillSwitch = FALSE
PROPERTY AnyReplyStops
CHECK_DEADLOCK FALSE
