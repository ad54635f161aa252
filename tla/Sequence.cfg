SPECIFICATION Spec
CONSTANTS
  l1 = l1
  l2 = l2
  l3 = l3
  d1 = d1
  d2 = d2
  NoLead = NoLead
  NoItem = NoItem
  NoMessage = NoMessage
  Lead = {l1}
  Domain = {d1, d2}
  DomainOf <- OneDomain
  DailyLimit = 1
  BounceNum = 1
  BounceDen = 50
  LastStep = 4
  GoodInbox = {1, 2}
  MaxFaults = 1
  SendEnabled = TRUE
  FollowupsEnabled = TRUE
  RepliesEnabled = TRUE
  Category = {"unsubscribe", "soft_no"}
  DashActions = {}
  SetStatuses = {}
  KillSwitch = FALSE
INVARIANT AtMostOnce
INVARIANT RejectBound
INVARIANT InOrder
INVARIANT ThreadComplete
CHECK_DEADLOCK FALSE
