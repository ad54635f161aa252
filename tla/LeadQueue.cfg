SPECIFICATION FairLeadSpec
CONSTANTS
  r1 = r1
  r2 = r2
  r3 = r3
  e1 = e1
  e2 = e2
  d1 = d1
  d2 = d2
  NoRaw = NoRaw
  Raw = {r1, r2, r3}
  Email = {e1, e2}
  EmailOf <- TwoBusinesses
  Domain = {d1, d2}
  DomainOf <- OwnDomains
  Rejected = {}
  Batches = 2
  Producer = {1, 2}
  Consumer = {1, 2}
  SpendCap = 1
  StartSpend = {0, 1}
  MaxFaults = 1
INVARIANT LeadTypeOK
INVARIANT NobodySleepsThrough
INVARIANT OneRowPerEmail
INVARIANT SpendBound
INVARIANT FewStranded
PROPERTY KeepsPromise
PROPERTY RunEnds
