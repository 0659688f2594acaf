SPECIFICATION FairSpec
CONSTANTS
  User = {u1}
  Token = {}
  Link = {l1, l2}
  Request = {r1, r2}
  MaxChanges = 0
  MaxFaults = 1
  None = None
INVARIANTS
  OneLinkRow
  LinkSpentOnce
PROPERTY RequestsEnd
