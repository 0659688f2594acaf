SPECIFICATION Spec
CONSTANTS
  User = {u1}
  Course = {c2}
  Degree = {d2}
  Order = {}
  Request = {r1, r2}
  MaxFaults = 1
  Curriculum <- MCCurriculum
  CostType <- MCCostType
  Buyer <- MCBuyer
  ItemOf <- MCItemOf
  None = None
  u1 = u1
  u2 = u2
  c1 = c1
  c2 = c2
  d1 = d1
  d2 = d2
  oC1 = oC1
  oC2 = oC2
  oD1 = oD1
  oX = oX
SYMMETRY SameRequests
INVARIANT AccessIsPaidFor
