SPECIFICATION Spec
CONSTANTS
  User = {u1}
  Course = {c1}
  Degree = {}
  Order = {oC1}
  Request = {r1, r2}
  MaxFaults = 0
  Curriculum <- MCCurriculum
  CostType <- MCCostType
  Buyer <- MCBuyer
  ItemOf <- MCItemOf
  None = None
  u1 = u1
  u2 = u2
  c1 = c1
  c2 = c2
  d1 = d1
  d2 = d2
  oC1 = oC1
  oC2 = oC2
  oD1 = oD1
  oX = oX
INVARIANT RefundRevokesAccess
