SPECIFICATION Spec
CONSTANTS
  User = {u1}
  Token = {t1, t2}
  Link = {l1}
  Request = {r1, r2}
  MaxChanges = 1
  MaxFaults = 1
  None = None
INVARIANTS
  TypeOK
  OneTokenPerLogin
  RevocationReaches
SYMMETRY Symmetry
