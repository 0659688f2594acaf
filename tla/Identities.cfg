SPECIFICATION Spec
CONSTANTS
  e1 = e1
  e2 = e2
  Email = {e1, e2}
  Account = {a1}
  Mail <- OneMail
  State = {s1}
  Request = {r1, r2}
  None = None
  Banned = {e2}
SYMMETRY Symmetry
INVARIANTS TypeOK OnePrimary WayIn LinksAreConsented StateSpentOnce
