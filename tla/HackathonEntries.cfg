SPECIFICATION Spec
CONSTANTS
  User = {u1, u2}
  Team = {t1}
  Name = {n1}
  Submission = {s1}
  Sizes = {2}
  Request = {r1, r2}
  None = None
INVARIANTS
  TeamsAreWhole
PROPERTIES
  NothingErased
SYMMETRY Symmetry
