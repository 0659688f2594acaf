SPECIFICATION Spec
CONSTANTS
  User = {u1, u2}
  Team = {t1, t2}
  Name = {n1}
  Submission = {}
  Sizes = {1, 2}
  Request = {r1, r2}
  None = None
INVARIANTS
  TypeOK
  OneTeamEach
  TeamFits
  NamesUnique
SYMMETRY Symmetry
