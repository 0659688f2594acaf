SPECIFICATION Spec
CONSTANTS
  User = {u1, u2, u3}
  Role = {"admin", "student"}
  Request = {r1, r2}
  None = None
SYMMETRY Symmetry
INVARIANT TypeOK
PROPERTIES LastAdminStays RolesOnRequest
