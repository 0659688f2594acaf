SPECIFICATION FairSpec
CONSTANTS
  course = course
  degree = degree
  a1 = a1
  a2 = a2
  b1 = b1
  Award = {a1, a2, b1}
  Type = {course, degree}
  TypeOf <- MCTypeOf
  Cert = {k1, k2, k3, k4}
  Request = {r1, r2}
  Capacity = 3
  Radix = 3
  None = None
INVARIANTS TypeOK SerialsInOrder OneEach RevokedOnce
PROPERTY SomeIssueSucceeds
