SPECIFICATION Spec
CONSTANTS
  paid = paid
  free = free
  User = {u1}
  Course = {paid, free}
  Free = {free}
  Badge = {b1}
  Value = {0, 1, 2}
  Points = {0, 2}
  Project = {q1}
  CourseOf <- MCCourseOf
  Request = {r1, r2}
  None = None
SYMMETRY Symmetry
CONSTRAINT OneItem
INVARIANTS TypeOK EarnedIsUnlocked
PROPERTIES AwardsAreEarned WorkNeedsAccess WorkIsKept
