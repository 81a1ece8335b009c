SPECIFICATION Spec
CONSTANTS
  Pids = {p1, p2, p3}
  Texts = {plain, own}
  OwnUrls = {own}
  Args = {a1, a2}
  None = none
SYMMETRY Symmetry
CHECK_DEADLOCK FALSE
PROPERTIES
  RestoreIsIdempotent
