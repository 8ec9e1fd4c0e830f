\* Two providers and a good disk: is every attempt that resolved in the log?
CONSTANTS
  N = 2
  a = a  b = b
  Texts = {a, b}
  RunsRaise = FALSE
  DiskFails = FALSE
  WkbError = WkbError
  Absent = Absent
SPECIFICATION Spec
INVARIANTS AuditSurvivesRaise
SYMMETRY Symmetry
CHECK_DEADLOCK FALSE
