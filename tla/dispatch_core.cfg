\* Three providers, two answers, every command line; runs may raise anything, or
\* never end, and the disk may fail.
CONSTANTS
  N = 3
  a = a  b = b
  Texts = {a, b}
  RunsRaise = TRUE
  DiskFails = TRUE
  WkbError = WkbError
  Absent = Absent
SPECIFICATION FairSpec
INVARIANTS TypeOK DenyBlocksBatch VerdictIsWhole SuccessIsAudited FirstErrorReported
PROPERTIES DispatchEnds ErrorSurfaces
CHECK_DEADLOCK FALSE
