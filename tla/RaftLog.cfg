SPECIFICATION Spec
CONSTANTS
  Voters = {v1, v2, v3}
  MaxTerm = 3
  MaxIndex = 3
SYMMETRY Symm
INVARIANT CommittedLogsAgree
CHECK_DEADLOCK FALSE
