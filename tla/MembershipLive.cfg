SPECIFICATION FairMemberSpec
CONSTANTS
  s1 = s1
  s2 = s2
  j1 = j1
  c1 = c1
  c2 = c2
  c3 = c3
  Servers = {s1, s2}
  Joiners = {j1}
  Calls = {c1}
  Kind <- OneKind
  Target <- OneTarget
  None = None
  MaxLog = 8
  MaxElections = 1
INVARIANT UnreachableNeverVotes
PROPERTY JoinsEnd
CHECK_DEADLOCK FALSE
