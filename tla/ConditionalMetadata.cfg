SPECIFICATION Spec
CONSTANTS
  m1 = m1
  m2 = m2
  r1 = r1
  r2 = r2
  r3 = r3
  Keys = {m1, r1}
  Managed = {m1}
  Values = {1, 2}
  Renamable = {1}
  Renames <- MCRenames
  MaxRevisions = 4
  MaxAppends = 1
INVARIANT OneWinner
INVARIANT OwnersStand
PROPERTY RetiredIsFinal
PROPERTY HandlesFence
PROPERTY ImplementsVersionedImages
CHECK_DEADLOCK FALSE
