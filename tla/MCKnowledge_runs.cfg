SPECIFICATION Spec
CONSTANTS
  n1 = n1
  n2 = n2
  c1 = c1
  c2 = c2
  a1 = a1
  a2 = a2
  Original = Original
  Absent = Absent
  Nobody = Nobody
  Names <- MCNames
  Contents <- MCContents
  Admins <- MCAdmins
  OwnerRules <- MCOwnerRules
  Batches <- MCBatches
  MaxTouches = 4
  MaxRuns = 2
INVARIANTS
  DecisionsOutliveRuns
  RetiredHasReplacement
SYMMETRY Alike
CHECK_DEADLOCK FALSE
