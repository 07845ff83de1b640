SPECIFICATION Spec
CONSTANTS
  None = None
  Requests = {r1, r2, r3, r4, r5}
  Lo = 1
  Hi = 2
  Radix = 4
  MaxInt = 8
SYMMETRY Symmetric
INVARIANTS
  RegTypeOK
  DrawEnds
  PromiseKept
PROPERTIES
  RecordsAreFinal
  KeepsAccounts
