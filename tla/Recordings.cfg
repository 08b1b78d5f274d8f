CONSTANTS
  s1 = s1
  s2 = s2
  c1 = c1
  c2 = c2
  c3 = c3
  shared = shared
  Session <- MCSession
  Call <- MCCall
  About <- MCAbout
  Chosen <- MCChosen
  Wishes <- MCWishes
  Keep = FALSE
  MaxDeletes = 1
SPECIFICATION Spec
INVARIANTS
  RecordingsTypeOK
  Kept
  UploadedWhole
  FinallyNamed
CHECK_DEADLOCK FALSE
