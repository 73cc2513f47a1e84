SPECIFICATION IngestionSpec
CONSTANTS
  panel = panel fall = fall spring = spring bscs = bscs math = math
  A = A B = B C = C a1 = a1 a2 = a2 b1 = b1 c1 = c1
  Panel = panel
  Pages = {A, B, C}
  Children <- Tree
  Slots = {a1, a2, b1, c1}
  PageOf <- SectionOf
  TermOf <- SemesterOf
  MaxTries = 2
  MaxFaults = 2
  MaxChanges = 1
INVARIANTS TableInv SuccessIsPersisted
PROPERTIES CatchesUp
