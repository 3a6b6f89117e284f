SPECIFICATION Spec
CONSTANTS
  File = {proxy, runtime}
  Release = {r1, r2}
  Absent = Absent
  Foreign = Foreign
INVARIANTS
  CopiesTracked
  OutcomeTruthful
PROPERTIES
  ContentsRespected
