CONSTANTS
  Items = {i1}
  Workers = {w1}
  NoOne = NoOne
  Free = Free
  Debris = Debris
  Texts = {t1, t2}
  MaxRevision = 2
  MaxHeads = 1
  MaxEffects = 1
  MaxTries = 2
  AttemptCap = 3
  Considerate = FALSE
  Slow = FALSE
  MaxCloses = 0
  MaxRetries = 0
  MaxCrashes = 0
SPECIFICATION Spec
INVARIANTS AckedRevisionWasWorked
