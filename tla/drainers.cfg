CONSTANTS
  Items = {i1}
  Workers = {w1, w2}
  NoOne = NoOne
  Free = Free
  Debris = Debris
  Texts = {t1}
  MaxRevision = 1
  MaxHeads = 1
  MaxEffects = 1
  MaxTries = 2
  AttemptCap = 3
  Considerate = TRUE
  Slow = TRUE
  MaxCloses = 1
  MaxRetries = 1
  MaxCrashes = 1
SPECIFICATION Spec
INVARIANTS PendingHasAnAttemptLeft
PROPERTIES DeliveryKeepsItsPromise
SYMMETRY AnyProcess
