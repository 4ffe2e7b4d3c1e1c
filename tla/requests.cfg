CONSTANTS
  Items = {i1}
  Workers = {w1}
  NoOne = NoOne
  Free = Free
  Debris = Debris
  Texts = {t1, t2}
  MaxRevision = 2
  MaxHeads = 2
  MaxEffects = 2
  MaxTries = 2
  AttemptCap = 3
  Considerate = TRUE
  Slow = FALSE
  MaxCloses = 0
  MaxRetries = 0
  MaxCrashes = 1
SPECIFICATION FairSpec
INVARIANTS AckedRevisionWasWorked
PROPERTIES EffectSettles RequestsKeepTheirPromise
