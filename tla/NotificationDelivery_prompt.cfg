\* Two workers and one delivery; timeouts fire when they are due.
CONSTANTS
  Worker = {w1, w2}
  Delivery = {d1}
  Token = {t1, t2, t3}
  NoToken = NoToken
  NoOne = NoOne
  Poison = {}
  MaxAttempts = 3
  RetryBase = 1
  RetryMax = 2
  LeaseFloor = 1
  SendTimeout = 2
  DbTimeout = 5
  Skew = 1
  MaxLate = 0
  MaxReceived = 2
  BatchSize = 1
  Concurrency = 1
  Prompt = TRUE
  Deletes = TRUE
SYMMETRY Symmetry
SPECIFICATION Spec
INVARIANTS SendsDoNotOverlap DuplicatesAreExplained
