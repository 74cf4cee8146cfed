\* Two workers and one delivery, suspended workers, deletions.
CONSTANTS
  Worker = {w1, w2}
  Delivery = {d1}
  Token = {t1, t2, t3}
  NoToken = NoToken
  NoOne = NoOne
  Poison = {}
  MaxAttempts = 3
  RetryBase = 1
  RetryMax = 2
  LeaseFloor = 1
  SendTimeout = 1
  DbTimeout = 1
  Skew = 1
  MaxLate = 0
  MaxReceived = 2
  BatchSize = 1
  Concurrency = 1
  Prompt = FALSE
  Deletes = TRUE
SYMMETRY Symmetry
SPECIFICATION Spec
INVARIANTS DeliveryInv
PROPERTIES EveryRowIsFenced ClosedStaysClosed
