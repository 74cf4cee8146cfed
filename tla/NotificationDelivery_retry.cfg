\* One worker, one delivery, retries to the end. Not symmetric: liveness.
CONSTANTS
  Worker = {w1}
  Delivery = {d1}
  Token = {t1, t2}
  NoToken = NoToken
  NoOne = NoOne
  Poison = {}
  MaxAttempts = 2
  RetryBase = 1
  RetryMax = 2
  LeaseFloor = 1
  SendTimeout = 1
  DbTimeout = 1
  Skew = 0
  MaxLate = 0
  MaxReceived = 2
  BatchSize = 1
  Concurrency = 1
  Prompt = TRUE
  Deletes = TRUE

SPECIFICATION RetrySpec
PROPERTIES DeliveryEnds
