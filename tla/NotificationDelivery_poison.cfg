\* One worker, two deliveries in one wave, of which one never can be sent.
CONSTANTS
  Worker = {w1}
  Delivery = {d1, d2}
  Token = {t1, t2}
  NoToken = NoToken
  NoOne = NoOne
  Poison = {d2}
  MaxAttempts = 1
  RetryBase = 1
  RetryMax = 2
  LeaseFloor = 1
  SendTimeout = 1
  DbTimeout = 1
  Skew = 0
  MaxLate = 0
  MaxReceived = 1
  BatchSize = 2
  Concurrency = 2
  Prompt = TRUE
  Deletes = FALSE

SPECIFICATION FairSpec
PROPERTIES DueIsSent
