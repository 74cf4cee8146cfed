\* One process, two monitors, batches of two in waves of one, deletions. Not symmetric: liveness.
CONSTANTS
  Scheduler = {s1}
  Monitor = {m1, m2}
  Token = {t1, t2}
  NoToken = NoToken
  Api = Api
  NoOne = NoOne
  Paused = {}
  Timeouts = {1}
  Grace = 1
  Interval = 1
  Skew = 0
  MaxLate = 0
  BatchSize = 2
  Concurrency = 1
  Prompt = FALSE
  ApiWrites = {"delete"}
SPECIFICATION FairSpec
PROPERTIES CycleEnds DueIsProbed
