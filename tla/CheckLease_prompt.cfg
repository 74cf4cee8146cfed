\* Three processes and one monitor; timeouts fire when they are due.
CONSTANTS
  Scheduler = {s1, s2, s3}
  Monitor = {m1}
  Token = {t1, t2, t3, t4}
  NoToken = NoToken
  Api = Api
  NoOne = NoOne
  Paused = {}
  Timeouts = {1, 2}
  Grace = 2
  Interval = 1
  Skew = 1
  MaxLate = 0
  BatchSize = 1
  Concurrency = 1
  Prompt = TRUE
  ApiWrites = {"edit", "manual", "delete"}
SYMMETRY Symmetry
SPECIFICATION Spec
INVARIANTS NoOverlappingProbes
