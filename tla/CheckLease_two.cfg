\* Two processes, two monitors in waves of up to two, deletions, suspended processes.
CONSTANTS
  Scheduler = {s1, s2}
  Monitor = {m1, m2}
  Token = {t1, t2, t3}
  NoToken = NoToken
  Api = Api
  NoOne = NoOne
  Paused = {}
  Timeouts = {1}
  Grace = 1
  Interval = 1
  Skew = 0
  MaxLate = 0
  BatchSize = 2
  Concurrency = 2
  Prompt = FALSE
  ApiWrites = {"delete"}
SYMMETRY Symmetry
SPECIFICATION Spec
INVARIANTS LeaseInv
PROPERTIES EveryRowIsFenced LeaseLeftOnlyByOwner
