\* Two requests at a time in every part, of two organizations; histories of up to eight results;
\* two cleanups of one row at a time; two changes of status during a visit.
CONSTANTS
  o1 = o1
  o2 = o2
  Organization = {o1, o2}
  User = {u1}
  Request = {q1, q2}
  Monitor = {m1}
  Destination = {d1}
  Key = {k1}
  Window = {w1}
  Home <- MCHome
  Parent <- MCParent
  NoOne = NoOne
  Page = {p1, p2}
  Listed = {m1, m2}
  Slug = {s1}
  PageHome <- MCPageHome
  MaxChanges = 2
  MaxThreshold = 3
  MaxResults = 8
  Cleaner = {c1, c2}
  Days = 2
  BatchSize = 1
  MaxTime = 5
SYMMETRY Symmetry
SPECIFICATION PartsSpec
INVARIANTS ApiInv KeysTakeTurns PagesInv AnswersAreTrue StatusFollowsHistory StoredIsAccepted
PROPERTIES ChangesStayInside AnswersAreComplete UndoneWasConcurrent
CHECK_DEADLOCK FALSE
