\* One monitor; a scheduled check, two manual ones and an edit at a time.
CONSTANTS
  MaxThreshold = 3
  Monitor = {m1}
  Scheduled = {s1}
  Manual = {a1, a2}
  Editor = {e1}
  Incident = {i1, i2}
  NoOne = NoOne
SYMMETRY Symmetry
SPECIFICATION Spec
INVARIANTS RecordingInv CountersAreExact
PROPERTIES OneAtATime TransitionsAreEarned
