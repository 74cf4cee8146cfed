\* Two requests at a time among three users, the default organization and another.
CONSTANTS
  User = {u1, u2, u3}
  Organization = {o0, o1}
  Default = o0
  Request = {r1, r2}
  NoOne = NoOne
SYMMETRY Symmetry
SPECIFICATION Spec
INVARIANTS AccountsInv OwnerRemains
PROPERTIES ChangesAreCovered
CHECK_DEADLOCK FALSE
