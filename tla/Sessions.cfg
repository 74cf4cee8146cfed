\* Two tabs, two requests, two organizations, two logins.
CONSTANTS
  Tab = {b1, b2}
  Req = {q1, q2}
  Organization = {o1, o2}
  NoOrg = NoOrg
  NoTab = NoTab
  MaxToken = 3
  MaxLogins = 1
SYMMETRY Symmetry
SPECIFICATION Spec
INVARIANTS SessionsInv SessionEndsForAReason LogoutIsFinal WaitersAreWoken
PROPERTIES StaysInOrganization
CHECK_DEADLOCK FALSE
