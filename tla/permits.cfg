\* Three alerts for two permits, two clients that come back for one.
CONSTANTS
  AlertId = {a1, a2, a3}
  Conn = {c1, c2}
  MaxInflight <- MCMaxInflight
  Timeout <- MCTimeout
SPECIFICATION Spec
INVARIANTS
  HeldBounded
PROPERTIES
  OutletsArePools
  RoomAgain
