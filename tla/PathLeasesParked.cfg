SPECIFICATION PathSpec

CONSTANTS
  Path = {p1}
  Tutor = {t1, t2}
  Admin = {}
  Mortal = {}
  Nobody = Nobody
  NoPath = NoPath
  MayPark = TRUE
  MaySwitch = FALSE

CHECK_DEADLOCK FALSE

INVARIANT
  PathExclusive
