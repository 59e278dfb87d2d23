SPECIFICATION SupervisionSpec
CONSTANTS
  Proc = {p1,p2}
  MaxDeaths = 1
  None = None
INVARIANTS HealthIsOwn NoneOverlooked
PROPERTIES VerdictsAreTrue TeardownEnds
CHECK_DEADLOCK FALSE
