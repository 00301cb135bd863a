SPECIFICATION CookiesSpec
CONSTANTS
  Tabs = {t1, t2}
  CookieNames = {"login"}
  CookieValues = {"v1"}
  StartOf <- Apart
  SetsOnce = TRUE
  MaxLines = 1
SYMMETRY Symmetry
INVARIANTS
  SignedForTheJar
PROPERTIES
  CookiesOfTheAnswer
