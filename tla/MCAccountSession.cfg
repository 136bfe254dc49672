SPECIFICATION Spec
CONSTANTS
  a0 = a0
  a1 = a1
  c1 = c1
  c2 = c2
  Account = {a0, a1}
  Legacy = a0
  None = None
  Kind = {"mybooks", "talebook"}
  Sonovel = "sonovel"
  Chain = {c1, c2}
  MaxEdits = 1
  MaxRestarts = 1
SYMMETRY ChainSymmetry
CONSTRAINT OneProbe
VIEW Observed
INVARIANTS
  TypeOK
  DirFollowsActive
  UrlOwn
  UrlCurrent
  PromiseRuns
PROPERTIES
  RecordsNotRolledBack
