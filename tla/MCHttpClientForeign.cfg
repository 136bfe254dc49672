SPECIFICATION Spec
CONSTANTS
  g = g
  r1 = r1
  w1 = w1
  w2 = w2
  i1 = i1
  i2 = i2
  js = js
  Js = js
  Lib = {"entry", "core"}
  None = None
  Worker = {w1}
  Root = {g, r1}
  Global = g
  Item = {i1}
  MaxLogins = 1
  MaxEvents = 4
INVARIANT
  OwnSession
CHECK_DEADLOCK FALSE
