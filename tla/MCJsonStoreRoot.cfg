SPECIFICATION Spec
CONSTANTS
  g = g
  r1 = r1
  u1 = u1
  u2 = u2
  p1 = p1
  p2 = p2
  w1 = w1
  Root = {g, r1}
  Global = g
  Url = {u1, u2}
  None = None
  Pref = {p1, p2}
  Worker = {w1}
  MaxFailures = 0
  MaxRestarts = 0
INVARIANTS
  ReadsOwnRoot
