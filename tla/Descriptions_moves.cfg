SPECIFICATION Spec
CONSTANTS
  f = f
  g = g
  a1 = a1
  a2 = a2
  b = b
  A = A
  B = B
  T = T
  U = U
  p = p
  q = q
  short = short
  tidy = tidy
  long = long
  s = s
  l = l
  Gone = Gone
  Things = {f, g}
  Files = {a1, a2, b}
  Homes = {A, B}
  Home <- PackageOf
  Owners = {T, U}
  Projects = {p, q}
  Bodies = {short, tidy, long}
  Codes = {s, l}
  Code <- CodeOf
  Long = {l}
  Start <- AtFirst
  MaxEdits = 2
  MaxTexts = 1
INVARIANT TypeOK
INVARIANT LastWordStands
CHECK_DEADLOCK FALSE
