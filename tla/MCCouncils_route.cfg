\* A call is routed while two admin requests and single statements change the
\* tables between its three queries.
CONSTANTS
  Councils = {c1, c2}
  Channels = {h1, h2}
  Pps = {p1}
  Countries = {us, fr}
  Assets = {xlm}
  Admins = {o1, o2}
  Calls = {q1}
  None = None
  c1 = c1
  c2 = c2
  h1 = h1
  p1 = p1
  us = us
  fr = fr
  xlm = xlm
  Stored <- Databases
  Bodies <- AdminBodies
  Asked <- CallInputs
SPECIFICATION Spec
SYMMETRY Alike
INVARIANTS
  TypeOK
  NoOrphans
  ServedAtOnce
  RouteOfOnePiece
  ServableIsNotRefused
CHECK_DEADLOCK FALSE
