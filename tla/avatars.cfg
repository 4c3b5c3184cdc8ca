SPECIFICATION Spec
CONSTANTS
  None = None
  Users = {u1, u2}
  Files = {f1, f2, f3}
  Reqs = {r1, r2, r3}
  MaxMishaps = 2
SYMMETRY Symmetry
INVARIANTS TypeOK AvatarsServed NoStrayFiles
CHECK_DEADLOCK FALSE
