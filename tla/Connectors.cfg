SPECIFICATION Spec
CONSTANTS
  Callers = {c1, c2}
  Tags = {t1, t2}
  Invalid = t0
  MaxPaths = 4
INVARIANTS
  
  OrderIsKept
  CountsAreBounded
