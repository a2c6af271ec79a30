CONSTANTS
  p = p
  q = q
  s = s
  t = t
  Vars = {p, q}
  Types = {s, t}
  MaxEntries = 2
SPECIFICATION Spec
INVARIANT FreeDisablesOptimization
SYMMETRY Symmetry
