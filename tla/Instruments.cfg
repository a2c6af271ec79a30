CONSTANTS
  p = p
  q = q
  s = s
  t = t
  Vars = {p, q}
  Types = {s, t}
  MaxEntries = 4
SPECIFICATION Spec
INVARIANTS TypeOK FirstUseChecked NestedAfterCall
SYMMETRY Symmetry
