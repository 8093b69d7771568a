SPECIFICATION Spec
CONSTANTS
  None = None
  p1 = p1
  v1 = v1
  c1 = c1
  c2 = c2
  d1 = d1
  d2 = d2
  Proc = {p1}
  View = {v1}
  Labeller = {c1, c2}
  Deleter = {d1, d2}
  Label = {1, 2}
SYMMETRY Symmetry
INVARIANTS
  HitMeansParsed
  ReadsWhole
  LabelKept
  DeletedStaysDeleted
