SPECIFICATION Spec
CONSTANTS
  None = None
  p1 = p1
  p2 = p2
  Proc = {p1, p2}
  View = {}
  Labeller = {}
  Deleter = {}
  Label = {}
INVARIANTS HitMeansParsed
