CONSTANTS
  k1 = k1
  p1 = p1
  p2 = p2
  Keys = {k1}
  Callers = {p1, p2}
  MaxItems = 4
SPECIFICATION Spec
SYMMETRY CallerSymmetry
INVARIANT GetReturnsNotExpired
