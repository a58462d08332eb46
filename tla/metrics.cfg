SPECIFICATION Spec
CONSTANTS
  m1 = m1
  m2 = m2
  Monitors = {m1, m2}
  MaxLookups = 3
INVARIANT CountsSinceReset
INVARIANT ReportInWindow
SYMMETRY MCSymmetry
