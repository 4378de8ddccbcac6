SPECIFICATION Spec
CONSTANTS
  Slots = {1}
  Capacities = {1, 2}
  Roots = {r1, r2}
  Ttls = {1}
  MaxGeneration = 2
  MaxTime = 1
  MaxWal = 2
  MaxChanges = 1
  Missing = Missing
SYMMETRY SymRoots
PROPERTY NoRowSurvivesWipe
