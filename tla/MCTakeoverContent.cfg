SPECIFICATION Spec
CONSTANTS
  Ops = {op1}
  Owners = {o1, o2}
  Fingerprints = {fA, fB}
  LeaseLength = 1
  RetentionWindow = 0
  MaxToken = 2
  MaxClock = 2
  MaxIncarnation = 2
  Callers = {c1, c2}
SYMMETRY Symmetry
PROPERTIES
  LeaseIsForTheRowsContent
