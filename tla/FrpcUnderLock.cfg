SPECIFICATION Spec
CONSTANTS
  Callers = {c1, c2}
  NoCaller = NoCaller
  Proxies = {p1}
  Readers = {r1}
  MaxGen = 2
SYMMETRY RuntimeSymmetry
INVARIANTS
  NodeVerdictIsOwn
  StoppedIsSilent
PROPERTIES
  ImplementsProcess
