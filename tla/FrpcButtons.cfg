SPECIFICATION SpecLive
CONSTANTS
  Callers = {c1, c2}
  NoCaller = NoCaller
  Proxies = {p1}
  Readers = {}
  MaxGen = 3
INVARIANTS
  OneProcess
  
PROPERTIES
  OwnGeneration
  
