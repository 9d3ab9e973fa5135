SPECIFICATION FunctionsSpec
CONSTANTS
  Names = {a, b}
  Tables = {plugin}
  NodeNames = {n1, n2, n3}
  NoName = NoName
  MaxLen = 3
  Servers = {s1, s2}
  NoServer = NoServer
  Own = web
  Longer = {longer_web}
  Places = {s1, s2}
  Locals = {l1, l2}
  Domains = {d1, d2}
  Ports = {p1, p2}
  Extras = {Blank, x1}
  Blank = Blank
SYMMETRY ServerSymmetry
INVARIANTS
  OwnFaultsStay
  DoubtIsConfirmed
  DuplicatesAreSeen
  SameCandidates
  StandbyThenListOrder
  OutageIsNotAbsence
  
  SyncIsSeen
PROPERTIES
  MovesKeepTheRest
  TestIsHonest
