SPECIFICATION Spec
CONSTANTS
  Nodes = {n1, n2, n3}
  NoNode = NoNode
  Tunnels = {t1, t2}
  DnsTunnels = {t1}
  WebCapable = {n1, n2, n3}
  EnvActive = NoNode
  EnvStandby = NoNode
  MaxGen = 5
  MaxQueue = 1
  Standbys = {NoNode}
SYMMETRY NodeSymmetry
INVARIANTS
  
  BlameIsRight
  RuntimeFollowsRouting
  ForwardRecovery
  OneSwitchPerFailure
  PhaseHasOwner
PROPERTIES
  
  ImplementsContract
