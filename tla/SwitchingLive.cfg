SPECIFICATION SpecLive
CONSTANTS
  Nodes = {n1, n2}
  NoNode = NoNode
  Tunnels = {t1}
  DnsTunnels = {t1}
  WebCapable = {n1, n2}
  EnvActive = n1
  EnvStandby = NoNode
  MaxGen = 3
  MaxQueue = 1
  Standbys = {NoNode}
PROPERTIES
  LockIsReleased
  FaultEndsGeneration
