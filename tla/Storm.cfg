SPECIFICATION SpecStorm
CONSTANTS
  Nodes = {n1, n2}
  NoNode = NoNode
  Tunnels = {t1, t2}
  DnsTunnels = {t1}
  WebCapable = {n1, n2}
  EnvActive = NoNode
  EnvStandby = NoNode
  MaxGen = 2
  MaxQueue = 1
  Standbys = {NoNode}
SYMMETRY NodeSymmetry
INVARIANTS
  CommittedAgrees
PROPERTIES
  NeverPromoteQuarantined
  DnsAfterRuntime
  IdleMeansConverged
