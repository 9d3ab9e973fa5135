SPECIFICATION SpecReconciles
CONSTANTS
  Names = {n1, n2}
  Domains = {d1, d2}
  NoTunnel = NoTunnel
  Clients = {c1}
  MaxPlans = 2
  MaxRecords = 2
SYMMETRY OwnershipSymmetry
INVARIANTS
  OneRecordPerDomain
CHECK_DEADLOCK FALSE
