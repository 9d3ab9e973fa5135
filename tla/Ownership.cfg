SPECIFICATION Spec
CONSTANTS
  Names = {n1}
  Domains = {d1, d2}
  NoTunnel = NoTunnel
  Clients = {c1}
  MaxPlans = 2
  MaxRecords = 2
SYMMETRY OwnershipSymmetry
PROPERTIES
  DeleteKeepsOwner
  EditSparesPlanned
  PageSparesManaged
