SPECIFICATION ZoneSpec
CONSTANTS
  Zones = {z1, z2}
  None = None
  PageSize = 2
  MaxRecords = 4
SYMMETRY ZoneSymmetry
INVARIANTS
  CleanReportIsClean
  ListingComplete
