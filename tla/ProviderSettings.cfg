SPECIFICATION SettingsSpec
CONSTANTS
  Tokens = {k1, k2}
  Zones = {z1, z2}
  None = None
  Admins = {a1, a2}
SYMMETRY SettingsSymmetry
INVARIANTS
  OneAccountPerOperation
  LiveFollowsSaved
PROPERTIES
  TokenOnlyByRequest
