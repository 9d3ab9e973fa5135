------------------------- MODULE MCProviderSettings -------------------------
EXTENDS ProviderSettings, TLC

SettingsSymmetry == Permutations(Tokens) \cup Permutations(Zones) \cup Permutations(Admins)
=============================================================================
