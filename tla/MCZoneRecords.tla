---------------------------- MODULE MCZoneRecords ----------------------------
EXTENDS ZoneRecords, TLC

ZoneSymmetry == Permutations(Zones)
=============================================================================
