CONSTANTS
  zwnj = zwnj
  brand = brand
  Strata <- MCStrata
  Quota <- MCQuota
  Share = 2
  Ids = {1, 2, 3, 4, 5, 6}
  Harvests <- MCHarvests
  Shuffles <- MCShuffles
  Caps <- MCCaps
SPECIFICATION FairSpec
INVARIANTS
  TypeOK
  ShortMeansExhausted
  BatchCoversStrata
  SizeAsAsked
PROPERTIES
  Terminates
