CONSTANTS
  w1 = w1
  s1 = s1
  s2 = s2
  m1 = m1
  v1 = v1
  v2 = v2
  None = None
  Terminals = {t1}
  Texts = {s1, s2}
  Sites <- AllSites
  Kind <- Kinds
  Source <- FirstLabels
  Offered <- ShopOffers
  Template <- TemplateOf
  Rejected = {}
  Blocked = {}
  Versions = {v1}
  Tokens <- TokensOf
  Labelable = {"w", "s", "t", "m"}
  Flags <- FlagsOf
  Strata <- StrataOf
  MinExamples = 1
  WikiKeep = 1
  WebKeep = 2
  EcomTarget = 2
  MaxPerCluster = 1
  Scripts = {"clean", "ingest"}
  FlagChoices = {{}}
  MaxCommands = 4
SPECIFICATION Spec
CHECK_DEADLOCK FALSE
PROPERTIES
  IngestKeepsOtherRows
