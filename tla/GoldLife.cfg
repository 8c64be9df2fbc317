CONSTANTS
  w1 = w1
  s1 = s1
  s2 = s2
  m1 = m1
  v1 = v1
  v2 = v2
  None = None
  Terminals = {t1}
  Texts = {s1, s2}
  Sites <- AllSites
  Kind <- Kinds
  Source <- FirstLabels
  Offered <- LifeOffers
  Template <- TemplateOf
  Rejected = {}
  Blocked = {"technolife.ir"}
  Versions = {v1, v2}
  Tokens <- TokensOf
  Labelable = {"w", "s", "t", "m"}
  Flags <- FlagsOf
  Strata <- StrataOf
  MinExamples = 2
  WikiKeep = 1
  WebKeep = 2
  EcomTarget = 2
  MaxPerCluster = 1
  Scripts = {"collect", "expand", "clean", "migrate", "remint", "ingest"}
  FlagChoices = {{}}
  MaxCommands = 4
SPECIFICATION Spec
CHECK_DEADLOCK FALSE
INVARIANTS
  TypeOK
  LabelsBelongToTokens
  OneTruthPerHalf
  ScoresAreSound
  SplitsAddUp
