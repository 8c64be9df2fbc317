CONSTANTS
  ner = ner
  pos = pos
  e1 = e1
  e2 = e2
  s1 = s1
  None = None
  Procs = {dev, prod}
  Dirs = {d1, d2}
  Tasks = {ner, pos}
  EmbeddingKeys = {e1, e2}
  StrayKeys = {s1}
  Checkpoints <- GoodOrStray
  Requiring = {prod}
  MaxEvictions = 1
SPECIFICATION FairSpec
INVARIANTS
  TypeOK
  AnswersAreVerified
  MarkerVouched
  MarkerMeansWhole
  ShimIsTotal
PROPERTIES
  PipelineChangesWhole
  KeepsThePromise
  CallsEnd
