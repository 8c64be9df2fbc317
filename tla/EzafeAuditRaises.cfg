CONSTANTS
  ner = ner
  pos = pos
  e1 = e1
  e2 = e2
  s1 = s1
  None = None
  Procs = {dev}
  Dirs = {d1}
  Tasks = {ner, pos}
  EmbeddingKeys = {e1, e2}
  StrayKeys = {s1}
  Checkpoints <- CheckpointSample
  Requiring = {}
  MaxEvictions = 0
SPECIFICATION Spec
INVARIANTS
  AuditNeverRaises
