CONSTANTS
  None = None
  Tenants = {t1}
  Sites = {s1, s2}
  Drafts = {d1}
  Approvals = {a1}
  Jobs = {j1, j2}
  Keys = {k1, k2}
SPECIFICATION Spec
INVARIANTS
  TypeOK
  NoOrphans
PROPERTIES
  DraftBehindJobStays
