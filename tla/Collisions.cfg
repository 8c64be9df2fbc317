CONSTANTS
  k1 = k1
  fp = fp
  None = None
  PageIds = {1, 2, 3}
  Keywords = {k1}
  Fingerprint <- OneFingerprint
  Priorities = {1}
  PageRoles = {"commercial", "landing"}
  Matches = {0, 1}
  Links = {0}
  Words = {499, 500}
  Threshold = 500
  MaxPages = 3
SPECIFICATION Spec
INVARIANTS
  TypeOK
  DecidedByIsTheReason
  OrderIsIrrelevant
  OverrideIsNeverSilent
PROPERTIES
  AdviceStands
