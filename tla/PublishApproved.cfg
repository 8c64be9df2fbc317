CONSTANTS
  None = None
  Tenants = {t1}
  Sites = {s1}
  Drafts = {d1}
  Approvals = {a1}
  Jobs = {j1}
  Keys = {k1}
SPECIFICATION Spec
INVARIANTS
  AppliedWasApproved
