----------------------------- MODULE PublishGate -----------------------------
(***************************************************************************)
(* The approval gate of db/migrations/0001_init.sql.  The services that will  *)
(* write these tables are not in the repository, so a client may issue any    *)
(* INSERT, UPDATE or DELETE, and only the schema's own constraints decide:     *)
(* NOT NULL, CHECK, UNIQUE, and foreign keys, those ON DELETE CASCADE and the  *)
(* two without.  A row is None while its key is unused.  Keywords and          *)
(* the audit log constrain nothing here.  Left out: UNIQUE (tenant_id, domain), *)
(* which only refuses more, and statements that delete from several tables.    *)
(***************************************************************************)
EXTENDS FiniteSets

CONSTANTS
  Tenants, Sites, Drafts, Approvals, Jobs,  \* primary keys
  Keys,                                     \* idempotency keys
  None

VARIABLES
  tenants,   \* the tenants' keys
  billed,    \* tenants with rows in llm_calls
  site,      \* Sites -> the tenant of the row
  draft,     \* Drafts -> [site, unique: has_unique_asset, kind: unique_asset_kind is given]
  approval,  \* Approvals -> [draft, status, reviewed: reviewer_id and reviewed_at are given]
  job        \* Jobs -> [site, approval, key, dry_run, applied: applied_at is given]

vars == <<tenants, billed, site, draft, approval, job>>

Draft == [site : Sites, unique : BOOLEAN, kind : BOOLEAN]
Status == {"pending", "approved", "rejected"}
Approval == [draft : Drafts \cup {None}, status : Status, reviewed : BOOLEAN]
\* snapshot_before and rolled_back_at are left out: no constraint relates them.
Job == [site : Sites, approval : Approvals, key : Keys, dry_run : BOOLEAN, applied : BOOLEAN]

\* A null is no value of a column, and no row.
ASSUME PublishAssumption ==
  /\ None \notin Tenants /\ None \notin Sites /\ None \notin Drafts /\ None \notin Approvals
  /\ None \notin Draft /\ None \notin Approval /\ None \notin Job

Rows(table) == {r \in DOMAIN table : table[r] # None}

TypeOK ==
  /\ tenants \subseteq Tenants /\ billed \subseteq Tenants
  /\ site \in [Sites -> Tenants \cup {None}]
  /\ draft \in [Drafts -> Draft \cup {None}]
  /\ approval \in [Approvals -> Approval \cup {None}]
  /\ job \in [Jobs -> Job \cup {None}]

Init ==
  /\ tenants = {} /\ billed = {}
  /\ site = [s \in Sites |-> None]
  /\ draft = [d \in Drafts |-> None]
  /\ approval = [a \in Approvals |-> None]
  /\ job = [j \in Jobs |-> None]

InsertTenant(t) ==
  /\ t \notin tenants
  /\ tenants' = tenants \cup {t}
  /\ UNCHANGED <<billed, site, draft, approval, job>>

\* INSERT of a tenant's first row in llm_calls, or DELETE of its last
WriteLlmCalls(t) ==
  /\ t \in tenants
  /\ billed' \in {billed \cup {t}, billed \ {t}}
  /\ UNCHANGED <<tenants, site, draft, approval, job>>

\* INSERT or UPDATE
WriteSite(s) ==
  /\ \E t \in tenants : site' = [site EXCEPT ![s] = t]
  /\ UNCHANGED <<tenants, billed, draft, approval, job>>

\* INSERT or UPDATE: unique_asset_kind_required and the foreign key of the site.
WriteDraft(d) ==
  /\ \E row \in Draft :
       /\ row.site \in Rows(site)
       /\ ~row.unique \/ row.kind
       /\ draft' = [draft EXCEPT ![d] = row]
  /\ UNCHANGED <<tenants, billed, site, approval, job>>

\* INSERT or UPDATE: reviewed_requires_reviewer; the draft may be null.
WriteApproval(a) ==
  /\ \E row \in Approval :
       /\ row.draft \in Rows(draft) \cup {None}
       /\ row.status = "pending" \/ row.reviewed
       /\ approval' = [approval EXCEPT ![a] = row]
  /\ UNCHANGED <<tenants, billed, site, draft, job>>

\* Mutant: approval_id may be null.
WriteJobUnapproved(j) ==
  /\ \E row \in Job :
       /\ row.site \in Rows(site)
       /\ \A k \in Rows(job) \ {j} : job[k].key # row.key
       /\ job' = [job EXCEPT ![j] = [row EXCEPT !.approval = None]]
  /\ UNCHANGED <<tenants, billed, site, draft, approval>>

\* INSERT or UPDATE: approval_id is NOT NULL and exists, the key is UNIQUE.
WriteJob(j) ==
  /\ \E row \in Job :
       /\ row.site \in Rows(site) /\ row.approval \in Rows(approval)
       /\ \A k \in Rows(job) \ {j} : job[k].key # row.key
       /\ job' = [job EXCEPT ![j] = row]
  /\ UNCHANGED <<tenants, billed, site, draft, approval>>

Without(table, rows) == [r \in DOMAIN table |-> IF r \in rows THEN None ELSE table[r]]

\* Mutant: the approvals' foreign key in publish_jobs is not enforced.
DeletesUnchecked(sites, drafts, approvals, jobs) ==
  LET d == drafts \cup {r \in Rows(draft) : draft[r].site \in sites}
      a == approvals \cup {r \in Rows(approval) : approval[r].draft \in d}
      j == jobs \cup {r \in Rows(job) : job[r].site \in sites}
  IN  /\ site' = Without(site, sites)
      /\ draft' = Without(draft, d)
      /\ approval' = Without(approval, a)
      /\ job' = Without(job, j)

\* Mutant: a draft's approvals are kept, ON DELETE SET NULL.
DeletesSettingNull(sites, drafts, approvals, jobs) ==
  LET d == drafts \cup {r \in Rows(draft) : draft[r].site \in sites}
      j == jobs \cup {r \in Rows(job) : job[r].site \in sites}
      bare == [r \in Approvals |-> IF approval[r] # None /\ approval[r].draft \in d
                                   THEN [approval[r] EXCEPT !.draft = None] ELSE approval[r]]
  IN  /\ \A r \in Rows(job) \ j : job[r].approval \notin approvals
      /\ site' = Without(site, sites)
      /\ draft' = Without(draft, d)
      /\ approval' = Without(bare, approvals)
      /\ job' = Without(job, j)

\* A DELETE takes along what cascades from it, and is refused when in the end a
\* job would be left without its approval.
Deletes(sites, drafts, approvals, jobs) ==
  LET d == drafts \cup {r \in Rows(draft) : draft[r].site \in sites}
      a == approvals \cup {r \in Rows(approval) : approval[r].draft \in d}
      j == jobs \cup {r \in Rows(job) : job[r].site \in sites}
  IN  /\ \A r \in Rows(job) \ j : job[r].approval \notin a
      /\ site' = Without(site, sites)
      /\ draft' = Without(draft, d)
      /\ approval' = Without(approval, a)
      /\ job' = Without(job, j)

\* DELETE of one table's rows, as many as its WHERE finds
DeleteTenants ==
  /\ \E ts \in SUBSET (tenants \ billed) :
       /\ tenants' = tenants \ ts
       /\ Deletes({s \in Sites : site[s] \in ts}, {}, {}, {})
  /\ UNCHANGED billed

DeleteRows ==
  /\ \/ \E ss \in SUBSET Rows(site) : Deletes(ss, {}, {}, {})
     \/ \E ds \in SUBSET Rows(draft) : Deletes({}, ds, {}, {})
     \/ \E as \in SUBSET Rows(approval) : Deletes({}, {}, as, {})
     \/ \E js \in SUBSET Rows(job) : Deletes({}, {}, {}, js)
  /\ UNCHANGED <<tenants, billed>>

Next ==
  \/ \E t \in Tenants : InsertTenant(t) \/ WriteLlmCalls(t)
  \/ \E s \in Sites : WriteSite(s)
  \/ \E d \in Drafts : WriteDraft(d)
  \/ \E a \in Approvals : WriteApproval(a)
  \/ \E j \in Jobs : WriteJob(j)
  \/ DeleteTenants
  \/ DeleteRows

Spec == Init /\ [][Next]_vars

(***************************************************************************)
(* Properties.                                                              *)
(***************************************************************************)

\* 0001_init.sql: there is no publish job without an approval, nor any row whose
\* owner is gone, however deletions of tenants, sites, drafts and approvals
\* cascade past each other.
NoOrphans ==
  /\ \A s \in Rows(site) : site[s] \in tenants
  /\ \A d \in Rows(draft) : draft[d].site \in Rows(site)
  /\ \A a \in Rows(approval) : approval[a].draft \in Rows(draft) \cup {None}
  /\ \A j \in Rows(job) : job[j].site \in Rows(site) /\ job[j].approval \in Rows(approval)
  /\ billed \subseteq tenants

\* No DELETE takes the draft from behind an applied job: it goes only together with
\* the job, when the site that job writes to is deleted, itself or with its tenant.
DraftBehindJobStays ==
  [][\A j \in Rows(job) :
       job[j].applied /\ approval[job[j].approval].draft # None =>
         LET d == approval[job[j].approval].draft
         IN  draft'[d] = None => job'[j] = None /\ site'[job[j].site] = None]_vars

\* approval-gate/SKILL.md:20: whoever skips the human's approval on the way to an
\* applied job is stopped by the database.
AppliedWasApproved ==
  \A j \in Rows(job) :
    job[j].applied /\ ~job[j].dry_run => approval[job[j].approval].status = "approved"
=============================================================================
