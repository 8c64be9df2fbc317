-------------------------- MODULE PublishGateProofs --------------------------
(***************************************************************************)
(* The constraints of the approval gate for any keys: no row's owner is ever  *)
(* gone, and no deletion takes the draft from behind an applied job.  Types    *)
(* and NoOrphans are inductive together.                                      *)
(***************************************************************************)
EXTENDS PublishGate, TLAPS

IInv == TypeOK /\ NoOrphans

-----------------------------------------------------------------------------
IsTable(table, S, T) == table \in [S -> T \cup {None}]

Tables == IsTable(site, Sites, Tenants) /\ IsTable(draft, Drafts, Draft)
          /\ IsTable(approval, Approvals, Approval) /\ IsTable(job, Jobs, Job)

LEMMA AreTables == TypeOK => Tables
BY DEF TypeOK, Tables, IsTable

\* Deleting rows takes their keys and leaves every other row.
LEMMA RowsDeleted ==
  ASSUME NEW table, NEW S, NEW T, IsTable(table, S, T), NEW rows,
         NEW new, new = Without(table, rows)
  PROVE  /\ IsTable(new, S, T)
         /\ Rows(new) = Rows(table) \ rows
         /\ \A k \in Rows(new) : new[k] = table[k]
BY DEF Rows, Without, IsTable

\* What a key names is a row.
LEMMA RowTypes ==
  ASSUME TypeOK
  PROVE  /\ \A s \in Rows(site) : s \in Sites /\ site[s] \in Tenants
         /\ \A d \in Rows(draft) : d \in Drafts /\ draft[d] \in Draft
         /\ \A a \in Rows(approval) : a \in Approvals /\ approval[a] \in Approval
         /\ \A j \in Rows(job) : j \in Jobs /\ job[j] \in Job
BY DEF TypeOK, Rows

\* A deletion of sites, drafts, approvals and jobs leaves no orphan among these.
LEMMA DeletesKeep ==
  ASSUME IInv, NEW sites, NEW drafts, NEW approvals, NEW jobs,
         Deletes(sites, drafts, approvals, jobs)
  PROVE  /\ site' \in [Sites -> Tenants \cup {None}]
         /\ draft' \in [Drafts -> Draft \cup {None}]
         /\ approval' \in [Approvals -> Approval \cup {None}]
         /\ job' \in [Jobs -> Job \cup {None}]
         /\ Rows(site') = Rows(site) \ sites
         /\ \A s \in Rows(site') : site'[s] = site[s]
         /\ \A d \in Rows(draft') : draft'[d].site \in Rows(site')
         /\ \A a \in Rows(approval') : approval'[a].draft \in Rows(draft') \cup {None}
         /\ \A j \in Rows(job') :
              job'[j].site \in Rows(site') /\ job'[j].approval \in Rows(approval')
<1> DEFINE d == drafts \cup {r \in Rows(draft) : draft[r].site \in sites}
           a == approvals \cup {r \in Rows(approval) : approval[r].draft \in d}
           j == jobs \cup {r \in Rows(job) : job[r].site \in sites}
<1>1. /\ \A r \in Rows(job) \ j : job[r].approval \notin a
      /\ site' = Without(site, sites) /\ draft' = Without(draft, d)
      /\ approval' = Without(approval, a) /\ job' = Without(job, j)
  BY DEF Deletes
<1>2. TypeOK /\ NoOrphans
  BY DEF IInv
<1> HIDE DEF d, a, j
<1>3. /\ IsTable(site', Sites, Tenants)
      /\ Rows(site') = Rows(site) \ sites
      /\ \A k \in Rows(site') : site'[k] = site[k]
  BY <1>1, <1>2, RowsDeleted, AreTables DEF Tables
<1>4. /\ IsTable(draft', Drafts, Draft)
      /\ Rows(draft') = Rows(draft) \ d
      /\ \A k \in Rows(draft') : draft'[k] = draft[k]
  BY <1>1, <1>2, RowsDeleted, AreTables DEF Tables
<1>5. /\ IsTable(approval', Approvals, Approval)
      /\ Rows(approval') = Rows(approval) \ a
      /\ \A k \in Rows(approval') : approval'[k] = approval[k]
  BY <1>1, <1>2, RowsDeleted, AreTables DEF Tables
<1>6. /\ IsTable(job', Jobs, Job)
      /\ Rows(job') = Rows(job) \ j
      /\ \A k \in Rows(job') : job'[k] = job[k]
  BY <1>1, <1>2, RowsDeleted, AreTables DEF Tables
<1>7. ASSUME NEW k \in Rows(draft') PROVE draft'[k].site \in Rows(site')
  <2>1. k \in Rows(draft) /\ draft[k].site \notin sites
    BY <1>4, <1>7 DEF d
  <2> QED
    BY <1>2, <1>3, <1>4, <1>7, <2>1 DEF NoOrphans
<1>8. ASSUME NEW k \in Rows(approval') PROVE approval'[k].draft \in Rows(draft') \cup {None}
  <2>1. k \in Rows(approval) /\ approval[k].draft \notin d
    BY <1>5, <1>8 DEF a
  <2> QED
    BY <1>2, <1>4, <1>5, <1>8, <2>1 DEF NoOrphans
<1>9. ASSUME NEW k \in Rows(job')
      PROVE  job'[k].site \in Rows(site') /\ job'[k].approval \in Rows(approval')
  <2>1. k \in Rows(job) \ j /\ job[k].site \notin sites /\ job[k].approval \notin a
    BY <1>1, <1>6, <1>9 DEF j
  <2> QED
    BY <1>2, <1>3, <1>5, <1>6, <1>9, <2>1 DEF NoOrphans
<1> QED
  BY <1>3, <1>4, <1>5, <1>6, <1>7, <1>8, <1>9 DEF IsTable

LEMMA InitEstablishes == Init => IInv
<1> SUFFICES ASSUME Init PROVE IInv
  OBVIOUS
<1>1. Rows(site) = {} /\ Rows(draft) = {} /\ Rows(approval) = {} /\ Rows(job) = {}
  BY DEF Init, Rows
<1> QED
  BY <1>1 DEF Init, IInv, TypeOK, NoOrphans

LEMMA WritesKeep ==
  ASSUME IInv,
         \/ \E t \in Tenants : InsertTenant(t) \/ WriteLlmCalls(t)
         \/ \E s \in Sites : WriteSite(s)
         \/ \E d \in Drafts : WriteDraft(d)
         \/ \E a \in Approvals : WriteApproval(a)
         \/ \E j \in Jobs : WriteJob(j)
  PROVE  IInv'
<1>1. TypeOK /\ NoOrphans
  BY DEF IInv
<1>2. ASSUME NEW t \in Tenants, InsertTenant(t) \/ WriteLlmCalls(t) PROVE IInv'
  <2>1. UNCHANGED <<site, draft, approval, job>>
    BY <1>2 DEF InsertTenant, WriteLlmCalls
  <2>2. tenants' \subseteq Tenants /\ tenants \subseteq tenants' /\ billed' \subseteq tenants'
    BY <1>1, <1>2 DEF InsertTenant, WriteLlmCalls, TypeOK, NoOrphans
  <2> QED
    BY <1>1, <2>1, <2>2 DEF IInv, TypeOK, NoOrphans
<1>3. ASSUME NEW s \in Sites, WriteSite(s) PROVE IInv'
  <2>1. PICK t \in tenants : site' = [site EXCEPT ![s] = t]
    BY <1>3 DEF WriteSite
  <2>2. UNCHANGED <<tenants, billed, draft, approval, job>>
    BY <1>3 DEF WriteSite
  <2>3. /\ IsTable(site', Sites, Tenants) /\ Rows(site') = Rows(site) \cup {s}
        /\ site'[s] = t /\ \A k \in Sites \ {s} : site'[k] = site[k]
    BY <1>1, <2>1, PublishAssumption DEF TypeOK, IsTable, Rows
  <2> QED
    BY <1>1, <2>2, <2>3, RowTypes DEF IInv, TypeOK, NoOrphans, IsTable
<1>4. ASSUME NEW d \in Drafts, WriteDraft(d) PROVE IInv'
  <2>1. PICK row \in Draft : row.site \in Rows(site) /\ draft' = [draft EXCEPT ![d] = row]
    BY <1>4 DEF WriteDraft
  <2>2. UNCHANGED <<tenants, billed, site, approval, job>>
    BY <1>4 DEF WriteDraft
  <2>3. /\ IsTable(draft', Drafts, Draft) /\ Rows(draft') = Rows(draft) \cup {d}
        /\ draft'[d] = row /\ \A k \in Drafts \ {d} : draft'[k] = draft[k]
    BY <1>1, <2>1, PublishAssumption DEF TypeOK, IsTable, Rows
  <2> QED
    BY <1>1, <2>1, <2>2, <2>3, RowTypes DEF IInv, TypeOK, NoOrphans, IsTable
<1>5. ASSUME NEW a \in Approvals, WriteApproval(a) PROVE IInv'
  <2>1. PICK row \in Approval :
          row.draft \in Rows(draft) \cup {None} /\ approval' = [approval EXCEPT ![a] = row]
    BY <1>5 DEF WriteApproval
  <2>2. UNCHANGED <<tenants, billed, site, draft, job>>
    BY <1>5 DEF WriteApproval
  <2>3. /\ IsTable(approval', Approvals, Approval) /\ Rows(approval') = Rows(approval) \cup {a}
        /\ approval'[a] = row /\ \A k \in Approvals \ {a} : approval'[k] = approval[k]
    BY <1>1, <2>1, PublishAssumption DEF TypeOK, IsTable, Rows
  <2> QED
    BY <1>1, <2>1, <2>2, <2>3, RowTypes DEF IInv, TypeOK, NoOrphans, IsTable
<1>6. ASSUME NEW j \in Jobs, WriteJob(j) PROVE IInv'
  <2>1. PICK row \in Job :
          /\ row.site \in Rows(site) /\ row.approval \in Rows(approval)
          /\ job' = [job EXCEPT ![j] = row]
    BY <1>6 DEF WriteJob
  <2>2. UNCHANGED <<tenants, billed, site, draft, approval>>
    BY <1>6 DEF WriteJob
  <2>3. /\ IsTable(job', Jobs, Job) /\ Rows(job') = Rows(job) \cup {j}
        /\ job'[j] = row /\ \A k \in Jobs \ {j} : job'[k] = job[k]
    BY <1>1, <2>1, PublishAssumption DEF TypeOK, IsTable, Rows
  <2> QED
    BY <1>1, <2>1, <2>2, <2>3, RowTypes DEF IInv, TypeOK, NoOrphans, IsTable
<1> QED
  BY <1>2, <1>3, <1>4, <1>5, <1>6

\* The sites of a deleted tenant go with it, and its llm_calls forbid it.
LEMMA DeletionsKeep ==
  ASSUME IInv, DeleteTenants \/ DeleteRows
  PROVE  IInv'
<1>1. TypeOK /\ NoOrphans
  BY DEF IInv
<1>2. ASSUME DeleteTenants PROVE IInv'
  <2>0. PICK ts \in SUBSET (tenants \ billed) :
          Deletes({s \in Sites : site[s] \in ts}, {}, {}, {}) /\ tenants' = tenants \ ts
    BY <1>2 DEF DeleteTenants
  <2> DEFINE sites == {s \in Sites : site[s] \in ts}
  <2>1. Deletes(sites, {}, {}, {}) /\ tenants' = tenants \ ts /\ billed' = billed /\ ts \cap billed = {}
    BY <1>2, <2>0 DEF DeleteTenants
  <2>2. \A s \in Rows(site') : site'[s] = site[s] /\ s \in Rows(site) /\ site[s] \notin ts
    BY <1>1, <2>1, DeletesKeep, RowTypes DEF IInv
  <2>3. \A s \in Rows(site') : site'[s] \in tenants'
    BY <1>1, <2>1, <2>2 DEF NoOrphans
  <2>4. tenants' \subseteq Tenants /\ billed' \subseteq Tenants /\ billed' \subseteq tenants'
    BY <1>1, <2>1 DEF TypeOK, NoOrphans
  <2> HIDE DEF sites
  <2> QED
    BY <2>1, <2>3, <2>4, DeletesKeep DEF IInv, TypeOK, NoOrphans
<1>3. ASSUME DeleteRows PROVE IInv'
  <2>1. PICK sites, drafts, approvals, jobs : Deletes(sites, drafts, approvals, jobs)
    BY <1>3 DEF DeleteRows
  <2>2. tenants' = tenants /\ billed' = billed
    BY <1>3 DEF DeleteRows
  <2>3. \A s \in Rows(site') : site'[s] = site[s] /\ s \in Rows(site)
    BY <2>1, DeletesKeep
  <2>4. \A s \in Rows(site') : site'[s] \in tenants'
    BY <1>1, <2>2, <2>3 DEF NoOrphans
  <2> QED
    BY <1>1, <2>1, <2>2, <2>4, DeletesKeep DEF IInv, TypeOK, NoOrphans
<1> QED
  BY <1>2, <1>3

LEMMA NextPreserves == IInv /\ [Next]_vars => IInv'
<1> SUFFICES ASSUME IInv, [Next]_vars PROVE IInv'
  OBVIOUS
<1>1. CASE UNCHANGED vars
  BY <1>1 DEF IInv, TypeOK, NoOrphans, vars
<1>2. CASE Next
  BY <1>2, WritesKeep, DeletionsKeep DEF Next
<1> QED
  BY <1>1, <1>2

\* Types and the absence of orphans are kept together.
THEOREM Invariance == Spec => []IInv
<1>1. Init => IInv
  BY InitEstablishes
<1>2. IInv /\ [Next]_vars => IInv'
  BY NextPreserves
<1> QED
  BY <1>1, <1>2, PTL DEF Spec

\* Every table keeps its type.
THEOREM TypeCorrect == Spec => []TypeOK
<1>1. IInv => TypeOK
  BY DEF IInv
<1> QED
  BY <1>1, Invariance, PTL

\* No sequence of statements leaves a row whose owner is gone, nor a job without an
\* approval.
THEOREM NobodyIsOrphaned == Spec => []NoOrphans
<1>1. IInv => NoOrphans
  BY DEF IInv
<1> QED
  BY <1>1, Invariance, PTL

-----------------------------------------------------------------------------
\* A deletion that names drafts, or sites, but not the job itself.
LEMMA DraftHeld ==
  ASSUME IInv, NEW j \in Rows(job), NEW sites, NEW drafts, NEW approvals, NEW jobs,
         Deletes(sites, drafts, approvals, jobs), jobs = {} \/ (sites = {} /\ drafts = {}),
         approval[job[j].approval].draft # None,
         draft'[approval[job[j].approval].draft] = None
  PROVE  job'[j] = None /\ site'[job[j].site] = None
<1> DEFINE d == approval[job[j].approval].draft
           ds == drafts \cup {r \in Rows(draft) : draft[r].site \in sites}
           as == approvals \cup {r \in Rows(approval) : approval[r].draft \in ds}
           js == jobs \cup {r \in Rows(job) : job[r].site \in sites}
<1>1. TypeOK /\ NoOrphans
  BY DEF IInv
<1>2. /\ \A r \in Rows(job) \ js : job[r].approval \notin as
      /\ site' = Without(site, sites) /\ draft' = Without(draft, ds) /\ job' = Without(job, js)
  BY DEF Deletes
<1>3. job[j].approval \in Rows(approval) /\ d \in Rows(draft) /\ job[j].site \in Rows(site)
  BY <1>1 DEF NoOrphans
<1>4. d \in ds
  BY <1>1, <1>2, <1>3, RowTypes DEF Without, Rows, TypeOK
<1>5. job[j].approval \in as
  BY <1>3, <1>4
<1>6. j \in js
  BY <1>2, <1>5
<1>7. jobs = {}
  BY <1>4
<1>8. job[j].site \in sites
  BY <1>6, <1>7
<1> QED
  BY <1>1, <1>2, <1>3, <1>6, <1>8, RowTypes DEF Without, TypeOK

\* The draft behind an applied job is only deleted together with the job and its site.
THEOREM DraftsStayBehindJobs == Spec => DraftBehindJobStays
<1> DEFINE Stays == \A j \in Rows(job) :
              job[j].applied /\ approval[job[j].approval].draft # None =>
                LET d == approval[job[j].approval].draft
                IN  draft'[d] = None => job'[j] = None /\ site'[job[j].site] = None
<1>1. ASSUME IInv, Next PROVE Stays
  <2> SUFFICES ASSUME NEW j \in Rows(job), approval[job[j].approval].draft # None,
                      draft'[approval[job[j].approval].draft] = None
               PROVE  job'[j] = None /\ site'[job[j].site] = None
    OBVIOUS
  <2>1. TypeOK /\ NoOrphans
    BY <1>1 DEF IInv
  <2>2. approval[job[j].approval].draft \in Rows(draft)
    BY <2>1 DEF NoOrphans
  <2>3. draft' # draft
    BY <2>2 DEF Rows
  <2>4. ASSUME NEW d \in Drafts, WriteDraft(d) PROVE FALSE
    <3>1. PICK row \in Draft : draft' = [draft EXCEPT ![d] = row]
      BY <2>4 DEF WriteDraft
    <3>2. Rows(draft') = Rows(draft) \cup {d}
      BY <2>1, <3>1, PublishAssumption DEF TypeOK, Rows
    <3> QED
      BY <2>2, <3>2 DEF Rows
  <2>5. ASSUME DeleteTenants PROVE job'[j] = None /\ site'[job[j].site] = None
    <3>1. PICK ts : Deletes({s \in Sites : site[s] \in ts}, {}, {}, {})
      BY <2>5 DEF DeleteTenants
    <3> QED
      BY <1>1, <3>1, DraftHeld
  <2>6. ASSUME DeleteRows PROVE job'[j] = None /\ site'[job[j].site] = None
    <3>1. PICK sites, drafts, approvals, jobs :
            /\ Deletes(sites, drafts, approvals, jobs)
            /\ jobs = {} \/ (sites = {} /\ drafts = {})
      BY <2>6 DEF DeleteRows
    <3> QED
      BY <1>1, <3>1, DraftHeld
  <2>7. CASE \/ \E t \in Tenants : InsertTenant(t) \/ WriteLlmCalls(t)
             \/ \E s \in Sites : WriteSite(s)
             \/ \E a \in Approvals : WriteApproval(a)
             \/ \E k \in Jobs : WriteJob(k)
    BY <2>3, <2>7 DEF InsertTenant, WriteLlmCalls, WriteSite, WriteApproval, WriteJob
  <2> QED
    BY <1>1, <2>4, <2>5, <2>6, <2>7 DEF Next
<1>2. IInv /\ [Next]_vars => [Stays]_vars
  BY <1>1
<1> HIDE DEF Stays
<1>3. IInv /\ [Next]_vars => [Stays]_vars
  BY <1>2
<1>4. Spec => [][Stays]_vars
  BY <1>3, Invariance, PTL DEF Spec
<1> QED
  BY <1>4 DEF Stays, DraftBehindJobStays
=============================================================================
