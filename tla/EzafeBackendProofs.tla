------------------------- MODULE EzafeBackendProofs -------------------------
(***************************************************************************)
(* What EzafeBackend guarantees for any set of processes, directories and      *)
(* checkpoints.  The invariant IInv follows a call through _get_pipeline: from  *)
(* the step on at which a pipeline object exists it is one of the directory the *)
(* call asked for; past the shim it has adapters; past the smoke test it is     *)
(* verified and the directory vouched for.                                     *)
(***************************************************************************)
EXTENDS EzafeBackend, FiniteSetTheorems, TLAPS

Building(p) ==
  /\ pc[p] # "idle" => resolved[p] \in Dirs
  /\ pc[p] \in {"shim", "smoke", "mark", "assert", "publish"} =>
       loading[p] \in Pipeline /\ loading[p].dir = resolved[p]
  /\ pc[p] \in {"smoke", "mark", "assert", "publish"} => loading[p].keys # {}
  /\ pc[p] \in {"mark", "assert", "publish"} => loading[p].smoked /\ resolved[p] \in vouched

InService(p) ==
  pipelineDir[p] # None =>
    /\ pipeline[p] \in Pipeline
    /\ Verified(pipeline[p])
    /\ pipeline[p].dir = pipelineDir[p]

IInv ==
  /\ TypeOK
  /\ \A p \in Procs : Building(p)
  /\ \A p \in Procs : InService(p)
  /\ MarkerVouched
  /\ AnswersAreVerified

-----------------------------------------------------------------------------
\* The shim transfers keys of the embedding only.
LEMMA ShimIntoEmbedding ==
  ASSUME NEW c PROVE ShimTransfers(c) \subseteq EmbeddingKeys
BY DEF ShimTransfers, map_task_adapters_to_embedding

\* A call that ends leaves well-typed variables.
LEMMA AnsweredType ==
  ASSUME TypeOK, NEW p \in Procs, NEW op \in Ops, NEW d \in Dirs \cup {None},
         NEW outcome \in Outcomes, NEW by \in Pipeline \cup {None},
         Answered(p, op, d, outcome, by)
  PROVE  /\ pc' \in [Procs -> Steps]
         /\ resolved' \in [Procs -> Dirs \cup {None}]
         /\ loading' \in [Procs -> Pipeline \cup {None}]
         /\ answer' \in Answer \cup {None}
<1>1. [proc |-> p, op |-> op, dir |-> d, outcome |-> outcome, by |-> by] \in Answer
  BY DEF Answer
<1>2. "idle" \in Steps
  BY DEF Steps
<1> QED
  BY <1>1, <1>2 DEF Answered, TypeOK

\* A refusal is one of the outcomes.
LEMMA RefusedType == \A op : Refused(op) \in Outcomes
BY DEF Refused, Outcomes

LEMMA InitEstablishes == Init => IInv
<1> SUFFICES ASSUME Init PROVE IInv
  OBVIOUS
<1>1. TypeOK
  BY EzafeAssumption DEF Init, TypeOK, Steps
<1>2. (\A p \in Procs : Building(p)) /\ (\A p \in Procs : InService(p))
  BY DEF Init, Building, InService
<1>3. MarkerVouched /\ AnswersAreVerified
  BY DEF Init, MarkerVouched, AnswersAreVerified
<1> QED
  BY <1>1, <1>2, <1>3 DEF IInv

\* A call that ends without having said anything about the text, and without
\* having marked a directory that is not vouched for.
LEMMA SilentEndOnDisk ==
  ASSUME IInv, NEW p \in Procs, NEW op \in Ops, NEW d \in Dirs \cup {None},
         NEW outcome \in Outcomes \ {"marks", "pass", "finding"},
         Answered(p, op, d, outcome, None),
         disk' \in [Dirs -> CacheDir], \A e \in Dirs : disk'[e].marker => e \in vouched,
         UNCHANGED <<pipeline, pipelineDir, evictions, vouched>>
  PROVE  IInv'
<1>1. TypeOK'
  BY AnsweredType DEF IInv, TypeOK
<1>2. ASSUME NEW q \in Procs PROVE Building(q)'
  <2>1. pc'[q] = IF q = p THEN "idle" ELSE pc[q]
    BY DEF IInv, TypeOK, Answered
  <2>2. q # p => resolved'[q] = resolved[q] /\ loading'[q] = loading[q]
    BY DEF IInv, TypeOK, Answered
  <2> QED
    BY <2>1, <2>2 DEF IInv, Building
<1>3. ASSUME NEW q \in Procs PROVE InService(q)'
  BY DEF IInv, InService, Verified
<1>4. MarkerVouched'
  BY DEF IInv, MarkerVouched
<1>5. AnswersAreVerified'
  BY DEF Answered, AnswersAreVerified
<1> QED
  BY <1>1, <1>2, <1>3, <1>4, <1>5 DEF IInv

LEMMA SilentEnd ==
  ASSUME IInv, NEW p \in Procs, NEW op \in Ops, NEW d \in Dirs \cup {None},
         NEW outcome \in Outcomes \ {"marks", "pass", "finding"},
         Answered(p, op, d, outcome, None),
         UNCHANGED <<disk, pipeline, pipelineDir, evictions, vouched>>
  PROVE  IInv'
<1>1. disk' \in [Dirs -> CacheDir] /\ \A e \in Dirs : disk'[e].marker => e \in vouched
  BY DEF IInv, TypeOK, MarkerVouched
<1> QED
  BY <1>1, SilentEndOnDisk

\* A call that is answered by a pipeline which is verified and of its directory.
LEMMA VerifiedEnd ==
  ASSUME IInv, NEW p \in Procs, NEW op \in Ops, NEW d \in Dirs, NEW pl \in Pipeline,
         Served(p, op, d, pl), Verified(pl), pl.dir = d,
         \/ UNCHANGED <<pipeline, pipelineDir>>
         \/ /\ pipeline' = [pipeline EXCEPT ![p] = pl]
            /\ pipelineDir' = [pipelineDir EXCEPT ![p] = d],
         UNCHANGED <<disk, evictions, vouched>>
  PROVE  IInv'
<1>1. PICK outcome \in Outcomes : Answered(p, op, d, outcome, pl)
  BY DEF Served, Outcomes, Refused
<1>2. pl # None
  BY EzafeAssumption
<1>3. TypeOK'
  BY <1>1, AnsweredType DEF IInv, TypeOK
<1>4. ASSUME NEW q \in Procs PROVE Building(q)'
  <2>1. pc'[q] = IF q = p THEN "idle" ELSE pc[q]
    BY <1>1 DEF IInv, TypeOK, Answered
  <2>2. q # p => resolved'[q] = resolved[q] /\ loading'[q] = loading[q]
    BY <1>1 DEF IInv, TypeOK, Answered
  <2> QED
    BY <2>1, <2>2 DEF IInv, Building
<1>5. ASSUME NEW q \in Procs PROVE InService(q)'
  BY DEF IInv, TypeOK, InService, Verified
<1>6. MarkerVouched'
  BY DEF IInv, MarkerVouched
<1>7. AnswersAreVerified'
  BY <1>1, <1>2 DEF Answered, AnswersAreVerified, Verified
<1> QED
  BY <1>3, <1>4, <1>5, <1>6, <1>7 DEF IInv

\* A step that touches the directories and no process, and marks only a directory
\* that is vouched for.
LEMMA DiskStep ==
  ASSUME IInv, disk' \in [Dirs -> CacheDir], \A d \in Dirs : disk'[d].marker => d \in vouched,
         evictions' \in 0..MaxEvictions,
         UNCHANGED <<pc, resolved, loading, pipeline, pipelineDir, vouched>>, answer' = None
  PROVE  IInv'
<1>1. TypeOK'
  BY DEF IInv, TypeOK
<1>2. (\A p \in Procs : Building(p))' /\ (\A p \in Procs : InService(p))'
  BY DEF IInv, Building, InService, Verified
<1>3. MarkerVouched' /\ AnswersAreVerified'
  BY DEF IInv, MarkerVouched, AnswersAreVerified, Verified
<1> QED
  BY <1>1, <1>2, <1>3 DEF IInv

\* A step of a call that builds on: only its own pc, loading and, at the smoke
\* test, what is vouched for may change.
LEMMA BuildStep ==
  ASSUME IInv, NEW p \in Procs, NEW step \in Steps, Goto(p, step),
         loading' \in [Procs -> Pipeline \cup {None}],
         \A q \in Procs \ {p} : loading'[q] = loading[q],
         vouched \subseteq vouched', vouched' \subseteq Dirs,
         UNCHANGED <<disk, pipeline, pipelineDir, evictions>>,
         Building(p)'
  PROVE  IInv'
<1>1. TypeOK'
  BY DEF IInv, TypeOK, Goto
<1>2. ASSUME NEW q \in Procs PROVE Building(q)'
  <2>1. CASE q = p
    BY <2>1
  <2>2. CASE q # p
    BY <2>2 DEF IInv, TypeOK, Goto, Building
  <2> QED
    BY <2>1, <2>2
<1>3. (\A q \in Procs : InService(q))'
  BY DEF IInv, InService, Verified
<1>4. MarkerVouched' /\ AnswersAreVerified'
  BY DEF IInv, MarkerVouched, AnswersAreVerified, Verified, Goto
<1> QED
  BY <1>1, <1>2, <1>3, <1>4 DEF IInv

-----------------------------------------------------------------------------
\* The steps of a call.
LEMMA CallPreserves ==
  ASSUME IInv, NEW p \in Procs, Call(p)
  PROVE  IInv'
<1>1. CASE CallBlank(p)
  BY <1>1, SilentEnd DEF CallBlank, Outcomes
<1>2. CASE AuditDisabled(p)
  BY <1>2, SilentEnd DEF AuditDisabled, Outcomes, Ops
<1>3. CASE CallWithoutDir(p)
  BY <1>3, SilentEnd DEF CallWithoutDir, Refused, Outcomes
<1>4. ASSUME NEW d \in Dirs, CallReusing(p, d)
      PROVE  IInv'
  <2>1. pipeline[p] \in Pipeline /\ Verified(pipeline[p]) /\ pipeline[p].dir = d
    BY <1>4, EzafeAssumption DEF IInv, InService, CallReusing, Reusable
  <2>2. PICK op \in Ops : Served(p, op, d, pipeline[p])
    BY <1>4 DEF CallReusing
  <2> QED
    BY <1>4, <2>1, <2>2, VerifiedEnd DEF CallReusing
<1>5. ASSUME NEW d \in Dirs, CallNotReady(p, d)
      PROVE  IInv'
  BY <1>5, SilentEnd DEF CallNotReady, Refused, Outcomes
<1>6. ASSUME NEW d \in Dirs, CallLoading(p, d)
      PROVE  IInv'
  <2>1. TypeOK'
    BY <1>6 DEF IInv, TypeOK, CallLoading, Steps
  <2>2. (\A q \in Procs : Building(q))'
    BY <1>6 DEF IInv, TypeOK, CallLoading, Building
  <2>3. (\A q \in Procs : InService(q))' /\ MarkerVouched'
    BY <1>6 DEF IInv, CallLoading, InService, Verified, MarkerVouched
  <2>4. AnswersAreVerified'
    BY <1>6 DEF CallLoading, AnswersAreVerified
  <2> QED
    BY <2>1, <2>2, <2>3, <2>4 DEF IInv
<1> QED
  BY <1>1, <1>2, <1>3, <1>4, <1>5, <1>6 DEF Call

\* A call that has begun may end in a refusal or an exception at every step.
LEMMA FailPreserves ==
  ASSUME IInv, NEW p \in Procs, pc[p] # "idle", Refuse(p) \/ Raise(p),
         UNCHANGED <<disk, pipeline, pipelineDir, evictions, vouched>>
  PROVE  IInv'
<1>1. resolved[p] \in Dirs
  BY DEF IInv, Building
<1>2. CASE Refuse(p)
  BY <1>1, <1>2, SilentEnd DEF Refuse, Refused, Outcomes
<1>3. CASE Raise(p)
  BY <1>1, <1>3, SilentEnd DEF Raise, Outcomes
<1> QED
  BY <1>2, <1>3

LEMMA StepPreserves ==
  ASSUME IInv, NEW p \in Procs, Step(p)
  PROVE  IInv'
<1>1. CASE Import(p)
  <2>1. CASE Goto(p, "load") /\ UNCHANGED loading
    <3>1. Building(p)'
      BY <1>1, <2>1 DEF IInv, TypeOK, Import, Goto, Building
    <3> QED
      BY <1>1, <2>1, <3>1, BuildStep DEF IInv, TypeOK, Import, Steps
  <2>2. CASE Refuse(p)
    BY <1>1, <2>2, FailPreserves DEF Import, Refused
  <2> QED
    BY <1>1, <2>1, <2>2 DEF Import
<1>2. CASE Download(p)
  <2>1. resolved[p] \in Dirs
    BY <1>2 DEF IInv, Download, Building
  <2>2. disk' \in [Dirs -> CacheDir] /\ \A d \in Dirs : disk'[d].marker = disk[d].marker
    <3>1. PICK f \in FileStates : disk' = [disk EXCEPT ![resolved[p]].exists = TRUE, ![resolved[p]].files = f]
      BY <1>2 DEF Download, FileStates
    <3>2. disk \in [Dirs -> CacheDir]
      BY DEF IInv, TypeOK
    <3>3. disk' \in [Dirs -> CacheDir]
      BY <2>1, <3>1, <3>2 DEF CacheDir
    <3>4. \A d \in Dirs : disk'[d].marker = disk[d].marker
      BY <2>1, <3>1, <3>2 DEF CacheDir
    <3> QED
      BY <3>3, <3>4
  <2> QED
    BY <1>2, <2>2, DiskStep DEF IInv, TypeOK, MarkerVouched, Download
<1>3. CASE Load(p)
  <2>1. resolved[p] \in Dirs
    BY <1>3 DEF IInv, Load, Building
  <2>2. [dir |-> resolved[p], keys |-> {}, smoked |-> FALSE] \in Pipeline
    BY <2>1 DEF Pipeline
  <2>3. Building(p)'
    BY <1>3, <2>1, <2>2 DEF IInv, TypeOK, Load, Goto, Building
  <2> QED
    BY <1>3, <2>2, <2>3, BuildStep DEF IInv, TypeOK, Load, Steps
<1>4. CASE LoadRaises(p)
  BY <1>4, FailPreserves DEF LoadRaises, Refused
<1>5. CASE apply_kasreh_embedding_adapter_shim(p)
  <2> DEFINE keys == ShimTransfers(disk[resolved[p]].ckpt)
  <2>1. resolved[p] \in Dirs /\ loading[p] \in Pipeline /\ loading[p].dir = resolved[p]
    BY <1>5 DEF IInv, apply_kasreh_embedding_adapter_shim, Building
  <2>2. CASE keys # {} /\ loading' = [loading EXCEPT ![p].keys = keys] /\ Goto(p, "smoke")
    <3>1. keys \subseteq EmbeddingKeys \cup StrayKeys
      BY ShimIntoEmbedding
    <3>2. loading' \in [Procs -> Pipeline \cup {None}] /\ loading'[p] \in Pipeline
          /\ loading'[p].dir = resolved[p] /\ loading'[p].keys = keys
      <4> HIDE DEF keys
      <4> QED
        BY <2>1, <2>2, <3>1 DEF IInv, TypeOK, Pipeline
    <3>3. Building(p)'
      BY <1>5, <2>1, <2>2, <3>2 DEF IInv, TypeOK, Goto, Building
    <3> QED
      BY <1>5, <2>2, <3>2, <3>3, BuildStep
         DEF IInv, TypeOK, apply_kasreh_embedding_adapter_shim, Steps
  <2>3. CASE Refuse(p) \/ Raise(p)
    BY <1>5, <2>3, FailPreserves DEF apply_kasreh_embedding_adapter_shim, Refused
  <2> QED
    BY <1>5, <2>2, <2>3 DEF apply_kasreh_embedding_adapter_shim
<1>6. CASE smoke_kasreh_pipeline(p)
  <2>1. /\ resolved[p] \in Dirs
        /\ loading[p] \in Pipeline /\ loading[p].dir = resolved[p] /\ loading[p].keys # {}
    BY <1>6 DEF IInv, smoke_kasreh_pipeline, Building
  <2>2. CASE /\ loading' = [loading EXCEPT ![p].smoked = TRUE]
             /\ vouched' = vouched \cup {resolved[p]}
             /\ Goto(p, "mark")
    <3>1. /\ loading' \in [Procs -> Pipeline \cup {None}] /\ loading'[p] \in Pipeline
          /\ loading'[p].dir = resolved[p] /\ loading'[p].keys # {} /\ loading'[p].smoked
      BY <2>1, <2>2 DEF IInv, TypeOK, Pipeline
    <3>2. Building(p)'
      BY <1>6, <2>1, <2>2, <3>1 DEF IInv, TypeOK, Goto, Building
    <3> QED
      BY <1>6, <2>1, <2>2, <3>1, <3>2, BuildStep DEF IInv, TypeOK, smoke_kasreh_pipeline, Steps
  <2>3. CASE (Refuse(p) \/ Raise(p)) /\ UNCHANGED vouched
    BY <1>6, <2>3, FailPreserves DEF smoke_kasreh_pipeline, Refused
  <2> QED
    BY <1>6, <2>2, <2>3 DEF smoke_kasreh_pipeline
<1>7. CASE WriteMarker(p)
  <2>1. /\ resolved[p] \in Dirs /\ resolved[p] \in vouched
        /\ loading[p] \in Pipeline /\ loading[p].dir = resolved[p]
        /\ loading[p].keys # {} /\ loading[p].smoked
    BY <1>7 DEF IInv, WriteMarker, Building
  <2>2. disk' \in [Dirs -> CacheDir] /\ \A d \in Dirs : disk'[d].marker => d \in vouched
    BY <1>7, <2>1 DEF IInv, TypeOK, MarkerVouched, WriteMarker, write_dadma_cache_marker, CacheDir
  <2>3. TypeOK'
    BY <1>7, <2>2 DEF IInv, TypeOK, WriteMarker, Goto, Steps
  <2>4. (\A q \in Procs : Building(q))'
    BY <1>7, <2>1 DEF IInv, TypeOK, WriteMarker, Goto, Building
  <2>5. (\A q \in Procs : InService(q))' /\ MarkerVouched' /\ AnswersAreVerified'
    BY <1>7, <2>2 DEF IInv, WriteMarker, Goto, InService, Verified, MarkerVouched, AnswersAreVerified
  <2> QED
    BY <2>3, <2>4, <2>5 DEF IInv
<1>8. CASE Publish(p)
  <2>1. /\ resolved[p] \in Dirs
        /\ loading[p] \in Pipeline /\ loading[p].dir = resolved[p] /\ Verified(loading[p])
    BY <1>8 DEF IInv, Publish, Building, Verified
  <2> QED
    BY <1>8, <2>1, VerifiedEnd DEF Publish
<1>9. CASE MarkerRaises(p)
  <2>1. disk \in [Dirs -> CacheDir] /\ \A e \in Dirs : disk[e].marker => e \in vouched
    BY DEF IInv, TypeOK, MarkerVouched
  <2>2. resolved[p] \in Dirs /\ resolved[p] \in vouched
    BY <1>9 DEF IInv, MarkerRaises, Building
  <2>3. disk' \in [Dirs -> CacheDir] /\ \A e \in Dirs : disk'[e].marker => e \in vouched
    BY <1>9, <2>1, <2>2 DEF MarkerRaises, write_dadma_cache_marker, CacheDir
  <2> QED
    BY <1>9, <2>2, <2>3, SilentEndOnDisk DEF MarkerRaises, Raise, Outcomes
<1>10. CASE AssertAgain(p)
  <2>1. CASE Goto(p, "publish") /\ UNCHANGED loading
    <3>1. Building(p)'
      BY <1>10, <2>1 DEF IInv, TypeOK, AssertAgain, Goto, Building
    <3> QED
      BY <1>10, <2>1, <3>1, BuildStep DEF IInv, TypeOK, AssertAgain, Steps
  <2>2. CASE Refuse(p)
    BY <1>10, <2>2, FailPreserves DEF AssertAgain, Refused
  <2> QED
    BY <1>10, <2>1, <2>2 DEF AssertAgain
<1> QED
  BY <1>1, <1>2, <1>3, <1>4, <1>5, <1>6, <1>7, <1>8, <1>9, <1>10 DEF Step

-----------------------------------------------------------------------------
\* What happens around the calls.
LEMMA ProbePreserves ==
  ASSUME IInv, NEW p \in Procs, NEW d \in Dirs, ProbeInstalls(p, d)
  PROVE  IInv'
<1>1. [dir |-> d, keys |-> {}, smoked |-> FALSE] \in Pipeline
  BY DEF Pipeline
<1>2. TypeOK'
  BY <1>1 DEF IInv, TypeOK, ProbeInstalls
<1>3. (\A q \in Procs : Building(q))' /\ MarkerVouched' /\ AnswersAreVerified'
  BY DEF IInv, ProbeInstalls, Building, MarkerVouched, AnswersAreVerified, Verified
<1>4. (\A q \in Procs : InService(q))'
  BY DEF IInv, TypeOK, ProbeInstalls, InService, Verified
<1> QED
  BY <1>2, <1>3, <1>4 DEF IInv

LEMMA CrashPreserves ==
  ASSUME IInv, NEW p \in Procs, Crash(p)
  PROVE  IInv'
<1>1. TypeOK'
  BY DEF IInv, TypeOK, Crash, Steps
<1>2. (\A q \in Procs : Building(q))'
  BY DEF IInv, TypeOK, Crash, Building
<1>3. (\A q \in Procs : InService(q))'
  BY DEF IInv, TypeOK, Crash, InService, Verified
<1>4. MarkerVouched' /\ AnswersAreVerified'
  BY DEF IInv, TypeOK, Crash, MarkerVouched, AnswersAreVerified, Verified
<1> QED
  BY <1>1, <1>2, <1>3, <1>4 DEF IInv

LEMMA FilesPreserve ==
  ASSUME IInv, NEW d \in Dirs, Prefetch(d) \/ Evict(d)
  PROVE  IInv'
<1>1. disk \in [Dirs -> CacheDir] /\ evictions \in 0..MaxEvictions /\ MaxEvictions \in Nat
  BY EzafeAssumption DEF IInv, TypeOK
<1>2. CASE Prefetch(d)
  <2>1. PICK f \in FileStates : disk' = [disk EXCEPT ![d].exists = TRUE, ![d].files = f]
    BY <1>2 DEF Prefetch, FileStates
  <2>2. disk' \in [Dirs -> CacheDir]
    BY <1>1, <2>1 DEF CacheDir
  <2>3. \A e \in Dirs : disk'[e].marker = disk[e].marker
    BY <1>1, <2>1 DEF CacheDir
  <2> QED
    BY <1>1, <1>2, <2>2, <2>3, DiskStep DEF IInv, MarkerVouched, Prefetch
<1>3. CASE Evict(d)
  <2>1. evictions' \in 0..MaxEvictions
    BY <1>1, <1>3 DEF Evict
  <2>2. CASE disk' = [disk EXCEPT ![d].exists = FALSE, ![d].files = "absent", ![d].marker = FALSE]
    <3>1. disk' \in [Dirs -> CacheDir]
      BY <1>1, <2>2 DEF CacheDir, FileStates
    <3>2. \A e \in Dirs : disk'[e].marker => disk[e].marker
      BY <1>1, <2>2 DEF CacheDir
    <3> QED
      BY <1>3, <2>1, <3>1, <3>2, DiskStep DEF IInv, MarkerVouched, Evict
  <2>3. CASE disk' = [disk EXCEPT ![d].files = "partial"]
    <3>1. disk' \in [Dirs -> CacheDir]
      BY <1>1, <2>3 DEF CacheDir, FileStates
    <3>2. \A e \in Dirs : disk'[e].marker => disk[e].marker
      BY <1>1, <2>3 DEF CacheDir
    <3> QED
      BY <1>3, <2>1, <3>1, <3>2, DiskStep DEF IInv, MarkerVouched, Evict
  <2> QED
    BY <1>3, <2>2, <2>3 DEF Evict
<1> QED
  BY <1>2, <1>3

LEMMA NextPreserves == IInv /\ [Next]_vars => IInv'
<1> SUFFICES ASSUME IInv, [Next]_vars PROVE IInv'
  OBVIOUS
<1>1. CASE UNCHANGED vars
  <2>1. TypeOK'
    BY <1>1 DEF IInv, TypeOK, vars
  <2>2. (\A p \in Procs : Building(p))' /\ (\A p \in Procs : InService(p))'
    BY <1>1 DEF IInv, Building, InService, Verified, vars
  <2>3. MarkerVouched' /\ AnswersAreVerified'
    BY <1>1 DEF IInv, MarkerVouched, AnswersAreVerified, Verified, vars
  <2> QED
    BY <2>1, <2>2, <2>3 DEF IInv
<1>2. ASSUME NEW p \in Procs, Call(p) \/ Step(p) \/ Crash(p)
      PROVE  IInv'
  BY <1>2, CallPreserves, StepPreserves, CrashPreserves
<1>3. ASSUME NEW p \in Procs, NEW d \in Dirs, ProbeInstalls(p, d)
      PROVE  IInv'
  BY <1>3, ProbePreserves
<1>4. ASSUME NEW d \in Dirs, Prefetch(d) \/ Evict(d)
      PROVE  IInv'
  BY <1>4, FilesPreserve
<1> QED
  BY <1>1, <1>2, <1>3, <1>4 DEF Next

\* IInv is invariant.
THEOREM Invariance == Spec => []IInv
<1>1. Init => IInv
  BY InitEstablishes
<1>2. IInv /\ [Next]_vars => IInv'
  BY NextPreserves
<1> QED
  BY <1>1, <1>2, PTL DEF Spec

\* The type invariant, for any sets of processes, directories and adapter keys.
THEOREM TypeCorrect == Spec => []TypeOK
<1>1. IInv => TypeOK
  BY DEF IInv
<1> QED
  BY <1>1, Invariance, PTL

\* The marker is honest: it only ever stands in a directory that was loaded,
\* shimmed and smoke-tested.
THEOREM MarkersAreHonest == Spec => []MarkerVouched
<1>1. IInv => MarkerVouched
  BY DEF IInv
<1> QED
  BY <1>1, Invariance, PTL

\* No call ever reports on a text out of an unverified pipeline or out of one of
\* another directory.
THEOREM OnlyVerifiedAnswers == Spec => []AnswersAreVerified
<1>1. IInv => AnswersAreVerified
  BY DEF IInv
<1> QED
  BY <1>1, Invariance, PTL

-----------------------------------------------------------------------------
\* Only three steps touch the class attributes.
LEMMA AttributesChangedBy ==
  ASSUME Next, ~ UNCHANGED <<pipeline, pipelineDir>>
  PROVE  \E p \in Procs : Publish(p) \/ Crash(p) \/ \E d \in Dirs : ProbeInstalls(p, d)
<1>1. ASSUME NEW p \in Procs, Call(p)
      PROVE  UNCHANGED <<pipeline, pipelineDir>>
  BY <1>1 DEF Call, CallBlank, AuditDisabled, CallWithoutDir, CallReusing, CallNotReady, CallLoading
<1>2. ASSUME NEW p \in Procs, Step(p), ~Publish(p)
      PROVE  UNCHANGED <<pipeline, pipelineDir>>
  BY <1>2 DEF Step, Import, Download, Load, LoadRaises, apply_kasreh_embedding_adapter_shim,
              smoke_kasreh_pipeline, WriteMarker, MarkerRaises, AssertAgain
<1>3. ASSUME NEW d \in Dirs, Prefetch(d) \/ Evict(d)
      PROVE  UNCHANGED <<pipeline, pipelineDir>>
  BY <1>3 DEF Prefetch, Evict
<1> QED
  BY <1>1, <1>2, <1>3 DEF Next

\* The pipeline in service is replaced whole or not at all.
THEOREM PipelineIsReplacedWhole == Spec => PipelineChangesWhole
<1> DEFINE Whole(p) ==
      pipeline'[p] # pipeline[p] =>
        \/ pipeline'[p] = None /\ pc'[p] = "idle"
        \/ pipelineDir'[p] = None
        \/ /\ Verified(pipeline'[p])
           /\ pipelineDir'[p] = pipeline'[p].dir
           /\ answer' # None /\ answer'.proc = p /\ answer'.by = pipeline'[p]
<1>1. IInv /\ [Next]_vars => [\A p \in Procs : Whole(p)]_vars
  <2> SUFFICES ASSUME IInv, Next, NEW p \in Procs PROVE Whole(p)
    BY DEF vars
  <2>1. CASE UNCHANGED <<pipeline, pipelineDir>>
    BY <2>1
  <2>2. ASSUME NEW q \in Procs, Crash(q) PROVE Whole(p)
    BY <2>2 DEF IInv, TypeOK, Crash
  <2>3. ASSUME NEW q \in Procs, NEW d \in Dirs, ProbeInstalls(q, d) PROVE Whole(p)
    BY <2>3 DEF IInv, TypeOK, ProbeInstalls
  <2>4. ASSUME NEW q \in Procs, Publish(q) PROVE Whole(p)
    <3>1. /\ pipeline' = [pipeline EXCEPT ![q] = loading[q]]
          /\ pipelineDir' = [pipelineDir EXCEPT ![q] = resolved[q]]
          /\ \E op \in Ops : Served(q, op, resolved[q], loading[q])
      BY <2>4 DEF Publish
    <3>2. Whole(p)
      <4>1. /\ loading[q] \in Pipeline /\ loading[q].dir = resolved[q] /\ Verified(loading[q])
            /\ resolved[q] \in Dirs
        BY <2>4 DEF IInv, Publish, Building, Verified
      <4>2. PICK op \in Ops, outcome \in Outcomes : Answered(q, op, resolved[q], outcome, loading[q])
        BY <3>1 DEF Served, Outcomes, Refused
      <4>3. answer' = [proc |-> q, op |-> op, dir |-> resolved[q], outcome |-> outcome, by |-> loading[q]]
        BY <4>2 DEF Answered
      <4>4. answer' # None /\ answer'.proc = q /\ answer'.by = loading[q]
        <5>1. [proc |-> q, op |-> op, dir |-> resolved[q], outcome |-> outcome, by |-> loading[q]] \in Answer
          BY <4>1 DEF Answer
        <5> QED
          BY <4>3, <5>1, EzafeAssumption
      <4>5. pipeline'[q] = loading[q] /\ pipelineDir'[q] = loading[q].dir
        BY <3>1, <4>1 DEF IInv, TypeOK
      <4>6. p # q => pipeline'[p] = pipeline[p]
        BY <3>1 DEF IInv, TypeOK
      <4> QED
        BY <4>1, <4>4, <4>5, <4>6 DEF Verified
    <3> QED
      BY <3>2
  <2> QED
    BY <2>1, <2>2, <2>3, <2>4, AttributesChangedBy
<1>2. Spec => [][Next]_vars
  BY DEF Spec
<1>3. Spec => [][\A p \in Procs : Whole(p)]_vars
  BY <1>1, <1>2, Invariance, PTL
<1> QED
  BY <1>3 DEF PipelineChangesWhole

-----------------------------------------------------------------------------
\* While nobody deletes files, a call that is past Pipeline(), or that requires the
\* cache, has a complete directory, and so has a marker.
CompleteFiles ==
  evictions = 0 =>
    /\ \A d \in Dirs : disk[d].marker => disk[d].exists /\ disk[d].files = "whole"
    /\ \A p \in Procs :
         pc[p] \in {"shim", "smoke", "mark", "assert", "publish"} \/ (p \in Requiring /\ pc[p] # "idle") =>
           disk[resolved[p]].files = "whole"

\* What a step may do to a directory, unless it is an eviction.
LEMMA DiskGrows ==
  ASSUME IInv, CompleteFiles, [Next]_vars, evictions' = 0
  PROVE  /\ evictions = 0
         /\ \A d \in Dirs : disk[d].files = "whole" => disk'[d].files = "whole"
         /\ \A d \in Dirs : disk'[d].marker =>
              disk'[d].exists /\ disk'[d].files = "whole"
<1> USE DEF CacheDir
<1> DEFINE Grown ==
      /\ \A d \in Dirs : disk[d].files = "whole" => disk'[d].files = "whole"
      /\ \A d \in Dirs : disk'[d].marker => disk'[d].exists /\ disk'[d].files = "whole"
<1>1. disk \in [Dirs -> CacheDir] /\ evictions \in Nat
  BY EzafeAssumption DEF IInv, TypeOK
<1>2. ASSUME NEW d \in Dirs PROVE ~Evict(d)
  BY <1>1 DEF Evict
<1>3. evictions = 0
  BY <1>1, <1>2 DEF Next, vars, Call, CallBlank, AuditDisabled, CallWithoutDir, CallReusing, CallNotReady,
     CallLoading, Step, Import, Download, Load, LoadRaises, apply_kasreh_embedding_adapter_shim,
     smoke_kasreh_pipeline, WriteMarker, MarkerRaises, AssertAgain, Publish, ProbeInstalls, Prefetch, Crash
<1>4. \A d \in Dirs : disk[d].marker => disk[d].exists /\ disk[d].files = "whole"
  BY <1>3 DEF CompleteFiles
<1>5. CASE UNCHANGED disk
  BY <1>3, <1>4, <1>5
<1>6. ASSUME NEW p \in Procs, Download(p) PROVE Grown
  <2>1. resolved[p] \in Dirs
    BY <1>6 DEF IInv, Building, Download
  <2> QED
    BY <1>1, <1>4, <1>6, <2>1 DEF Download
<1>7. ASSUME NEW d \in Dirs, Prefetch(d) PROVE Grown
  BY <1>1, <1>4, <1>7 DEF Prefetch
<1>8. ASSUME NEW p \in Procs, WriteMarker(p) \/ MarkerRaises(p) PROVE Grown
  <2>1. resolved[p] \in Dirs /\ disk[resolved[p]].files = "whole"
    BY <1>3, <1>8 DEF IInv, Building, CompleteFiles, WriteMarker, MarkerRaises
  <2> QED
    BY <1>1, <1>4, <1>8, <2>1 DEF WriteMarker, MarkerRaises, write_dadma_cache_marker
<1>9. UNCHANGED disk \/ (\E d \in Dirs : Prefetch(d))
      \/ \E p \in Procs : Download(p) \/ WriteMarker(p) \/ MarkerRaises(p)
  BY <1>2 DEF Next, vars, Call, CallBlank, AuditDisabled, CallWithoutDir, CallReusing, CallNotReady,
     CallLoading, Step, Import, Load, LoadRaises, apply_kasreh_embedding_adapter_shim,
     smoke_kasreh_pipeline, AssertAgain, Publish, ProbeInstalls, Crash
<1> QED
  BY <1>3, <1>5, <1>6, <1>7, <1>8, <1>9

\* CompleteFiles is invariant together with IInv.
LEMMA CompleteAtFirst == Init => CompleteFiles
BY DEF Init, CompleteFiles, PreparedOrCold

LEMMA CompleteForever == IInv /\ CompleteFiles /\ [Next]_vars => CompleteFiles'
<1> SUFFICES ASSUME IInv, CompleteFiles, [Next]_vars, evictions' = 0
             PROVE  CompleteFiles'
  BY DEF CompleteFiles
<1> DEFINE Needs(p) == pc[p] \in {"shim", "smoke", "mark", "assert", "publish"} \/ (p \in Requiring /\ pc[p] # "idle")
<1> DEFINE Fed(p) ==
      \/ pc[p] # "idle" /\ resolved'[p] = resolved[p] /\ (Needs(p)' => Needs(p))
      \/ resolved'[p] \in Dirs /\ disk[resolved'[p]].files = "whole"
      \/ ~Needs(p)'
<1>1. /\ evictions = 0
      /\ \A d \in Dirs : disk[d].files = "whole" => disk'[d].files = "whole"
      /\ \A d \in Dirs : disk'[d].marker => disk'[d].exists /\ disk'[d].files = "whole"
  BY DiskGrows
<1>2. \A p \in Procs : Needs(p) => disk[resolved[p]].files = "whole"
  BY <1>1 DEF CompleteFiles
<1>3. ASSUME NEW p \in Procs, pc'[p] # "idle"
      PROVE  Fed(p)
  <2>1. CASE UNCHANGED <<pc, resolved>>
    BY <1>3, <2>1
  <2>2. ASSUME NEW q \in Procs, NEW op, NEW d, NEW outcome, NEW by, Answered(q, op, d, outcome, by)
        PROVE  Fed(p)
    BY <1>3, <2>2 DEF Answered, IInv, TypeOK
  <2>3. ASSUME NEW q \in Procs, Call(q)
        PROVE  Fed(p)
    <3>1. ASSUME NEW d \in Dirs, CallLoading(q, d)
          PROVE  Fed(p)
      <4>1. q \in Requiring => disk[d].files = "whole"
        BY <1>1, <3>1 DEF CallLoading, Ready, CompleteFiles
      <4>2. p = q => resolved'[p] = d /\ pc'[p] = "import"
        BY <3>1 DEF CallLoading, IInv, TypeOK
      <4>3. p # q => resolved'[p] = resolved[p] /\ pc'[p] = pc[p]
        BY <3>1 DEF CallLoading, IInv, TypeOK
      <4> QED
        BY <1>3, <4>1, <4>2, <4>3
    <3>2. CASE \E d \in Dirs : CallLoading(q, d)
      BY <3>1, <3>2
    <3>3. CASE \E op, d, outcome, by : Answered(q, op, d, outcome, by)
      BY <2>2, <3>3
    <3> QED
      BY <2>3, <3>2, <3>3
         DEF Call, CallBlank, AuditDisabled, CallWithoutDir, CallReusing, CallNotReady, Served
  <2>4. ASSUME NEW q \in Procs, Step(q)
        PROVE  Fed(p)
    <3>1. CASE \E op, d, outcome, by : Answered(q, op, d, outcome, by)
      BY <2>2, <3>1
    <3>2. CASE Import(q) /\ Goto(q, "load")
      BY <1>3, <3>2 DEF Import, Goto, IInv, TypeOK
    <3>3. CASE Load(q) /\ Goto(q, "shim")
      <4>1. resolved[q] \in Dirs /\ disk[resolved[q]].files = "whole"
        BY <3>3 DEF Load, IInv, Building
      <4> QED
        BY <1>3, <3>3, <4>1 DEF Load, Goto, IInv, TypeOK
    <3>4. CASE pc[q] = "shim" /\ Goto(q, "smoke")
      BY <1>3, <3>4 DEF Goto, IInv, TypeOK
    <3>5. CASE pc[q] = "smoke" /\ Goto(q, "mark")
      BY <1>3, <3>5 DEF Goto, IInv, TypeOK
    <3>6. CASE pc[q] = "mark" /\ Goto(q, "assert")
      BY <1>3, <3>6 DEF Goto, IInv, TypeOK
    <3>7. CASE Download(q)
      BY <2>1, <3>7 DEF Download
    <3>8. CASE pc[q] = "assert" /\ Goto(q, "publish")
      BY <1>3, <3>8 DEF Goto, IInv, TypeOK
    <3> QED
      BY <2>4, <3>1, <3>2, <3>3, <3>4, <3>5, <3>6, <3>7, <3>8
         DEF Step, Import, Load, LoadRaises, apply_kasreh_embedding_adapter_shim, smoke_kasreh_pipeline,
             WriteMarker, MarkerRaises, AssertAgain, Publish, Refuse, Raise, Served
  <2>5. ASSUME NEW q \in Procs, Crash(q)
        PROVE  Fed(p)
    BY <1>3, <2>5 DEF Crash, IInv, TypeOK
  <2>6. UNCHANGED <<pc, resolved>> \/ \E q \in Procs : Call(q) \/ Step(q) \/ Crash(q)
    BY DEF Next, vars, ProbeInstalls, Prefetch, Evict
  <2> QED
    BY <2>1, <2>3, <2>4, <2>5, <2>6
<1>4. ASSUME NEW p \in Procs, Needs(p)' PROVE disk'[resolved'[p]].files = "whole"
  <2>1. CASE pc'[p] # "idle" /\ pc[p] # "idle" /\ resolved'[p] = resolved[p] /\ Needs(p)
    <3>1. resolved[p] \in Dirs
      BY <2>1 DEF IInv, Building
    <3> QED
      BY <1>1, <1>2, <2>1, <3>1
  <2> QED
    BY <1>1, <1>3, <1>4, <2>1
<1> QED
  BY <1>1, <1>4 DEF CompleteFiles

\* A marked directory is complete while nobody deletes model files, and a process
\* that requires the cache never waits for a download.
THEOREM MarkedIsComplete == Spec => []MarkerMeansWhole
<1>1. CompleteFiles => MarkerMeansWhole
  BY EzafeAssumption DEF CompleteFiles, MarkerMeansWhole
<1> QED
  BY <1>1, CompleteAtFirst, CompleteForever, Invariance, PTL DEF Spec

-----------------------------------------------------------------------------
\* What the shim transfers, when it transfers anything, is the whole checkpoint.
LEMMA ShimTakesAll ==
  ASSUME NEW c \in Checkpoints, ShimTransfers(c) # {}
  PROVE  /\ ShimTransfers(c) = {k[2] : k \in c}
         /\ \A j, k \in c : j[1] = k[1]
<1> DEFINE names == discover_adapter_task_names(c)
<1>1. Cardinality(names) = 1
  BY DEF ShimTransfers
<1>2. IsFiniteSet(names)
  <2>1. names \subseteq Tasks
    BY EzafeAssumption DEF discover_adapter_task_names
  <2> QED
    BY <2>1, EzafeAssumption, FS_Subset
<1>3. PICK t : names = {t}
  BY <1>1, <1>2, FS_Singleton
<1>4. \A k \in c : k[1] = t
  BY <1>3 DEF discover_adapter_task_names
<1>5. (CHOOSE u \in names : TRUE) = t
  BY <1>3
<1>6. ShimTransfers(c) = Matched(c, t)
  BY <1>1, <1>5 DEF ShimTransfers, map_task_adapters_to_embedding
<1>7. {a \in c : a[1] = t} = c
  BY <1>4
<1> QED
  BY <1>4, <1>6, <1>7 DEF Matched

\* A pipeline with adapters has all those of its directory's checkpoint.
WholeCkpt(pl) ==
  pl # None /\ (pl.smoked \/ pl.keys # {}) =>
    /\ pl.keys = {k[2] : k \in disk[pl.dir].ckpt}
    /\ \A j, k \in disk[pl.dir].ckpt : j[1] = k[1]

WholeShim == \A p \in Procs : WholeCkpt(loading[p]) /\ WholeCkpt(pipeline[p])

\* No step of the model replaces the checkpoint of a directory by another.
LEMMA CheckpointStays ==
  ASSUME IInv, [Next]_vars, NEW d \in Dirs PROVE disk'[d].ckpt = disk[d].ckpt
<1>1. disk \in [Dirs -> CacheDir]
  BY DEF IInv, TypeOK
<1>2. CASE UNCHANGED disk
  BY <1>2
<1>3. ASSUME NEW p \in Procs, Download(p) \/ WriteMarker(p) \/ MarkerRaises(p)
      PROVE  disk'[d].ckpt = disk[d].ckpt
  <2>1. resolved[p] \in Dirs
    BY <1>3 DEF IInv, Building, Download, WriteMarker, MarkerRaises
  <2> QED
    BY <1>1, <1>3, <2>1 DEF CacheDir, Download, WriteMarker, MarkerRaises, write_dadma_cache_marker
<1>4. ASSUME NEW e \in Dirs, Prefetch(e) \/ Evict(e) PROVE disk'[d].ckpt = disk[d].ckpt
  BY <1>1, <1>4 DEF CacheDir, Prefetch, Evict
<1>5. UNCHANGED disk \/ (\E e \in Dirs : Prefetch(e) \/ Evict(e))
      \/ \E p \in Procs : Download(p) \/ WriteMarker(p) \/ MarkerRaises(p)
  BY DEF Next, vars, Call, CallBlank, AuditDisabled, CallWithoutDir, CallReusing, CallNotReady,
     CallLoading, Step, Import, Load, LoadRaises, apply_kasreh_embedding_adapter_shim,
     smoke_kasreh_pipeline, AssertAgain, Publish, ProbeInstalls, Crash
<1> QED
  BY <1>2, <1>3, <1>4, <1>5

LEMMA WholeAtFirst == Init => WholeShim
BY DEF Init, WholeShim, WholeCkpt

\* What a step makes of the pipelines of a process.
LEMMA PipelinesMove ==
  ASSUME IInv, Next, NEW p \in Procs
  PROVE  /\ pipeline'[p] \in {pipeline[p], loading[p], None}
              \/ (pipeline'[p].keys = {} /\ ~pipeline'[p].smoked)
         /\ \/ loading'[p] \in {loading[p], None}
            \/ loading'[p].keys = {} /\ ~loading'[p].smoked
            \/ apply_kasreh_embedding_adapter_shim(p) /\ loading'[p] # None /\ loading'[p].dir = resolved[p]
               /\ loading'[p].keys = ShimTransfers(disk[resolved[p]].ckpt) /\ loading'[p].keys # {}
            \/ loading[p] # None /\ loading'[p].dir = loading[p].dir
               /\ loading'[p].keys = loading[p].keys /\ loading[p].keys # {}
<1>1. CASE UNCHANGED <<pipeline, loading>>
  BY <1>1
<1>2. ASSUME NEW q \in Procs, NEW op, NEW d, NEW outcome, NEW by, Answered(q, op, d, outcome, by),
             UNCHANGED pipeline
      PROVE  pipeline'[p] = pipeline[p] /\ loading'[p] \in {loading[p], None}
  BY <1>2 DEF Answered, IInv, TypeOK
<1>3. ASSUME NEW q \in Procs, Publish(q)
      PROVE  pipeline'[p] \in {pipeline[p], loading[p]} /\ loading'[p] \in {loading[p], None}
  <2>1. pipeline'[p] \in {pipeline[p], loading[p]}
    BY <1>3 DEF Publish, IInv, TypeOK
  <2>2. \E op, d, outcome, by : Answered(q, op, d, outcome, by)
    BY <1>3 DEF Publish, Served, Refuse
  <2>3. loading'[p] \in {loading[p], None}
    BY <2>2 DEF Answered, IInv, TypeOK
  <2> QED
    BY <2>1, <2>3
<1>4. ASSUME NEW q \in Procs, Load(q)
      PROVE  pipeline'[p] = pipeline[p]
             /\ (loading'[p] = loading[p] \/ (loading'[p].keys = {} /\ ~loading'[p].smoked))
  BY <1>4 DEF Load, IInv, TypeOK
<1>5. ASSUME NEW q \in Procs, apply_kasreh_embedding_adapter_shim(q), Goto(q, "smoke")
      PROVE  /\ pipeline'[p] = pipeline[p]
             /\ \/ loading'[p] = loading[p]
                \/ apply_kasreh_embedding_adapter_shim(p) /\ loading'[p] # None /\ loading'[p].dir = resolved[p]
                   /\ loading'[p].keys = ShimTransfers(disk[resolved[p]].ckpt) /\ loading'[p].keys # {}
  <2> DEFINE keys == ShimTransfers(disk[resolved[q]].ckpt)
  <2>1. pipeline' = pipeline
    BY <1>5 DEF apply_kasreh_embedding_adapter_shim
  <2>2. loading[q] \in Pipeline /\ loading[q].dir = resolved[q]
    BY <1>5 DEF IInv, Building, apply_kasreh_embedding_adapter_shim
  <2>3. answer' = None /\ pc'[q] = "smoke"
    BY <1>5 DEF Goto, IInv, TypeOK
  <2>4. keys # {} /\ loading' = [loading EXCEPT ![q].keys = keys]
    BY <1>5, <2>3, EzafeAssumption DEF apply_kasreh_embedding_adapter_shim, Refuse, Raise, Answered, IInv, TypeOK
  <2>5. keys \subseteq EmbeddingKeys \cup StrayKeys
    BY ShimIntoEmbedding
  <2>6. p # q => loading'[p] = loading[p]
    BY <2>4 DEF IInv, TypeOK
  <2>7. loading'[q] \in Pipeline /\ loading'[q].dir = resolved[q] /\ loading'[q].keys = keys
    <3> HIDE DEF keys
    <3> QED
      BY <2>2, <2>4, <2>5 DEF IInv, TypeOK, Pipeline
  <2> QED
    BY <1>5, <2>1, <2>4, <2>6, <2>7, EzafeAssumption
<1>6. ASSUME NEW q \in Procs, smoke_kasreh_pipeline(q), Goto(q, "mark"),
             loading' = [loading EXCEPT ![q].smoked = TRUE]
      PROVE  /\ pipeline'[p] = pipeline[p]
             /\ \/ loading'[p] = loading[p]
                \/ loading[p] # None /\ loading'[p].dir = loading[p].dir
                   /\ loading'[p].keys = loading[p].keys /\ loading[p].keys # {}
  <2>1. loading[q] \in Pipeline /\ loading[q].keys # {}
    BY <1>6 DEF IInv, Building, smoke_kasreh_pipeline
  <2> QED
    BY <1>6, <2>1, EzafeAssumption DEF smoke_kasreh_pipeline, IInv, TypeOK, Pipeline
<1>7. ASSUME NEW q \in Procs, Crash(q) PROVE pipeline'[p] \in {pipeline[p], None} /\ loading'[p] \in {loading[p], None}
  BY <1>7 DEF Crash, IInv, TypeOK
<1>8. ASSUME NEW q \in Procs, NEW d \in Dirs, ProbeInstalls(q, d)
      PROVE  /\ pipeline'[p] = pipeline[p] \/ (pipeline'[p].keys = {} /\ ~pipeline'[p].smoked)
             /\ loading'[p] = loading[p]
  BY <1>8 DEF ProbeInstalls, IInv, TypeOK
<1>9. \/ UNCHANGED <<pipeline, loading>>
      \/ UNCHANGED pipeline /\ \E q \in Procs : \E op, d, outcome, by : Answered(q, op, d, outcome, by)
      \/ \E q \in Procs : \/ Publish(q) \/ Load(q) \/ Crash(q)
                          \/ apply_kasreh_embedding_adapter_shim(q) /\ Goto(q, "smoke")
                          \/ smoke_kasreh_pipeline(q) /\ Goto(q, "mark") /\ loading' = [loading EXCEPT ![q].smoked = TRUE]
                          \/ \E d \in Dirs : ProbeInstalls(q, d)
  BY DEF Next, Call, CallBlank, AuditDisabled, CallWithoutDir, CallReusing, CallNotReady, CallLoading,
     Step, Import, Download, LoadRaises, apply_kasreh_embedding_adapter_shim, smoke_kasreh_pipeline,
     WriteMarker, MarkerRaises, AssertAgain, Prefetch, Evict, Refuse, Raise, Served
<1> QED
  BY <1>1, <1>2, <1>3, <1>4, <1>5, <1>6, <1>7, <1>8, <1>9

LEMMA WholeForever == IInv /\ WholeShim /\ [Next]_vars => WholeShim'
<1> SUFFICES ASSUME IInv, WholeShim, [Next]_vars, NEW p \in Procs
             PROVE  WholeCkpt(loading[p])' /\ WholeCkpt(pipeline[p])'
  BY DEF WholeShim
<1>1. \A d \in Dirs : disk'[d].ckpt = disk[d].ckpt
  BY CheckpointStays
<1>2. ASSUME NEW pl \in Pipeline \cup {None}, WholeCkpt(pl), pl # None
      PROVE  /\ pl.dir \in Dirs
             /\ pl.smoked \/ pl.keys # {} =>
                  /\ pl.keys = {k[2] : k \in disk'[pl.dir].ckpt}
                  /\ \A j, k \in disk'[pl.dir].ckpt : j[1] = k[1]
  <2>1. pl.dir \in Dirs
    BY <1>2 DEF Pipeline
  <2> QED
    BY <1>1, <1>2, <2>1 DEF WholeCkpt
<1>3. loading[p] \in Pipeline \cup {None} /\ pipeline[p] \in Pipeline \cup {None}
      /\ WholeCkpt(loading[p]) /\ WholeCkpt(pipeline[p])
  BY DEF IInv, TypeOK, WholeShim
<1>4. CASE UNCHANGED vars
  BY <1>2, <1>3, <1>4 DEF vars, WholeCkpt
<1>5. CASE Next
  <2>1. WholeCkpt(pipeline[p])'
    BY <1>2, <1>3, <1>5, PipelinesMove DEF WholeCkpt
  <2>2. ASSUME loading'[p] \in {loading[p], None} \/ (loading'[p].keys = {} /\ ~loading'[p].smoked)
        PROVE  WholeCkpt(loading[p])'
    BY <1>2, <1>3, <2>2 DEF WholeCkpt
  <2>3. ASSUME apply_kasreh_embedding_adapter_shim(p), loading'[p] # None, loading'[p].dir = resolved[p],
               loading'[p].keys = ShimTransfers(disk[resolved[p]].ckpt), loading'[p].keys # {}
        PROVE  WholeCkpt(loading[p])'
    <3>1. resolved[p] \in Dirs
      BY <2>3 DEF IInv, Building, apply_kasreh_embedding_adapter_shim
    <3>2. disk[resolved[p]].ckpt \in Checkpoints
      BY <3>1 DEF IInv, TypeOK, CacheDir
    <3> QED
      BY <1>1, <2>3, <3>1, <3>2, ShimTakesAll DEF WholeCkpt
  <2>4. ASSUME loading[p] # None, loading'[p].dir = loading[p].dir,
               loading'[p].keys = loading[p].keys, loading[p].keys # {}
        PROVE  WholeCkpt(loading[p])'
    BY <1>2, <1>3, <2>4 DEF WholeCkpt
  <2> QED
    BY <1>5, <2>1, <2>2, <2>3, <2>4, PipelinesMove
<1> QED
  BY <1>4, <1>5

\* A pipeline in service carries the whole checkpoint or nothing of it.
THEOREM ShimIsAllOrNothing == Spec => []ShimIsTotal
<1>1. WholeShim => ShimIsTotal
  BY DEF WholeShim, WholeCkpt, ShimIsTotal
<1> QED
  BY <1>1, WholeAtFirst, WholeForever, Invariance, PTL DEF Spec

-----------------------------------------------------------------------------
\* EzafeBackend implements ReadyCache: every step sets, clears, checks or vouches for a
\* marker, starts or stops serving, or does none of these.
LEMMA CacheUntouched ==
  ASSUME UNCHANGED <<vouched, pipelineDir>>, \A d \in Dirs : disk'[d].marker <=> disk[d].marker,
         \A p \in Procs : Checked(p)' = Checked(p)
  PROVE  UNCHANGED Cache!vars
BY DEF Cache!vars

LEMMA CacheInit == Init => Cache!Init
BY DEF Init, Checked, Cache!Init

\* Where a process is in its call matters to the cache only once it has asserted again.
LEMMA StillUnchecked ==
  ASSUME TypeOK, NEW q \in Procs, NEW s \in Steps, pc' = [pc EXCEPT ![q] = s],
         pc[q] # "publish", s # "publish",
         \A r \in Procs : r # q => resolved'[r] = resolved[r]
  PROVE  \A p \in Procs : Checked(p)' = Checked(p)
BY DEF TypeOK, Checked

LEMMA EndedUnchecked ==
  ASSUME TypeOK, NEW q \in Procs, pc[q] # "publish",
         NEW op, NEW d, NEW outcome, NEW by, Answered(q, op, d, outcome, by)
  PROVE  \A p \in Procs : Checked(p)' = Checked(p)
<1>1. pc' = [pc EXCEPT ![q] = "idle"] /\ "idle" \in Steps
  BY DEF Answered, Steps
<1>2. \A r \in Procs : r # q => resolved'[r] = resolved[r]
  BY DEF Answered, TypeOK
<1> QED
  BY <1>1, <1>2, StillUnchecked

LEMMA OnwardUnchecked ==
  ASSUME TypeOK, NEW q \in Procs, pc[q] # "publish", NEW s \in Steps \ {"publish"}, Goto(q, s)
  PROVE  \A p \in Procs : Checked(p)' = Checked(p)
BY StillUnchecked DEF Goto

\* The steps that set or clear markers.
LEMMA CacheFiles ==
  ASSUME IInv, NEW d \in Dirs, Prefetch(d) \/ Evict(d)
  PROVE  Cache!Clear(d) \/ UNCHANGED Cache!vars
<1>1. disk \in [Dirs -> CacheDir]
  BY DEF IInv, TypeOK
<1>2. UNCHANGED <<vouched, pipelineDir>> /\ \A p \in Procs : Checked(p)' = Checked(p)
  BY DEF Prefetch, Evict, Checked
<1>3. CASE Prefetch(d)
  <2>1. PICK f \in FileStates : disk' = [disk EXCEPT ![d].exists = TRUE, ![d].files = f]
    BY <1>3 DEF Prefetch, FileStates
  <2>2. \A e \in Dirs : disk'[e].marker <=> disk[e].marker
    BY <1>1, <2>1 DEF CacheDir
  <2> QED
    BY <1>2, <2>2, CacheUntouched
<1>4. CASE disk' = [disk EXCEPT ![d].exists = FALSE, ![d].files = "absent", ![d].marker = FALSE]
  <2>1. \A e \in Dirs : disk'[e].marker <=> e # d /\ disk[e].marker
    BY <1>1, <1>4 DEF CacheDir
  <2> QED
    BY <1>2, <2>1 DEF Cache!Clear
<1>5. CASE disk' = [disk EXCEPT ![d].files = "partial"]
  <2>1. \A e \in Dirs : disk'[e].marker <=> disk[e].marker
    BY <1>1, <1>5 DEF CacheDir
  <2> QED
    BY <1>2, <2>1, CacheUntouched
<1> QED
  BY <1>3, <1>4, <1>5 DEF Evict

\* A step of a call that neither asserts again nor publishes leaves the checks alone.
LEMMA StepsUnchecked ==
  ASSUME IInv, NEW q \in Procs, Step(q), ~AssertAgain(q), ~Publish(q)
  PROVE  \A p \in Procs : Checked(p)' = Checked(p)
<1>1. TypeOK
  BY DEF IInv
<1>2. ASSUME pc[q] # "publish", Refuse(q) \/ Raise(q)
      PROVE  \A p \in Procs : Checked(p)' = Checked(p)
  BY <1>1, <1>2, EndedUnchecked DEF Refuse, Raise
<1>3. ASSUME NEW s \in Steps \ {"publish"}, pc[q] # "publish", Goto(q, s)
      PROVE  \A p \in Procs : Checked(p)' = Checked(p)
  BY <1>1, <1>3, OnwardUnchecked
<1>4. \/ UNCHANGED <<pc, resolved>>
      \/ pc[q] # "publish" /\ (Refuse(q) \/ Raise(q))
      \/ pc[q] # "publish" /\ \E s \in Steps \ {"publish"} : Goto(q, s)
  BY DEF Step, Import, Download, Load, LoadRaises, apply_kasreh_embedding_adapter_shim,
         smoke_kasreh_pipeline, WriteMarker, MarkerRaises, Steps
<1> QED
  BY <1>2, <1>3, <1>4 DEF Checked

\* The steps of a call.
LEMMA CacheSteps ==
  ASSUME IInv, NEW p \in Procs, Step(p)
  PROVE  \/ \E d \in Dirs : Cache!Vouch(d) \/ Cache!Mark(d) \/ Cache!Check(p, d)
         \/ Cache!Serve(p)
         \/ UNCHANGED Cache!vars
<1> DEFINE Same == \A q \in Procs : Checked(q)' = Checked(q)
<1>1. disk \in [Dirs -> CacheDir] /\ TypeOK
  BY DEF IInv, TypeOK
<1>2. CASE Import(p) \/ Load(p) \/ LoadRaises(p) \/ apply_kasreh_embedding_adapter_shim(p)
  <2>1. Same
    BY <1>2, StepsUnchecked
       DEF Step, Import, Load, LoadRaises, apply_kasreh_embedding_adapter_shim, AssertAgain, Publish
  <2> QED
    BY <1>2, <2>1, CacheUntouched DEF Import, Load, LoadRaises, apply_kasreh_embedding_adapter_shim
<1>3. CASE Download(p)
  <2>1. PICK f \in FileStates : disk' = [disk EXCEPT ![resolved[p]].exists = TRUE, ![resolved[p]].files = f]
    BY <1>3 DEF Download, FileStates
  <2>2. \A e \in Dirs : disk'[e].marker <=> disk[e].marker
    BY <1>1, <2>1 DEF CacheDir
  <2>3. Same
    BY <1>3 DEF Download, Checked
  <2> QED
    BY <1>3, <2>2, <2>3, CacheUntouched DEF Download
<1>4. CASE smoke_kasreh_pipeline(p)
  <2>1. resolved[p] \in Dirs
    BY <1>4 DEF IInv, Building, smoke_kasreh_pipeline
  <2>2. Same
    BY <1>4, StepsUnchecked DEF smoke_kasreh_pipeline, AssertAgain, Publish
  <2>3. CASE vouched' = vouched \cup {resolved[p]}
    BY <1>4, <2>1, <2>2, <2>3 DEF smoke_kasreh_pipeline, Cache!Vouch
  <2>4. CASE UNCHANGED vouched
    BY <1>4, <2>2, <2>4, CacheUntouched DEF smoke_kasreh_pipeline
  <2> QED
    BY <1>4, <2>3, <2>4 DEF smoke_kasreh_pipeline
<1>5. CASE WriteMarker(p)
  <2>1. resolved[p] \in Dirs /\ resolved[p] \in vouched
    BY <1>5 DEF IInv, Building, WriteMarker
  <2>2. \A e \in Dirs : disk'[e].marker <=> e = resolved[p] \/ disk[e].marker
    BY <1>1, <1>5, <2>1 DEF CacheDir, WriteMarker, write_dadma_cache_marker
  <2>3. Same
    BY <1>5, StepsUnchecked DEF WriteMarker, AssertAgain, Publish
  <2> QED
    BY <1>5, <2>1, <2>2, <2>3 DEF WriteMarker, Cache!Mark
<1>6. CASE AssertAgain(p)
  <2>1. resolved[p] \in Dirs
    BY <1>6 DEF IInv, Building, AssertAgain
  <2>2. CASE Ready(resolved[p]) /\ Goto(p, "publish")
    <3>1. \A q \in Procs : Checked(q)' = IF q = p THEN resolved[p] ELSE Checked(q)
      BY <1>1, <2>2 DEF TypeOK, Goto, Checked
    <3>2. Checked(p)' = resolved[p] /\ \A q \in Procs : q # p => Checked(q)' = Checked(q)
      BY <3>1
    <3>3. [q \in Procs |-> Checked(q)]' = [[q \in Procs |-> Checked(q)] EXCEPT ![p] = resolved[p]]
      BY <3>2
    <3>4. UNCHANGED <<disk, vouched, pipelineDir>>
      BY <1>6 DEF AssertAgain
    <3>5. resolved[p] \in {d \in Dirs : disk[d].marker}
      BY <2>1, <2>2 DEF Ready
    <3> QED
      BY <2>1, <3>3, <3>4, <3>5 DEF Cache!Check
  <2>3. CASE Refuse(p)
    <3>1. Same
      BY <1>1, <1>6, <2>3, EndedUnchecked DEF AssertAgain, Refuse
    <3> QED
      BY <1>6, <3>1, CacheUntouched DEF AssertAgain
  <2> QED
    BY <1>6, <2>2, <2>3 DEF AssertAgain
<1>7. CASE MarkerRaises(p)
  <2>1. resolved[p] \in Dirs /\ resolved[p] \in vouched
    BY <1>7 DEF IInv, Building, MarkerRaises
  <2>2. Same
    BY <1>7, StepsUnchecked DEF MarkerRaises, AssertAgain, Publish
  <2>3. CASE UNCHANGED disk \/ disk' = [disk EXCEPT ![resolved[p]].exists = TRUE]
    <3>1. \A e \in Dirs : disk'[e].marker <=> disk[e].marker
      BY <1>1, <2>3 DEF CacheDir
    <3> QED
      BY <1>7, <2>2, <3>1, CacheUntouched DEF MarkerRaises
  <2>4. CASE write_dadma_cache_marker(resolved[p])
    <3>1. \A e \in Dirs : disk'[e].marker <=> e = resolved[p] \/ disk[e].marker
      BY <1>1, <2>1, <2>4 DEF CacheDir, write_dadma_cache_marker
    <3> QED
      BY <1>7, <2>1, <2>2, <3>1 DEF MarkerRaises, Cache!Mark
  <2> QED
    BY <1>7, <2>3, <2>4 DEF MarkerRaises
<1>8. CASE Publish(p)
  <2>1. resolved[p] \in Dirs /\ pc[p] = "publish"
    BY <1>8 DEF IInv, Building, Publish
  <2>2. Checked(p) = resolved[p] /\ Checked(p) # None
    BY <2>1, EzafeAssumption DEF Checked
  <2>3. PICK op, outcome : Answered(p, op, resolved[p], outcome, loading[p])
    BY <1>8 DEF Publish, Served
  <2>4. Checked(p)' = None /\ \A q \in Procs : q # p => Checked(q)' = Checked(q)
    BY <1>1, <2>3 DEF TypeOK, Answered, Checked
  <2>5. [q \in Procs |-> Checked(q)]' = [[q \in Procs |-> Checked(q)] EXCEPT ![p] = None]
    BY <2>4
  <2>6. pipelineDir' = [pipelineDir EXCEPT ![p] = Checked(p)] /\ UNCHANGED <<disk, vouched>>
    BY <1>8, <2>2 DEF Publish
  <2> QED
    BY <2>2, <2>5, <2>6 DEF Cache!Serve
<1> QED
  BY <1>2, <1>3, <1>4, <1>5, <1>6, <1>7, <1>8 DEF Step

\* A call that begins, or is answered at once, has checked nothing.
LEMMA CacheCalls ==
  ASSUME IInv, NEW p \in Procs, Call(p)
  PROVE  UNCHANGED Cache!vars
<1>1. TypeOK /\ pc[p] = "idle"
  BY DEF IInv, Call, CallBlank, AuditDisabled, CallWithoutDir, CallReusing, CallNotReady, CallLoading
<1>2. UNCHANGED <<disk, vouched, pipelineDir>>
  BY DEF Call, CallBlank, AuditDisabled, CallWithoutDir, CallReusing, CallNotReady, CallLoading
<1>3. CASE \E op, d, outcome, by : Answered(p, op, d, outcome, by)
  BY <1>1, <1>2, <1>3, EndedUnchecked, CacheUntouched
<1>4. CASE \E d \in Dirs : CallLoading(p, d)
  <2>1. pc' = [pc EXCEPT ![p] = "import"] /\ "import" \in Steps
        /\ \A r \in Procs : r # p => resolved'[r] = resolved[r]
    BY <1>1, <1>4 DEF CallLoading, Steps, TypeOK
  <2> QED
    BY <1>1, <1>2, <2>1, StillUnchecked, CacheUntouched
<1> QED
  BY <1>3, <1>4 DEF Call, CallBlank, AuditDisabled, CallWithoutDir, CallReusing, CallNotReady, Served

LEMMA CacheNext == IInv /\ [Next]_vars => [Cache!Next]_(Cache!vars)
<1> SUFFICES ASSUME IInv, [Next]_vars PROVE Cache!Next \/ UNCHANGED Cache!vars
  OBVIOUS
<1>1. CASE UNCHANGED vars
  BY <1>1, CacheUntouched DEF vars, Checked
<1>2. ASSUME NEW p \in Procs, Call(p) PROVE UNCHANGED Cache!vars
  BY <1>2, CacheCalls
<1>3. ASSUME NEW p \in Procs, Step(p) PROVE Cache!Next \/ UNCHANGED Cache!vars
  BY <1>3, CacheSteps DEF Cache!Next
<1>4. ASSUME NEW p \in Procs, Crash(p) PROVE Cache!Stop(p)
  <2>1. Checked(p)' = None /\ \A q \in Procs : q # p => Checked(q)' = Checked(q)
    BY <1>4 DEF IInv, TypeOK, Crash, Checked
  <2>2. [q \in Procs |-> Checked(q)]' = [[q \in Procs |-> Checked(q)] EXCEPT ![p] = None]
    BY <2>1
  <2> QED
    BY <1>4, <2>2 DEF Crash, Cache!Stop
<1>5. ASSUME NEW p \in Procs, NEW d \in Dirs, ProbeInstalls(p, d) PROVE UNCHANGED Cache!vars
  BY <1>5, CacheUntouched DEF ProbeInstalls, Checked
<1>6. ASSUME NEW d \in Dirs, Prefetch(d) \/ Evict(d) PROVE Cache!Next \/ UNCHANGED Cache!vars
  BY <1>6, CacheFiles DEF Cache!Next
<1> QED
  BY <1>1, <1>2, <1>3, <1>4, <1>5, <1>6 DEF Next, Cache!Next

\* The service keeps the promise of the readiness marker: nothing unvouched is ever
\* marked, and a process serves only from a directory it found marked in the call that
\* loaded it, whatever the operator does between the assert and the class attributes.
THEOREM Refinement == Spec => KeepsThePromise
<1>1. Init => Cache!Init
  BY CacheInit
<1>2. IInv /\ [Next]_vars => [Cache!Next]_(Cache!vars)
  BY CacheNext
<1> QED
  BY <1>1, <1>2, Invariance, PTL DEF Spec, KeepsThePromise, Cache!Spec

-----------------------------------------------------------------------------
(***************************************************************************)
(* A call can only come nearer to its end.                                  *)
(***************************************************************************)
ToGo ==
  [idle |-> 0, publish |-> 1, assert |-> 2, mark |-> 3, smoke |-> 4, shim |-> 5, load |-> 6, import |-> 7]

\* A step of its own moves process p on, and no other process.
Nearer(p) == \E s \in Steps : pc' = [pc EXCEPT ![p] = s] /\ ToGo[s] < ToGo[pc[p]]

LEMMA Ending ==
  ASSUME TypeOK, NEW p \in Procs, pc[p] # "idle", pc' = [pc EXCEPT ![p] = "idle"]
  PROVE  Nearer(p)
<1>1. pc[p] \in Steps /\ "idle" \in Steps
  BY DEF TypeOK, Steps
<1>2. ToGo["idle"] < ToGo[pc[p]]
  BY <1>1 DEF ToGo, Steps
<1> QED
  BY <1>1, <1>2 DEF Nearer

\* A step of a call that is not a piece of a download.
Onward(p) == LocalStep(p) \/ Load(p) \/ LoadRaises(p)

LEMMA OnwardNearer ==
  ASSUME TypeOK, NEW p \in Procs, Onward(p)
  PROVE  Nearer(p)
<1>1. pc' = [pc EXCEPT ![p] = "idle"] /\ pc[p] # "idle" => Nearer(p)
  BY Ending
<1>2. Refuse(p) \/ Raise(p) => pc' = [pc EXCEPT ![p] = "idle"]
  BY DEF Refuse, Raise, Answered
<1>3. CASE Import(p)
  <2>1. pc[p] = "import"
    BY <1>3 DEF Import
  <2>2. ASSUME Goto(p, "load") PROVE Nearer(p)
    BY <2>1, <2>2 DEF Goto, Nearer, ToGo, Steps
  <2> QED
    BY <1>1, <1>2, <1>3, <2>1, <2>2 DEF Import
<1>4. CASE Load(p)
  BY <1>4 DEF Load, Goto, Nearer, ToGo, Steps
<1>5. CASE LoadRaises(p)
  BY <1>1, <1>2, <1>5 DEF LoadRaises
<1>6. CASE apply_kasreh_embedding_adapter_shim(p)
  <2>1. pc[p] = "shim" /\ (Goto(p, "smoke") \/ Refuse(p) \/ Raise(p))
    BY <1>6 DEF apply_kasreh_embedding_adapter_shim
  <2>2. ASSUME Goto(p, "smoke") PROVE Nearer(p)
    BY <2>1, <2>2 DEF Goto, Nearer, ToGo, Steps
  <2> QED
    BY <1>1, <1>2, <2>1, <2>2
<1>7. CASE smoke_kasreh_pipeline(p)
  <2>1. pc[p] = "smoke" /\ (Goto(p, "mark") \/ Refuse(p) \/ Raise(p))
    BY <1>7 DEF smoke_kasreh_pipeline
  <2>2. ASSUME Goto(p, "mark") PROVE Nearer(p)
    BY <2>1, <2>2 DEF Goto, Nearer, ToGo, Steps
  <2> QED
    BY <1>1, <1>2, <2>1, <2>2
<1>8. CASE WriteMarker(p)
  BY <1>8 DEF WriteMarker, Goto, Nearer, ToGo, Steps
<1>9. CASE MarkerRaises(p)
  BY <1>1, <1>2, <1>9 DEF MarkerRaises
<1>10. CASE AssertAgain(p)
  <2>1. pc[p] = "assert" /\ (Refuse(p) \/ Goto(p, "publish"))
    BY <1>10 DEF AssertAgain
  <2>2. ASSUME Goto(p, "publish") PROVE Nearer(p)
    BY <2>1, <2>2 DEF Goto, Nearer, ToGo, Steps
  <2> QED
    BY <1>1, <1>2, <2>1, <2>2
<1>11. CASE Publish(p)
  <2>1. pc[p] = "publish" /\ \E op \in Ops : Served(p, op, resolved[p], loading[p])
    BY <1>11 DEF Publish
  <2>2. pc' = [pc EXCEPT ![p] = "idle"]
    BY <2>1 DEF Served, Answered
  <2> QED
    BY <1>1, <2>1, <2>2
<1> QED
  BY <1>3, <1>4, <1>5, <1>6, <1>7, <1>8, <1>9, <1>10, <1>11 DEF Onward, LocalStep

\* Only a call that begins raises what is to go; no step of another process, of the
\* operator or of the network does.
CallsOnlyAdvance ==
  \A p \in Procs :
    /\ Onward(p) => ToGo[pc'[p]] < ToGo[pc[p]]
    /\ pc'[p] # pc[p] => pc[p] = "idle" \/ ToGo[pc'[p]] < ToGo[pc[p]]

LEMMA Moved ==
  ASSUME TypeOK, NEW p \in Procs, Nearer(p)
  PROVE  /\ ToGo[pc'[p]] < ToGo[pc[p]]
         /\ \A q \in Procs : q # p => pc'[q] = pc[q]
BY DEF Nearer, TypeOK

LEMMA OnlyAdvance ==
  ASSUME TypeOK, [Next]_vars
  PROVE  CallsOnlyAdvance
<1> DEFINE Fine == \A q \in Procs : pc'[q] # pc[q] => pc[q] = "idle" \/ ToGo[pc'[q]] < ToGo[pc[q]]
<1>1. \A p \in Procs : Onward(p) => ToGo[pc'[p]] < ToGo[pc[p]]
  BY OnwardNearer, Moved
<1>2. ASSUME UNCHANGED vars PROVE Fine
  BY <1>2 DEF vars
<1>3. ASSUME NEW p \in Procs, Call(p) PROVE Fine
  <2>1. pc[p] = "idle" /\ \E s \in Steps : pc' = [pc EXCEPT ![p] = s]
    BY <1>3 DEF Call, CallBlank, AuditDisabled, CallWithoutDir, CallReusing, CallNotReady,
                CallLoading, Served, Answered, Steps
  <2> QED
    BY <2>1 DEF TypeOK
<1>4. ASSUME NEW p \in Procs, Step(p) PROVE Fine
  <2>1. CASE Download(p)
    BY <2>1 DEF Download
  <2>2. CASE Onward(p)
    BY <2>2, OnwardNearer, Moved
  <2> QED
    BY <1>4, <2>1, <2>2 DEF Step, Onward, LocalStep
<1>5. ASSUME NEW p \in Procs, Crash(p) PROVE Fine
  <2>1. pc' = [pc EXCEPT ![p] = "idle"]
    BY <1>5 DEF Crash
  <2>2. CASE pc[p] = "idle"
    BY <2>1, <2>2 DEF TypeOK
  <2>3. CASE pc[p] # "idle"
    BY <2>1, <2>3, Ending, Moved
  <2> QED
    BY <2>2, <2>3
<1>6. ASSUME NEW p \in Procs, NEW d \in Dirs, ProbeInstalls(p, d) PROVE Fine
  BY <1>6 DEF ProbeInstalls
<1>7. ASSUME NEW d \in Dirs, Prefetch(d) \/ Evict(d) PROVE Fine
  BY <1>7 DEF Prefetch, Evict
<1>8. Fine
  <2> HIDE DEF Fine
  <2> QED
    BY <1>2, <1>3, <1>4, <1>5, <1>6, <1>7 DEF Next
<1> QED
  BY <1>1, <1>8 DEF CallsOnlyAdvance

\* Every step of _get_pipeline, detect and audit_ezafe_kasreh but a piece of a download
\* brings its call nearer to its end, and nothing that other processes, the probe script,
\* the operator or the network do puts a call back, however many there are.
THEOREM CallsRunDown == Spec => [][CallsOnlyAdvance]_vars
<1>1. TypeOK /\ [Next]_vars => [CallsOnlyAdvance]_vars
  BY OnlyAdvance
<1> QED
  BY <1>1, TypeCorrect, PTL DEF Spec
=============================================================================
