---------------------------- MODULE EzafeBackend ----------------------------
(***************************************************************************)
(* DadmaEzafeBackend (packages/persian_seo_normalizer/ezafe.py): processes  *)
(* that detect kasreh through a DadmaTools pipeline they keep in a class    *)
(* attribute, and the model cache directories those processes share on      *)
(* disk.  A directory carries a readiness marker once some process has      *)
(* loaded Pipeline(), applied the adapter shim and passed the smoke test.   *)
(* DadmaTools, the network and the operator who mounts, deletes or          *)
(* prefetches model files are external: they are modelled from what the     *)
(* code expects of them.                                                    *)
(***************************************************************************)
EXTENDS Integers, FiniteSets

CONSTANTS
  Procs,          \* Python processes that import the package
  Dirs,           \* absolute cache directories
  Tasks,          \* task names a checkpoint's adapter keys may carry
  EmbeddingKeys,  \* adapter keys the encoder's embedding has
  StrayKeys,      \* adapter keys it has not
  Checkpoints,    \* contents a kasreh checkpoint may have: sets of <<task, key>>
  Requiring,      \* the processes run with PERSIAN_SEO_DADMA_REQUIRE_CACHE=1
  MaxEvictions,   \* bound: deletions of model files by the operator
  None            \* no pipeline, no directory, no answer

Ops == {"detect", "audit"}
Steps == {"idle", "import", "load", "shim", "smoke", "mark", "assert", "publish"}
Outcomes == {"empty", "marks", "pass", "finding", "skipped", "unavailable", "raised"}

Pipeline == [dir : Dirs, keys : SUBSET (EmbeddingKeys \cup StrayKeys), smoked : BOOLEAN]
Answer ==
  [proc : Procs, op : Ops, dir : Dirs \cup {None}, outcome : Outcomes, by : Pipeline \cup {None}]

ASSUME EzafeAssumption ==
  /\ Requiring \subseteq Procs
  /\ EmbeddingKeys \cap StrayKeys = {}
  /\ Checkpoints \subseteq SUBSET (Tasks \X (EmbeddingKeys \cup StrayKeys))
  /\ IsFiniteSet(Tasks)
  /\ MaxEvictions \in Nat
  /\ None \notin Dirs \cup Pipeline \cup Answer

VARIABLES
  disk,           \* Dirs -> what a cache directory holds
  pc,             \* Procs -> next step of _get_pipeline
  resolved,       \* Procs -> directory of the call being served (resolve_dadma_cache_dir)
  loading,        \* Procs -> the Pipeline object the call is building
  pipeline,       \* Procs -> DadmaEzafeBackend._pipeline
  pipelineDir,    \* Procs -> DadmaEzafeBackend._pipeline_cache_dir
  answer,         \* how the call ended that the last step ended, None if it ended none
  evictions,      \* deletions so far
  vouched         \* history: directories a load, shim and smoke succeeded on

vars == <<disk, pc, resolved, loading, pipeline, pipelineDir, answer, evictions, vouched>>

(***************************************************************************)
(* Adapter checkpoints and the shim.  A checkpoint is the set of its        *)
(* adapter keys, each a pair <<task, key>>.                                 *)
(***************************************************************************)
discover_adapter_task_names(adapters) == {k[1] : k \in adapters}

Matched(adapters, task) == {k[2] : k \in {a \in adapters : a[1] = task}}

\* Mutant: the keys without a destination are skipped, the others transferred.
MapSkippingOrphans(adapters, task) == Matched(adapters, task) \cap EmbeddingKeys

\* Partial mapping is refused: a matched key without a destination raises.
map_task_adapters_to_embedding(adapters, task) ==
  IF Matched(adapters, task) \subseteq EmbeddingKeys THEN Matched(adapters, task) ELSE {}

\* The keys the shim transfers; {} stands for each of its refusals.
ShimTransfers(adapters) ==
  LET names == discover_adapter_task_names(adapters)
  IN  IF Cardinality(names) = 1
      THEN map_task_adapters_to_embedding(adapters, CHOOSE t \in names : TRUE)
      ELSE {}

(***************************************************************************)
(* The directories.                                                         *)
(***************************************************************************)
FileStates == {"absent", "partial", "whole"}

CacheDir == [exists : BOOLEAN, files : FileStates, ckpt : Checkpoints, marker : BOOLEAN]

\* assert_dadma_cache_ready
Ready(d) == disk[d].exists /\ disk[d].marker

\* write_dadma_cache_marker creates the directory when it is missing.
write_dadma_cache_marker(d) ==
  disk' = [disk EXCEPT ![d].exists = TRUE, ![d].marker = TRUE]

TypeOK ==
  /\ disk \in [Dirs -> CacheDir]
  /\ pc \in [Procs -> Steps]
  /\ resolved \in [Procs -> Dirs \cup {None}]
  /\ loading \in [Procs -> Pipeline \cup {None}]
  /\ pipeline \in [Procs -> Pipeline \cup {None}]
  /\ pipelineDir \in [Procs -> Dirs \cup {None}]
  /\ answer \in Answer \cup {None}
  /\ evictions \in 0..MaxEvictions
  /\ vouched \subseteq Dirs

\* A cache is missing, prefetched without a marker (whole or interrupted), or
\* mounted prepared: a marker on a directory another host has vouched for.
PreparedOrCold(c) ==
  /\ c.exists \/ (c.files = "absent" /\ ~c.marker)
  /\ c.marker => c.files = "whole" /\ ShimTransfers(c.ckpt) # {}

Init ==
  /\ disk \in {f \in [Dirs -> CacheDir] : \A d \in Dirs : PreparedOrCold(f[d])}
  /\ pc = [p \in Procs |-> "idle"]
  /\ resolved = [p \in Procs |-> None]
  /\ loading = [p \in Procs |-> None]
  /\ pipeline = [p \in Procs |-> None]
  /\ pipelineDir = [p \in Procs |-> None]
  /\ answer = None
  /\ evictions = 0
  /\ vouched = {d \in Dirs : disk[d].marker}

(***************************************************************************)
(* One call of detect or of audit_ezafe_kasreh.                             *)
(***************************************************************************)

\* detect lets EzafeBackendUnavailable and EzafeCacheError out; the audit turns
\* those two, and only those two, into a skipped finding.
Refused(op) == IF op = "audit" THEN "skipped" ELSE "unavailable"

Answered(p, op, d, outcome, by) ==
  /\ answer' = [proc |-> p, op |-> op, dir |-> d, outcome |-> outcome, by |-> by]
  /\ pc' = [pc EXCEPT ![p] = "idle"]
  /\ resolved' = [resolved EXCEPT ![p] = None]
  /\ loading' = [loading EXCEPT ![p] = None]

\* The running pipeline marks the text, of which the audit reports the tokens with
\* ezafe, or raises: only an ImportError becomes an EzafeBackendUnavailable.
Served(p, op, d, pl) ==
  \E outcome \in (IF op = "audit" THEN {"pass", "finding"} ELSE {"marks"})
                 \cup {Refused(op), "raised"} :
    Answered(p, op, d, outcome, pl)

Goto(p, step) ==
  /\ pc' = [pc EXCEPT ![p] = step]
  /\ answer' = None
  /\ UNCHANGED resolved

\* Blank text is answered with no mark and no finding, without a backend.
CallBlank(p) ==
  /\ pc[p] = "idle"
  /\ \E op \in Ops : Answered(p, op, None, "empty", None)
  /\ UNCHANGED <<disk, pipeline, pipelineDir, evictions, vouched>>

\* Without force the audit is disabled (EZAFE_CUSTOMER_AUDIT_ENABLED is False).
AuditDisabled(p) ==
  /\ pc[p] = "idle"
  /\ Answered(p, "audit", None, "skipped", None)
  /\ UNCHANGED <<disk, pipeline, pipelineDir, evictions, vouched>>

\* resolve_dadma_cache_dir: neither argument nor environment names an absolute path.
CallWithoutDir(p) ==
  /\ pc[p] = "idle"
  /\ \E op \in Ops : Answered(p, op, None, Refused(op), None)
  /\ UNCHANGED <<disk, pipeline, pipelineDir, evictions, vouched>>

\* Mutant: the pipeline in memory is reused whatever directory is asked for.
ReusableAnywhere(p, d) == pipeline[p] # None

Reusable(p, d) == pipeline[p] # None /\ pipelineDir[p] = d

CallReusing(p, d) ==
  /\ pc[p] = "idle"
  /\ Reusable(p, d)
  /\ \E op \in Ops : Served(p, op, d, pipeline[p])
  /\ UNCHANGED <<disk, pipeline, pipelineDir, evictions, vouched>>

CallNotReady(p, d) ==
  /\ pc[p] = "idle"
  /\ ~Reusable(p, d)
  /\ p \in Requiring /\ ~Ready(d)
  /\ \E op \in Ops : Answered(p, op, d, Refused(op), None)
  /\ UNCHANGED <<disk, pipeline, pipelineDir, evictions, vouched>>

\* Mutant: the cold path is open to every process.
CallLoadingCold(p, d) ==
  /\ pc[p] = "idle"
  /\ ~Reusable(p, d)
  /\ resolved' = [resolved EXCEPT ![p] = d]
  /\ pc' = [pc EXCEPT ![p] = "import"]
  /\ answer' = None
  /\ UNCHANGED <<disk, loading, pipeline, pipelineDir, evictions, vouched>>

\* Past the readiness assert, or with a warning when the cache is not required.
CallLoading(p, d) ==
  /\ pc[p] = "idle"
  /\ ~Reusable(p, d)
  /\ p \in Requiring => Ready(d)
  /\ resolved' = [resolved EXCEPT ![p] = d]
  /\ pc' = [pc EXCEPT ![p] = "import"]
  /\ answer' = None
  /\ UNCHANGED <<disk, loading, pipeline, pipelineDir, evictions, vouched>>

\* Whether it is detect that runs or the audit matters only to how the call ends.
Refuse(p) == \E op \in Ops : Answered(p, op, resolved[p], Refused(op), None)

Raise(p) == \E op \in Ops : Answered(p, op, resolved[p], "raised", None)

\* import dadmatools, with its extras installed or not
Import(p) ==
  /\ pc[p] = "import"
  /\ \/ Goto(p, "load") /\ UNCHANGED loading
     \/ Refuse(p)
  /\ UNCHANGED <<disk, pipeline, pipelineDir, evictions, vouched>>

\* Pipeline() downloads what the directory lacks, in any number of pieces.
Download(p) ==
  /\ pc[p] = "load"
  /\ disk[resolved[p]].files # "whole"
  /\ \E f \in {"partial", "whole"} :
       disk' = [disk EXCEPT ![resolved[p]].exists = TRUE, ![resolved[p]].files = f]
  /\ answer' = None
  /\ UNCHANGED <<pc, resolved, loading, pipeline, pipelineDir, evictions, vouched>>

\* Pipeline() returns: the adapters on the embedding are random as yet.
Load(p) ==
  /\ pc[p] = "load"
  /\ disk[resolved[p]].files = "whole"
  /\ loading' = [loading EXCEPT ![p] = [dir |-> resolved[p], keys |-> {}, smoked |-> FALSE]]
  /\ Goto(p, "shim")
  /\ UNCHANGED <<disk, pipeline, pipelineDir, evictions, vouched>>

\* Pipeline() raises.  A missing runtime dependency is an ImportError, which
\* detect makes an EzafeBackendUnavailable; an unreachable host or a truncated
\* file is neither of the two errors anything above catches.
LoadRaises(p) ==
  /\ pc[p] = "load"
  /\ \/ Refuse(p)
     \/ disk[resolved[p]].files # "whole" /\ Raise(p)
  /\ UNCHANGED <<disk, pipeline, pipelineDir, evictions, vouched>>

\* All the shim reads is the checkpoint, which may be there when other files are not;
\* torch may fail to read it, or to load the state it is given.
apply_kasreh_embedding_adapter_shim(p) ==
  LET keys == ShimTransfers(disk[resolved[p]].ckpt)
  IN  /\ pc[p] = "shim"
      /\ \/ /\ disk[resolved[p]].files # "absent" /\ keys # {}
            /\ loading' = [loading EXCEPT ![p].keys = keys]
            /\ Goto(p, "smoke")
         \/ (disk[resolved[p]].files # "whole" \/ keys = {}) /\ Refuse(p)
         \/ Raise(p)
      /\ UNCHANGED <<disk, pipeline, pipelineDir, evictions, vouched>>

\* Mutant: a failed smoke test is not a reason to stop.
SmokeAdvisory(p) ==
  /\ pc[p] = "smoke"
  /\ \/ /\ loading' = [loading EXCEPT ![p].smoked = TRUE]
        /\ vouched' = vouched \cup {resolved[p]}
     \/ UNCHANGED <<loading, vouched>>
  /\ Goto(p, "mark")
  /\ UNCHANGED <<disk, pipeline, pipelineDir, evictions>>

\* The model may miss the ezafe of the smoke phrase even with its adapters, or
\* the pipeline raise on it.
smoke_kasreh_pipeline(p) ==
  /\ pc[p] = "smoke"
  /\ \/ /\ loading' = [loading EXCEPT ![p].smoked = TRUE]
        /\ vouched' = vouched \cup {resolved[p]}
        /\ Goto(p, "mark")
     \/ (Refuse(p) \/ Raise(p)) /\ UNCHANGED vouched
  /\ UNCHANGED <<disk, pipeline, pipelineDir, evictions>>

WriteMarker(p) ==
  /\ pc[p] = "mark"
  /\ write_dadma_cache_marker(resolved[p])
  /\ Goto(p, "assert")
  /\ UNCHANGED <<loading, pipeline, pipelineDir, evictions, vouched>>

\* A read-only or full disk: the directory may be there by then, and an empty
\* marker in it, which assert_dadma_cache_ready takes for a marker.
MarkerRaises(p) ==
  /\ pc[p] = "mark"
  /\ \/ UNCHANGED disk
     \/ disk' = [disk EXCEPT ![resolved[p]].exists = TRUE]
     \/ write_dadma_cache_marker(resolved[p])
  /\ Raise(p)
  /\ UNCHANGED <<pipeline, pipelineDir, evictions, vouched>>

\* Mutant: the class attributes are set before the directory is asserted.
PublishFirst(p) ==
  /\ pc[p] = "assert"
  /\ pipeline' = [pipeline EXCEPT ![p] = loading[p]]
  /\ pipelineDir' = [pipelineDir EXCEPT ![p] = resolved[p]]
  /\ \/ Ready(resolved[p]) /\ Goto(p, "publish") /\ UNCHANGED loading
     \/ ~Ready(resolved[p]) /\ Refuse(p)
  /\ UNCHANGED <<disk, evictions, vouched>>

\* Mutant: a call whose directory was cleared waits for the marker to come back.
AssertWaits(p) ==
  /\ pc[p] = "assert"
  /\ Ready(resolved[p])
  /\ Goto(p, "publish")
  /\ UNCHANGED <<disk, loading, pipeline, pipelineDir, evictions, vouched>>

\* The directory is asserted once more, after the marker was written.
AssertAgain(p) ==
  /\ pc[p] = "assert"
  /\ \/ Ready(resolved[p]) /\ Goto(p, "publish") /\ UNCHANGED loading
     \/ ~Ready(resolved[p]) /\ Refuse(p)
  /\ UNCHANGED <<disk, pipeline, pipelineDir, evictions, vouched>>

\* Mutant: the two class attributes are swapped.
PublishSwapped(p) ==
  /\ pc[p] = "publish"
  /\ pipeline' = [pipeline EXCEPT ![p] = resolved[p]]
  /\ pipelineDir' = [pipelineDir EXCEPT ![p] = loading[p]]
  /\ (\E op \in Ops : Served(p, op, resolved[p], loading[p]))
  /\ UNCHANGED <<disk, evictions, vouched>>

\* Both class attributes are set, whatever became of the directory since the assert,
\* and the text is marked: memory of this process from here on.
Publish(p) ==
  /\ pc[p] = "publish"
  /\ pipeline' = [pipeline EXCEPT ![p] = loading[p]]
  /\ pipelineDir' = [pipelineDir EXCEPT ![p] = resolved[p]]
  /\ (\E op \in Ops : Served(p, op, resolved[p], loading[p]))
  /\ UNCHANGED <<disk, evictions, vouched>>

(***************************************************************************)
(* Around the calls.                                                        *)
(***************************************************************************)

\* prefetch_and_probe_kasreh.py: a fresh process whose class attribute is
\* overwritten by a pipeline that was never shimmed, its directory left alone.
ProbeInstalls(p, d) ==
  /\ pc[p] = "idle"
  /\ pipelineDir[p] = None
  /\ disk[d].files = "whole"
  /\ pipeline' = [pipeline EXCEPT ![p] = [dir |-> d, keys |-> {}, smoked |-> FALSE]]
  /\ answer' = None
  /\ UNCHANGED <<disk, pc, resolved, loading, pipelineDir, evictions, vouched>>

\* Its prefetch: one file after the other, each with retries; no marker.
Prefetch(d) ==
  /\ disk[d].files # "whole"
  /\ \E f \in {"partial", "whole"} : disk' = [disk EXCEPT ![d].exists = TRUE, ![d].files = f]
  /\ answer' = None
  /\ UNCHANGED <<pc, resolved, loading, pipeline, pipelineDir, evictions, vouched>>

\* A process dies between any two steps: memory goes, the disk stays.
Crash(p) ==
  /\ pc' = [pc EXCEPT ![p] = "idle"]
  /\ resolved' = [resolved EXCEPT ![p] = None]
  /\ loading' = [loading EXCEPT ![p] = None]
  /\ pipeline' = [pipeline EXCEPT ![p] = None]
  /\ pipelineDir' = [pipelineDir EXCEPT ![p] = None]
  /\ answer' = None
  /\ UNCHANGED <<disk, evictions, vouched>>

\* The operator clears the directory (the marker goes with it) or only some
\* model files.
Evict(d) ==
  /\ disk[d].exists /\ evictions < MaxEvictions
  /\ evictions' = evictions + 1
  /\ \/ disk' = [disk EXCEPT ![d].exists = FALSE, ![d].files = "absent", ![d].marker = FALSE]
     \/ disk[d].files = "whole" /\ disk' = [disk EXCEPT ![d].files = "partial"]
  /\ answer' = None
  /\ UNCHANGED <<pc, resolved, loading, pipeline, pipelineDir, vouched>>

Step(p) ==
  \/ Import(p) \/ Download(p) \/ Load(p) \/ LoadRaises(p)
  \/ apply_kasreh_embedding_adapter_shim(p) \/ smoke_kasreh_pipeline(p)
  \/ WriteMarker(p) \/ MarkerRaises(p) \/ AssertAgain(p) \/ Publish(p)

Call(p) ==
  \/ CallBlank(p) \/ AuditDisabled(p) \/ CallWithoutDir(p)
  \/ \E d \in Dirs : CallReusing(p, d) \/ CallNotReady(p, d) \/ CallLoading(p, d)

Next ==
  \/ \E p \in Procs : Call(p) \/ Step(p) \/ Crash(p)
  \/ \E p \in Procs, d \in Dirs : ProbeInstalls(p, d)
  \/ \E d \in Dirs : Prefetch(d) \/ Evict(d)

Spec == Init /\ [][Next]_vars

\* The steps a call takes in its own process.  Pipeline() is not among them: it asks
\* the network, has no timeout, and need neither return nor raise.
LocalStep(p) ==
  \/ Import(p) \/ apply_kasreh_embedding_adapter_shim(p) \/ smoke_kasreh_pipeline(p)
  \/ WriteMarker(p) \/ MarkerRaises(p) \/ AssertAgain(p) \/ Publish(p)

FairSpec == Spec /\ \A p \in Procs : WF_vars(LocalStep(p))

(***************************************************************************)
(* Properties.                                                              *)
(***************************************************************************)

Verified(pl) == pl.smoked /\ pl.keys # {}

\* Whatever a call reports about the text (marks, a finding or a clean pass) was
\* computed by a pipeline of the directory the call asked for, whose adapters
\* were transferred and whose smoke test passed in this process: neither a
\* refusal nor a pipeline of another directory or of the probe script ever
\* turns into an answer.
AnswersAreVerified ==
  answer # None /\ answer.outcome \in {"marks", "pass", "finding"} =>
    /\ answer.by # None
    /\ Verified(answer.by)
    /\ answer.by.dir = answer.dir

\* The marker only ever stands in a directory that some process, here or on the
\* host that prepared it, has loaded, shimmed and smoke-tested; crashes between
\* the steps, interrupted downloads and a second process do not change that.
MarkerVouched == \A d \in Dirs : disk[d].marker => d \in vouched

\* While nobody deletes model files, a directory with a marker is complete, so a
\* process that requires the cache never finds itself downloading.
MarkerMeansWhole ==
  evictions = 0 =>
    /\ \A d \in Dirs : disk[d].marker => disk[d].exists /\ disk[d].files = "whole"
    /\ \A p \in Requiring : pc[p] # "idle" => disk[resolved[p]].files = "whole"

\* The shim is all or nothing: a pipeline in service carries every adapter key of
\* its checkpoint, which name one task and all have a place in the embedding.
ShimIsTotal ==
  \A p \in Procs : pipeline[p] # None /\ pipeline[p].smoked =>
    /\ pipeline[p].keys = {k[2] : k \in disk[pipeline[p].dir].ckpt}
    /\ \A j, k \in disk[pipeline[p].dir].ckpt : j[1] = k[1]

\* The cached pipeline changes only by a restart, by the probe script or by a
\* call that succeeds: a call that fails half-way leaves the one in service.
PipelineChangesWhole ==
  [][\A p \in Procs : pipeline'[p] # pipeline[p] =>
       \/ pipeline'[p] = None /\ pc'[p] = "idle"
       \/ pipelineDir'[p] = None
       \/ /\ Verified(pipeline'[p])
          /\ pipelineDir'[p] = pipeline'[p].dir
          /\ answer' # None /\ answer'.proc = p /\ answer'.by = pipeline'[p]]_vars

\* The directory a process has found marked since the load it is about to publish.
Checked(p) == IF pc[p] = "publish" THEN resolved[p] ELSE None

\* The service keeps the promise of the readiness marker (module ReadyCache): a
\* directory is marked only after it was vouched for, and a process takes into service
\* only a directory that it found marked in that same call, although the operator may
\* have cleared it again by the time the class attributes are set.
Cache ==
  INSTANCE ReadyCache WITH marked <- {d \in Dirs : disk[d].marker},
                           checked <- [p \in Procs |-> Checked(p)],
                           serving <- pipelineDir

KeepsThePromise == Cache!Spec

\* Nothing but Pipeline() holds a call up: not another process that loads the same
\* directory, not an operator who clears it between the marker and the second assert.
\* It gets to Pipeline() or ends, and once Pipeline() has returned it ends, by an answer,
\* a refusal, an exception or the death of its process.  How long Pipeline() itself takes
\* is not said.
CallsEnd == \A p \in Procs : []<>(pc[p] \in {"load", "idle"})

\* ezafe.py:503-504 says of the audit that when the backend is unavailable it returns
\* a skipped finding and does not raise.
AuditNeverRaises ==
  answer # None /\ answer.op = "audit" => answer.outcome # "raised"
=============================================================================
