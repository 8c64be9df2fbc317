----------------------------- MODULE ReadyCache -----------------------------
(***************************************************************************)
(* What the readiness marker promises, without pipelines, files or calls.    *)
(* A directory is vouched for once a load, shim and smoke test succeeded on   *)
(* it; only then may it be marked; a process takes into service only a        *)
(* directory it has found marked.  Looking and serving are two steps, and the  *)
(* directory may be cleared between them.  EzafeBackend implements this.       *)
(***************************************************************************)
CONSTANTS Procs, Dirs, None

VARIABLES
  vouched,   \* directories vouched for, once and for all
  marked,    \* directories with a marker
  checked,   \* Procs -> the directory it has found marked and not yet served
  serving    \* Procs -> the directory whose pipeline it serves from

vars == <<vouched, marked, checked, serving>>

\* A directory mounted with a marker was vouched for where it was prepared.
Init ==
  /\ marked \in SUBSET Dirs
  /\ vouched = marked
  /\ checked = [p \in Procs |-> None]
  /\ serving = [p \in Procs |-> None]

Vouch(d) == vouched' = vouched \cup {d} /\ UNCHANGED <<marked, checked, serving>>

Mark(d) == d \in vouched /\ marked' = marked \cup {d} /\ UNCHANGED <<vouched, checked, serving>>

Clear(d) == marked' = marked \ {d} /\ UNCHANGED <<vouched, checked, serving>>

Check(p, d) ==
  /\ d \in marked
  /\ checked' = [checked EXCEPT ![p] = d]
  /\ UNCHANGED <<vouched, marked, serving>>

Serve(p) ==
  /\ checked[p] # None
  /\ serving' = [serving EXCEPT ![p] = checked[p]]
  /\ checked' = [checked EXCEPT ![p] = None]
  /\ UNCHANGED <<vouched, marked>>

Stop(p) ==
  /\ serving' = [serving EXCEPT ![p] = None]
  /\ checked' = [checked EXCEPT ![p] = None]
  /\ UNCHANGED <<vouched, marked>>

Next ==
  \/ \E d \in Dirs : Vouch(d) \/ Mark(d) \/ Clear(d)
  \/ \E p \in Procs : Stop(p) \/ Serve(p) \/ \E d \in Dirs : Check(p, d)

Spec == Init /\ [][Next]_vars
=============================================================================
