--------------------------- MODULE MCEzafeBackend ---------------------------
(* Checkpoints for TLC: one task whose keys all map, one with a stray key, two *)
(* tasks, and no adapter key at all.                                           *)
EXTENDS EzafeBackend

CONSTANTS ner, pos, e1, e2, s1

Good == {<<ner, e1>>, <<ner, e2>>}
Stray == {<<ner, e1>>, <<ner, s1>>}
TwoTasks == {<<ner, e1>>, <<pos, e1>>}

CheckpointSample == {Good, Stray, TwoTasks, {}}

\* The refused ones differ only in the line of the shim that refuses them.
GoodOrStray == {Good, Stray}
=============================================================================
