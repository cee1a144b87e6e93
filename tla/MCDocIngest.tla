---------------------------- MODULE MCDocIngest ----------------------------
(* Small instances for TLC of the clients of the status store: either any  *)
(* callers or run() of main.go, one of them in a behaviour.                *)
EXTENDS DocCallers, DocIngest, TLC

VARIABLE client

DocRecords == Recs

\* Inodes and callers are only ever compared: any permutation is a symmetry.
MCSymmetry == Permutations(Inodes) \union Permutations(Callers)

MCInit ==
  \/ client = "callers" /\ CallersInit /\ pc = "off" /\ input = FailDoc
  \/ client = "run" /\ IngestInit /\ holds = NobodyHolds

\* Bound: the callers compete for one document.
OneDocument == FailDoc \notin ListByStatus("pending")

MCNext ==
  /\ UNCHANGED client
  /\ \/ client = "callers" /\ CallersNext /\ OneDocument' /\ UNCHANGED runVars
     \/ client = "run" /\ IngestNext /\ UNCHANGED holds

MCSpec == MCInit /\ [][MCNext]_<<client, holds, runVars, vars>>
=============================================================================
