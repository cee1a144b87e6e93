----------------------------- MODULE DurableMap -----------------------------
(***************************************************************************)
(* What the JSON-backed stores promise: a map held in memory, a durable    *)
(* copy of it that only ever changes from one complete snapshot to         *)
(* another, and a restart that brings the durable copy back.               *)
(***************************************************************************)
CONSTANTS
  Keys,     \* record ids
  Vals,     \* record bodies
  None,     \* no record, and no snapshot under way
  Down,     \* the process is not running
  Savers    \* callers of Persist

VARIABLES
  mem,      \* the map in memory, or Down
  disk,     \* the durable copy
  saving    \* the snapshot each saver is about to make durable

vars == <<mem, disk, saving>>

Maps == [Keys -> Vals \union {None}]
Empty == [k \in Keys |-> None]

Without(m, ids) == [k \in Keys |-> IF k \in ids THEN None ELSE m[k]]

Init ==
  /\ mem = Empty
  /\ disk = Empty
  /\ saving = [s \in Savers |-> None]

\* Records are added or replaced, and none goes.
Put ==
  /\ mem # Down
  /\ mem' \in Maps
  /\ \A k \in Keys : mem[k] # None => mem'[k] # None
  /\ UNCHANGED <<disk, saving>>

Remove ==
  /\ mem # Down
  /\ \E ids \in SUBSET Keys : mem' = Without(mem, ids)
  /\ UNCHANGED <<disk, saving>>

BeginSave(s) ==
  /\ mem # Down
  /\ saving[s] = None
  /\ saving' = [saving EXCEPT ![s] = mem]
  /\ UNCHANGED <<mem, disk>>

\* The whole snapshot becomes the durable copy, in one step.
EndSave(s) ==
  /\ saving[s] # None
  /\ disk' = saving[s]
  /\ saving' = [saving EXCEPT ![s] = None]
  /\ UNCHANGED mem

AbortSave(s) ==
  /\ saving[s] # None
  /\ saving' = [saving EXCEPT ![s] = None]
  /\ UNCHANGED <<mem, disk>>

Stop ==
  /\ mem # Down
  /\ mem' = Down
  /\ saving' = [s \in Savers |-> None]
  /\ UNCHANGED disk

Start ==
  /\ mem = Down
  /\ mem' = disk
  /\ UNCHANGED <<disk, saving>>

Next ==
  \/ Put \/ Remove \/ Stop \/ Start
  \/ \E s \in Savers : BeginSave(s) \/ EndSave(s) \/ AbortSave(s)

Spec == Init /\ [][Next]_vars
=============================================================================
