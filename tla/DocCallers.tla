----------------------------- MODULE DocCallers -----------------------------
(***************************************************************************)
(* Goroutines that call the status store of s03 on behalf of documents     *)
(* they work on.  The repository has the store and one sequential client   *)
(* (main.go, DocIngest); this is the store under any number of them, as    *)
(* the comments of doc_status_store.go describe its callers: anyone may    *)
(* Enqueue at any time; a caller works on a document from the MarkProcess- *)
(* ing the store accepted from it to the MarkProcessed or MarkFailed it    *)
(* makes for it, and marks nothing it does not work on.  A rejected call   *)
(* changes nothing and so is no step.                                      *)
(***************************************************************************)
EXTENDS DocStatusStore

CONSTANT
  Callers      \* goroutines that work on documents

ASSUME NoneIsNoDoc == None \notin Docs

VARIABLE
  holds        \* the document each caller works on

callerVars == <<holds, vars>>

NobodyHolds == [c \in Callers |-> None]
CallersInit == Init /\ holds = NobodyHolds

Leave(c) == holds' = [holds EXCEPT ![c] = None]

Pick(c, d) ==
  /\ holds[c] = None
  /\ MarkProcessing(d)
  /\ holds' = [holds EXCEPT ![c] = d]

Settle(c) ==
  /\ holds[c] # None
  /\ \/ \E list \in ChunkLists : MarkProcessed(holds[c], list)
     \/ MarkFailed(holds[c])
  /\ Leave(c)

\* Its context is done: every call returns at once and nothing is marked.
GiveUp(c) ==
  /\ holds[c] # None
  /\ Leave(c)
  /\ UNCHANGED docs

Work(c) == Settle(c) \/ GiveUp(c) \/ \E d \in Docs : Pick(c, d)

CallersNext ==
  \/ /\ \/ \E c \in Callers : Work(c)
        \/ \E d \in Docs : Enqueue(d) /\ UNCHANGED holds
     /\ UNCHANGED <<history, fileVars>>
  \/ /\ \/ \E p \in Persisters : PersistUnfinished(p) \/ PersistRename(p)
        \/ Kernel
        \/ Restart
     /\ UNCHANGED holds
  \/ (Crash \/ Outage) /\ holds' = NobodyHolds

CallersSpec == CallersInit /\ [][CallersNext]_callerVars

-----------------------------------------------------------------------------
\* Callers hold documents, and only while the process runs.
HoldsTypeOK ==
  /\ holds \in [Callers -> Docs \union {None}]
  /\ ~Up => holds = NobodyHolds

\* A document is worked on by one caller at a time, and as long as it is, it
\* is processing: the rejected self-loop of the state machine is the lock.
OneRunPerDoc ==
  \A c \in Callers : holds[c] # None =>
    /\ Known(holds[c])
    /\ docs[holds[c]].status = "processing"
    /\ \A b \in Callers \ {c} : holds[b] # holds[c]
=============================================================================
