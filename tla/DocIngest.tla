------------------------------ MODULE DocIngest ------------------------------
(***************************************************************************)
(* run() of s03's main.go, the client of the status store: one goroutine   *)
(* that loads the store, brings the input document through PENDING ->      *)
(* PROCESSING -> PROCESSED, enqueues it once more, brings a second fixed   *)
(* document to FAILED, tries a forbidden transition on it, lists and       *)
(* prints what failed, and calls Persist.  An error of any other call      *)
(* makes it return without a Persist.  The process ends when run() returns *)
(* or is killed on the way, the machine may stop, and it is run again on   *)
(* this input or another.                                                  *)
(***************************************************************************)
EXTENDS DocStatusStore

CONSTANT
  FailDoc      \* the id of the fixed document of round 3

ASSUME FailDocIsDoc == FailDoc \in Docs

VARIABLES
  pc,          \* the next call of run(), "off" when there is no process
  input        \* the id of the document it was started on

runVars == <<pc, input>>
ingestVars == <<runVars, vars>>

\* The first run finds no file.
IngestInit ==
  /\ Init
  /\ pc = "enqueue"
  /\ input \in Docs

Goto(label) == pc' = label /\ UNCHANGED input

-----------------------------------------------------------------------------
\* A known document is no error, and run() does not ask whether it was new.
EnqueueAt(here, d, next) ==
  /\ pc = here
  /\ IF Known(d) THEN UNCHANGED docs ELSE Enqueue(d)
  /\ Goto(next)

\* run() returns the error of a rejected transition.
MarkAt(here, d, to, effect, next) ==
  /\ pc = here
  /\ IF Accepts(d, to) THEN effect /\ Goto(next) ELSE UNCHANGED docs /\ Goto("refused")

Round1 ==
  \/ EnqueueAt("enqueue", input, "begin")
  \/ MarkAt("begin", input, "processing", MarkProcessing(input), "finish")
  \/ \E list \in ChunkLists :
       MarkAt("finish", input, "processed", MarkProcessed(input, list), "again")

\* A document that is fresh here would be an error.
Round2 ==
  /\ pc = "again"
  /\ IF Known(input) THEN UNCHANGED docs /\ Goto("second")
                     ELSE Enqueue(input) /\ Goto("refused")

Round3 ==
  \/ EnqueueAt("second", FailDoc, "try")
  \/ MarkAt("try", FailDoc, "processing", MarkProcessing(FailDoc), "fail")
  \/ MarkAt("fail", FailDoc, "failed", MarkFailed(FailDoc), "forbid")

\* The error of the forbidden transition is expected and dropped.
Forbidden ==
  /\ pc = "forbid"
  /\ IF Accepts(FailDoc, "processed") THEN MarkProcessed(FailDoc, NoChunks)
                                      ELSE UNCHANGED docs
  /\ Goto("persist")

\* Mutant: the map is also saved while the input is being processed.
SaveOnTheWay(p) ==
  /\ pc \in {"finish", "persist"}
  /\ PersistUnfinished(p) \/ PersistRename(p)
  /\ Goto(IF pc = "persist" /\ call'[p] = "idle" THEN "done" ELSE pc)

\* Persist, with or without an error the last call of run().
Save(p) ==
  /\ pc = "persist"
  /\ PersistUnfinished(p) \/ PersistRename(p)
  /\ Goto(IF call'[p] = "idle" THEN "done" ELSE "persist")

\* run() has returned, or the process is killed.
Stop == Crash /\ Goto("off")

\* The program is run again, on any document.
Start ==
  /\ Restart
  /\ pc' = "enqueue"
  /\ input' \in Docs

IngestNext ==
  \/ (Round1 \/ Round2 \/ Round3 \/ Forbidden) /\ UNCHANGED <<history, fileVars>>
  \/ \E p \in Persisters : Save(p)
  \/ Stop
  \/ Start
  \/ Outage /\ Goto("off")
  \/ Kernel /\ UNCHANGED runVars

IngestSpec == IngestInit /\ [][IngestNext]_ingestVars

-----------------------------------------------------------------------------
\* run() is where the process is.
IngestTypeOK ==
  /\ pc \in {"off", "enqueue", "begin", "finish", "again", "second", "try", "fail",
             "forbid", "persist", "done", "refused"}
  /\ input \in Docs
  /\ pc = "off" <=> ~Up

\* A run never finds a half-finished document: every one in the file is
\* processed or failed, wherever earlier runs were killed.
FileIsSettled ==
  pc # "off" => \A d \in Docs : Loaded[d] # None => Loaded[d].status \in {"processed", "failed"}

\* A run that was killed can be made again: the store refuses a run only if
\* the file already calls its input processed, or if its input is the very
\* text that round 3 lets fail.
KilledRunsResume ==
  pc = "refused" =>
    \/ input = FailDoc
    \/ Loaded[input] # None /\ Loaded[input].status = "processed"
=============================================================================
