----------------------------- MODULE RemoteCall -----------------------------
(***************************************************************************)
(* One call to a remote API: Complete of the chat provider of s02          *)
(* (provider_openai.go) and Embed of the embedder of s06                   *)
(* (embedder_openai.go, withRetry in embedder.go).  Both post a request,   *)
(* retry it while the answer is 429 or 5xx, and give up after MaxRetries   *)
(* retries; Embed cuts its texts into batches first, and puts the vectors  *)
(* of each batch back into the order of its texts.  The vector of the i-th *)
(* text is the number i.  Calls share nothing they write, so one is        *)
(* enough.                                                                 *)
(***************************************************************************)
EXTENDS Integers, Sequences, FiniteSets

CONSTANTS
  MaxTexts,    \* bound: the most texts in a call of Embed
  MaxBatch,    \* bound: the largest BatchSize
  MaxBudget    \* bound: the largest MaxRetries

NoVector == 0   \* a JSON null, or a slot of vecs that nothing filled

VARIABLES
  client, key, texts, batchSize, maxRetries,  \* the call and its settings
  ctx,        \* the caller's context
  pc,         \* "start", "trying", "sent", "waiting" or "returned"
  attempt,    \* the counter of the retry loop
  out,        \* the vectors of the batches answered so far
  result,     \* how the call ended
  posts       \* the requests the server answered: first text, and how

settings == <<client, key, texts, batchSize, maxRetries>>
callVars == <<settings, ctx, pc, attempt, out, result, posts>>

\* Complete is a batch of one.  Its option WithMaxRetries takes any number,
\* the embedder's only numbers from 0 on.
CallInit ==
  /\ key \in BOOLEAN
  /\ \/ client = "Complete" /\ texts = 1 /\ batchSize = 1 /\ maxRetries \in -1..MaxBudget
     \/ client = "Embed" /\ texts \in 0..MaxTexts /\ batchSize \in 0..MaxBatch
                         /\ maxRetries \in 0..MaxBudget
  /\ ctx = "live"
  /\ pc = "start" /\ attempt = 0
  /\ out = <<>> /\ result = "none" /\ posts = <<>>

-----------------------------------------------------------------------------
BatchLen == IF texts - Len(out) < batchSize THEN texts - Len(out) ELSE batchSize

ReturnAs(how) ==
  /\ pc' = "returned"
  /\ result' = how

Answered(how) == posts' = Append(posts, [from |-> Len(out), was |-> how])

\* An empty list costs no request; a missing key or a batch size of zero is
\* an error; a negative MaxRetries leaves the loop before its first turn.
BeginCall ==
  /\ pc = "start"
  /\ CASE texts = 0                   -> ReturnAs("ok")
       [] texts > 0 /\ (~key \/ batchSize <= 0) -> ReturnAs("refused")
       [] OTHER -> IF maxRetries < 0 THEN ReturnAs("exhausted")
                                     ELSE pc' = "trying" /\ UNCHANGED result
  /\ UNCHANGED <<settings, ctx, attempt, out, posts>>

\* A request under a cancelled context is never sent.
Send ==
  /\ pc = "trying"
  /\ IF ctx = "live" THEN pc' = "sent" /\ UNCHANGED result
                     ELSE ReturnAs("permanent")
  /\ UNCHANGED <<settings, ctx, attempt, out, posts>>

-----------------------------------------------------------------------------
\* What the server may put in data: points with an index (BatchLen is one
\* out of range) and the vector of that text, or null.
Points == {[index |-> i, vector |-> v] : i \in 0..BatchLen, v \in {"its", "null"}}
Data == UNION {[1..n -> Points] : n \in 0..(BatchLen + 1)}

\* vecs[dp.Index] = dp.Embedding for each point in turn: the last one wins.
Slot(data, i) ==
  LET at == {k \in DOMAIN data : data[k].index = i}
      last == CHOOSE k \in at : \A j \in at : j <= k
  IN  IF at = {} \/ data[last].vector = "null" THEN NoVector ELSE Len(out) + i + 1

\* Mutant: the vectors in the order in which they came.
ArrivalVecs(data) == [k \in DOMAIN data |-> Len(out) + data[k].index + 1]

Vecs(data) == [k \in 1..BatchLen |-> Slot(data, k - 1)]

WellFormed(data) ==
  /\ Len(data) = BatchLen
  /\ \A k \in DOMAIN data : data[k].index < BatchLen
  /\ \A i \in 0..(BatchLen - 1) : Slot(data, i) # NoVector

\* Mutant: the next batch goes on with what this one left of the retries.
SucceedKeepingAttempt(data) ==
  /\ out' = out \o Vecs(data)
  /\ IF Len(out') < texts THEN pc' = "trying" /\ UNCHANGED result ELSE ReturnAs("ok")
  /\ UNCHANGED attempt

\* A good answer ends the batch, and the last batch ends the call.
Succeed(data) ==
  /\ out' = out \o Vecs(data)
  /\ attempt' = 0
  /\ IF Len(out') < texts THEN pc' = "trying" /\ UNCHANGED result ELSE ReturnAs("ok")

\* Status 200.
Receive ==
  /\ pc = "sent"
  /\ \E data \in Data :
       IF WellFormed(data)
       THEN Succeed(data) /\ Answered("ok")
       ELSE ReturnAs("permanent") /\ Answered("permanent") /\ UNCHANGED <<out, attempt>>
  /\ UNCHANGED <<settings, ctx>>

RetryOrGiveUp ==
  IF attempt < maxRetries THEN pc' = "waiting" /\ attempt' = attempt + 1 /\ UNCHANGED result
                          ELSE ReturnAs("exhausted") /\ UNCHANGED attempt

\* Status 429 or 5xx.
Transient ==
  /\ pc = "sent"
  /\ RetryOrGiveUp
  /\ Answered("transient")
  /\ UNCHANGED <<settings, ctx, out>>

\* Any other status, a body that does not decode, a network error, the
\* client's timeout, or the context cancelled under the request.
Permanent ==
  /\ pc = "sent"
  /\ ReturnAs("permanent")
  /\ Answered("permanent")
  /\ UNCHANGED <<settings, ctx, attempt, out>>

\* Mutant: a sleep that is cut short starts again.
WakeUnlessCancelled ==
  /\ pc = "waiting"
  /\ IF ctx = "live" THEN pc' = "trying" ELSE UNCHANGED pc
  /\ UNCHANGED <<settings, ctx, attempt, out, result, posts>>

\* The delay is over.
Wake ==
  /\ pc = "waiting"
  /\ pc' = "trying"
  /\ UNCHANGED <<settings, ctx, attempt, out, result, posts>>

\* Complete selects on ctx.Done() while it waits; Embed sleeps.
WaitCancelled ==
  /\ pc = "waiting"
  /\ client = "Complete" /\ ctx = "cancelled"
  /\ ReturnAs("cancelled")
  /\ UNCHANGED <<settings, ctx, attempt, out, posts>>

Step == BeginCall \/ Send \/ Receive \/ Transient \/ Permanent \/ Wake \/ WaitCancelled

Cancel ==
  /\ ctx = "live" /\ pc # "returned"
  /\ ctx' = "cancelled"
  /\ UNCHANGED <<settings, pc, attempt, out, result, posts>>

Returned == pc = "returned" /\ UNCHANGED callVars

CallNext == Step \/ Cancel \/ Returned

CallSpec == CallInit /\ [][CallNext]_callVars

\* The server answers or the client's timeout fires, and a delay ends.
CallFairSpec == CallSpec /\ WF_callVars(Step)

-----------------------------------------------------------------------------
(***************************************************************************)
(* A call that succeeds returns the vector of the i-th text at place i,    *)
(* for every text and nothing else, in whatever order, with whatever holes *)
(* or duplicates the server listed them (the contract of Embed).           *)
(***************************************************************************)
VectorsAlignWithTexts ==
  result = "ok" => out = [i \in 1..texts |-> i]

Tries(from) == {k \in DOMAIN posts : posts[k].from = from}

(***************************************************************************)
(* The server sees a batch again only if it answered it 429 or 5xx, the    *)
(* next batch only once this one is answered, nothing after a permanent    *)
(* failure, and no batch more than MaxRetries + 1 times: nothing that was  *)
(* paid for is asked for twice.  And the call gives up on a batch only     *)
(* after it spent all of these on that batch, whatever earlier ones took.  *)
(***************************************************************************)
RetriesByTheRule ==
  /\ \A k \in 2..Len(posts) :
       \/ posts[k - 1].was = "transient" /\ posts[k].from = posts[k - 1].from
       \/ posts[k - 1].was = "ok" /\ posts[k].from = posts[k - 1].from + batchSize
  /\ \A k \in DOMAIN posts : Cardinality(Tries(posts[k].from)) <= maxRetries + 1
  /\ result = "exhausted" =>
       /\ Cardinality(Tries(Len(out))) = maxRetries + 1
       /\ \A k \in Tries(Len(out)) : posts[k].was = "transient"

(***************************************************************************)
(* Every call returns, cancelled or not, whatever the server answers.      *)
(***************************************************************************)
CallReturns == <>(pc = "returned")
=============================================================================
