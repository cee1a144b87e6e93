----------------------------- MODULE Extractor -----------------------------
(***************************************************************************)
(* Extraction of s09 (extraction.go, cache.go): goroutines share one       *)
(* Extractor; each call looks its chunk's content up in the cache, asks    *)
(* the model on a miss, gleans for a number of rounds, and caches the      *)
(* first answer.  Nothing holds a lock from the lookup to the store.  An   *)
(* answer is the set of entities and the set of relationships it parses    *)
(* to, or the empty text; prompts, parsing and the counters are left out.  *)
(***************************************************************************)
EXTENDS Naturals, FiniteSets

CONSTANTS
  Callers,       \* goroutines that call Extract
  Chunks,        \* ids of the chunks
  Contents,      \* texts
  ContentOf,     \* ContentOf[k] is the text of chunk k
  Answers,       \* what the model may answer: [ents, rels]
  Blank,         \* the empty answer
  None,          \* no cache entry, no chunk, no result
  MaxGleaningRounds

\* What calls collect from the answers, and what the cache holds of one.
Findings == [ents : SUBSET UNION {x.ents : x \in Answers},
             rels : SUBSET UNION {x.rels : x \in Answers}]
Entries == [raw : Answers \union {Blank}, chunk : Chunks]

ASSUME ContentsOfChunks == ContentOf \in [Chunks -> Contents]
ASSUME AnswersAreFindings == Answers \subseteq Findings
ASSUME BlankIsNoAnswer == Blank \notin Answers
ASSUME NoneIsNothing == None \notin Chunks \union Findings \union Entries \union {Blank}
ASSUME RoundsAreNatural == MaxGleaningRounds \in Nat

VARIABLES
  cache,     \* content -> the entry of its key, or None
  at,        \* where a caller is inside Extract
  chunk,     \* the chunk it extracts
  live,      \* its context is not cancelled
  answer,    \* the first answer of the model
  got,       \* entities and relationships collected so far
  round,     \* gleaning rounds done
  outcome,   \* of its last call: "hit", "ok" or "error"
  result,    \* what the last call returned
  filled,    \* history: what the call that filled the cache entry returned
  heard,     \* history: all that the model answered in this call
  warm,      \* history: the entry was usable when the call began, and the
             \* lookup did not fail
  blanked    \* history: contents whose entry was replaced by an empty answer

call == <<at, chunk, live, answer, got, round, outcome, result>>
history == <<filled, heard, warm, blanked>>
vars == <<cache, call, history>>

Nothing == [ents |-> {}, rels |-> {}]
Join(x, y) == [ents |-> x.ents \union y.ents, rels |-> x.rels \union y.rels]

Init ==
  /\ cache = [c \in Contents |-> None]
  /\ at = [g \in Callers |-> "idle"]
  /\ chunk = [g \in Callers |-> None]
  /\ live = [g \in Callers |-> TRUE]
  /\ answer = [g \in Callers |-> Blank]
  /\ got = [g \in Callers |-> Nothing]
  /\ round = [g \in Callers |-> 0]
  /\ outcome = [g \in Callers |-> None]
  /\ result = [g \in Callers |-> None]
  /\ filled = [c \in Contents |-> None]
  /\ heard = [g \in Callers |-> Nothing]
  /\ warm = [g \in Callers |-> FALSE]
  /\ blanked = {}

-----------------------------------------------------------------------------
Parse(a) == IF a = Blank THEN Nothing ELSE a
Content(g) == ContentOf[chunk[g]]
\* An entry whose text is empty counts as a miss.
Usable(e) == e # None /\ e.raw # Blank

\* tagEntitySources, tagRelSources: everything carries the caller's chunk.
Tagged(found, k) == [found |-> found, source |-> k]

\* The call is over, and what it held is gone.
Return(g, how, found, source) ==
  /\ at' = [at EXCEPT ![g] = "idle"]
  /\ outcome' = [outcome EXCEPT ![g] = how]
  /\ result' = [result EXCEPT ![g] = Tagged(found, source)]
  /\ chunk' = [chunk EXCEPT ![g] = None]
  /\ live' = [live EXCEPT ![g] = TRUE]
  /\ answer' = [answer EXCEPT ![g] = Blank]
  /\ got' = [got EXCEPT ![g] = Nothing]
  /\ round' = [round EXCEPT ![g] = 0]
  /\ heard' = [heard EXCEPT ![g] = Nothing]
  /\ warm' = [warm EXCEPT ![g] = FALSE]

\* A call with a context cancelled before returns at once and is no step.
Begin(g, k) ==
  /\ at[g] = "idle"
  /\ at' = [at EXCEPT ![g] = "lookup"]
  /\ chunk' = [chunk EXCEPT ![g] = k]
  /\ warm' = [warm EXCEPT ![g] = Usable(cache[ContentOf[k]])]
  /\ outcome' = [outcome EXCEPT ![g] = None]
  /\ result' = [result EXCEPT ![g] = None]
  /\ UNCHANGED <<cache, live, answer, got, round, filled, heard, blanked>>

\* The context of a call is cancelled.
Cancel(g) ==
  /\ at[g] # "idle"
  /\ live[g]
  /\ live' = [live EXCEPT ![g] = FALSE]
  /\ UNCHANGED <<cache, at, chunk, answer, got, round, outcome, result, history>>

-----------------------------------------------------------------------------
(* The lookup.                                                             *)

\* Mutant: the result carries the chunk whose extraction filled the entry.
HitOfEntry(g) ==
  /\ at[g] = "lookup"
  /\ live[g]
  /\ Usable(cache[Content(g)])
  /\ Return(g, "hit", Parse(cache[Content(g)].raw), cache[Content(g)].chunk)
  /\ UNCHANGED <<cache, filled, blanked>>

Hit(g) ==
  /\ at[g] = "lookup"
  /\ live[g]
  /\ Usable(cache[Content(g)])
  /\ Return(g, "hit", Parse(cache[Content(g)].raw), chunk[g])
  /\ UNCHANGED <<cache, filled, blanked>>

\* Mutant: an entry of another caller's chunk is not a hit.
MissUnlessOwn(g) ==
  /\ at[g] = "lookup"
  /\ live[g]
  /\ Usable(cache[Content(g)]) => cache[Content(g)].chunk # chunk[g]
  /\ at' = [at EXCEPT ![g] = "ask"]
  /\ UNCHANGED <<cache, chunk, live, answer, got, round, outcome, result, history>>

Miss(g) ==
  /\ at[g] = "lookup"
  /\ live[g]
  /\ ~Usable(cache[Content(g)])
  /\ at' = [at EXCEPT ![g] = "ask"]
  /\ UNCHANGED <<cache, chunk, live, answer, got, round, outcome, result, history>>

\* An error of the cache, as under a cancelled context, counts as a miss.
LookupFails(g) ==
  /\ at[g] = "lookup"
  /\ at' = [at EXCEPT ![g] = "ask"]
  /\ warm' = [warm EXCEPT ![g] = FALSE]
  /\ UNCHANGED <<cache, chunk, live, answer, got, round, outcome, result,
                 filled, heard, blanked>>

-----------------------------------------------------------------------------
(* The model.                                                              *)

Ask(g) ==
  /\ at[g] = "ask"
  /\ \E a \in Answers \union {Blank} :
       /\ answer' = [answer EXCEPT ![g] = a]
       /\ got' = [got EXCEPT ![g] = Parse(a)]
       /\ heard' = [heard EXCEPT ![g] = Parse(a)]
  /\ at' = [at EXCEPT ![g] = IF MaxGleaningRounds > 0 THEN "glean" ELSE "store"]
  /\ UNCHANGED <<cache, chunk, live, round, outcome, result, filled, warm, blanked>>

AskFails(g) ==
  /\ at[g] = "ask"
  /\ Return(g, "error", Nothing, chunk[g])
  /\ UNCHANGED <<cache, filled, blanked>>

\* One gleaning round: what is new is added, and a round without a new entity
\* is the last.
Glean(g) ==
  /\ at[g] = "glean"
  /\ live[g]
  /\ \E a \in Answers \union {Blank} :
       /\ got' = [got EXCEPT ![g] = Join(got[g], Parse(a))]
       /\ heard' = [heard EXCEPT ![g] = Join(heard[g], Parse(a))]
       /\ at' = [at EXCEPT ![g] =
                   IF round[g] + 1 < MaxGleaningRounds
                      /\ ~(Parse(a).ents \subseteq got[g].ents)
                   THEN "glean" ELSE "store"]
  /\ round' = [round EXCEPT ![g] = round[g] + 1]
  /\ UNCHANGED <<cache, chunk, live, answer, outcome, result, filled, warm, blanked>>

\* Mutant: a failed round throws away the rounds before it.
GleanFailsToFirst(g) ==
  /\ at[g] = "glean"
  /\ live[g]
  /\ got' = [got EXCEPT ![g] = Parse(answer[g])]
  /\ at' = [at EXCEPT ![g] = "store"]
  /\ UNCHANGED <<cache, chunk, live, answer, round, outcome, result, history>>

\* A failed round is a warning, and what was found so far is kept.
GleanFails(g) ==
  /\ at[g] = "glean"
  /\ live[g]
  /\ at' = [at EXCEPT ![g] = "store"]
  /\ UNCHANGED <<cache, chunk, live, answer, got, round, outcome, result, history>>

\* Mutant: under a cancelled context the loop just goes round again.
GleanSpins(g) ==
  /\ at[g] = "glean"
  /\ ~live[g]
  /\ UNCHANGED vars

\* Under a cancelled context it ends the call, with an error and what there is.
GleanCancelled(g) ==
  /\ at[g] = "glean"
  /\ ~live[g]
  /\ Return(g, "error", got[g], chunk[g])
  /\ UNCHANGED <<cache, filled, blanked>>

-----------------------------------------------------------------------------
(* The store.                                                              *)

Entry(g) == [raw |-> answer[g], chunk |-> chunk[g]]

Store(g) ==
  /\ at[g] = "store"
  /\ live[g]
  /\ cache' = [cache EXCEPT ![Content(g)] = Entry(g)]
  /\ filled' = [filled EXCEPT ![Content(g)] = got[g]]
  /\ blanked' = IF answer[g] = Blank THEN blanked \union {Content(g)} ELSE blanked
  /\ Return(g, "ok", got[g], chunk[g])

\* The cache's error, as under a cancelled context, is a warning.
StoreFails(g) ==
  /\ at[g] = "store"
  /\ Return(g, "ok", got[g], chunk[g])
  /\ UNCHANGED <<cache, filled, blanked>>

Extract(g) ==
  \/ Hit(g) \/ Miss(g) \/ LookupFails(g)
  \/ Ask(g) \/ AskFails(g)
  \/ Glean(g) \/ GleanFails(g) \/ GleanCancelled(g)
  \/ Store(g) \/ StoreFails(g)

Next ==
  \E g \in Callers :
    \/ \E k \in Chunks : Begin(g, k)
    \/ Cancel(g)
    \/ Extract(g)

Spec == Init /\ [][Next]_vars

\* The model answers or fails at last, and a goroutine goes on.
FairSpec == Spec /\ \A g \in Callers : WF_vars(Extract(g))

-----------------------------------------------------------------------------
Returns(g) == at[g] # "idle" /\ at'[g] = "idle"
Within(x, y) == x.ents \subseteq y.ents /\ x.rels \subseteq y.rels

\* A hit gives back nothing but what the call that filled the entry returned,
\* with the caller's own chunk as its source, also when that call was for
\* another chunk with the same text (Extract, step 1).
HitIsFromTheFill ==
  [][\A g \in Callers :
       (Returns(g) /\ outcome'[g] = "hit") =>
         /\ filled[Content(g)] # None
         /\ Within(result'[g].found, filled[Content(g)])
         /\ result'[g].source = chunk[g]]_vars

\* What the cache gives back for an unchanged text is identical to what the
\* extraction gave (docs/en/s09-extraction.md, "Why is the cache mandatory?").
HitIsIdentical ==
  [][\A g \in Callers :
       (Returns(g) /\ outcome'[g] = "hit") =>
         result'[g].found = filled[Content(g)]]_vars

\* A call that asked the model returns all that the model answered, also when
\* a later round failed or the context was cancelled under it, and a hit
\* asked nothing.
NothingHeardIsLost ==
  [][\A g \in Callers :
       Returns(g) =>
         IF outcome'[g] = "hit" THEN heard[g] = Nothing
         ELSE result'[g].found = heard[g]]_vars

\* Once an answer is cached, no call that begins later asks the model for the
\* same text, whichever chunk holds it, unless its lookup failed or an empty
\* answer replaced the entry.
CachedIsNotAskedAgain ==
  \A g \in Callers :
    (at[g] \notin {"idle", "lookup"} /\ warm[g]) => Content(g) \in blanked

\* A call that was begun returns.
ExtractReturns == \A g \in Callers : at[g] = "lookup" ~> at[g] = "idle"
=============================================================================
