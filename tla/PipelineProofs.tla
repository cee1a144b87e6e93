--------------------------- MODULE PipelineProofs ---------------------------
(***************************************************************************)
(* Proofs about the two halves of the pipeline that ask a model: the       *)
(* extraction of s09, for every number of callers, chunks, answers and     *)
(* gleaning rounds (Extractor), and the minimum loop of s01, for all       *)
(* documents and texts (Pipeline).  None is the same value in both.        *)
(***************************************************************************)
EXTENDS Extractor, Pipeline, Induction, TLAPS

-----------------------------------------------------------------------------
(***************************************************************************)
(* Extraction: cache and answers.                                          *)
(***************************************************************************)

Places == {"idle", "lookup", "ask", "glean", "store"}

TypeOK ==
  /\ cache \in [Contents -> Entries \union {None}]
  /\ at \in [Callers -> Places]
  /\ chunk \in [Callers -> Chunks \union {None}]
  /\ \A g \in Callers : at[g] # "idle" => chunk[g] \in Chunks
  /\ live \in [Callers -> BOOLEAN]
  /\ answer \in [Callers -> Answers \union {Blank}]
  /\ got \in [Callers -> Findings]
  /\ round \in [Callers -> Nat]
  /\ outcome \in [Callers -> {"hit", "ok", "error", None}]
  /\ DOMAIN result = Callers
  /\ filled \in [Contents -> Findings \union {None}]
  /\ heard \in [Callers -> Findings]
  /\ warm \in [Callers -> BOOLEAN]
  /\ blanked \subseteq Contents

\* What a call has collected is what it heard, and holds its first answer.
Collected ==
  \A g \in Callers :
    /\ got[g] = heard[g]
    /\ at[g] \in {"idle", "lookup", "ask"} => got[g] = Nothing
    /\ at[g] \in {"glean", "store"} => Within(Parse(answer[g]), got[g])

\* A usable entry is a part of what the call that made it returned.
EntriesAreParts ==
  \A c \in Contents : Usable(cache[c]) =>
    filled[c] # None /\ Within(Parse(cache[c].raw), filled[c])

\* An entry that was usable when a call began is still there when the call
\* looks, or an empty answer replaced it.
WarmStays ==
  \A g \in Callers :
    at[g] = "lookup" /\ warm[g] => Usable(cache[Content(g)]) \/ Content(g) \in blanked

\* The inductive invariant.
ExtractInv == TypeOK /\ Collected /\ EntriesAreParts /\ WarmStays /\ CachedIsNotAskedAgain

-----------------------------------------------------------------------------
\* Findings are put together without losing any.
LEMMA FindingsJoin ==
  /\ Nothing \in Findings
  /\ \A a \in Answers \union {Blank} : Parse(a) \in Findings
  /\ \A x, y \in Findings : Join(x, y) \in Findings /\ Within(x, Join(x, y)) /\ Within(y, Join(x, y))
  /\ \A x \in Findings : Within(x, x)
  /\ \A x, y, z \in Findings : Within(x, y) /\ Within(y, z) => Within(x, z)
BY AnswersAreFindings DEF Findings, Nothing, Parse, Join, Within

LEMMA ContentIsKnown ==
  ASSUME TypeOK, NEW g \in Callers, at[g] # "idle"
  PROVE  chunk[g] \in Chunks /\ Content(g) \in Contents
BY ContentsOfChunks DEF TypeOK, Content

LEMMA InitInv == Init => ExtractInv
<1> SUFFICES ASSUME Init PROVE ExtractInv
  OBVIOUS
<1>1. TypeOK
  BY FindingsJoin DEF Init, TypeOK, Places
<1>2. Collected /\ WarmStays /\ CachedIsNotAskedAgain
  BY DEF Init, Collected, WarmStays, CachedIsNotAskedAgain
<1>3. EntriesAreParts
  BY DEF Init, EntriesAreParts, Usable
<1> QED
  BY <1>1, <1>2, <1>3 DEF ExtractInv

-----------------------------------------------------------------------------
(* The end of a call.                                                      *)

\* What a return leaves of the call, and that it leaves the others alone.
LEMMA AfterReturn ==
  ASSUME TypeOK, NEW g \in Callers, NEW how \in {"hit", "ok", "error"}, NEW found, NEW source,
         Return(g, how, found, source)
  PROVE  /\ at' \in [Callers -> Places] /\ chunk' \in [Callers -> Chunks \union {None}]
         /\ live' \in [Callers -> BOOLEAN] /\ answer' \in [Callers -> Answers \union {Blank}]
         /\ got' \in [Callers -> Findings] /\ round' \in [Callers -> Nat]
         /\ outcome' \in [Callers -> {"hit", "ok", "error", None}] /\ DOMAIN result' = Callers
         /\ heard' \in [Callers -> Findings] /\ warm' \in [Callers -> BOOLEAN]
         /\ at'[g] = "idle" /\ got'[g] = Nothing /\ heard'[g] = Nothing
         /\ outcome'[g] = how /\ result'[g] = Tagged(found, source)
         /\ \A h \in Callers \ {g} :
              /\ at'[h] = at[h] /\ chunk'[h] = chunk[h] /\ answer'[h] = answer[h]
              /\ got'[h] = got[h] /\ heard'[h] = heard[h] /\ warm'[h] = warm[h]
<1>1. Nothing \in Findings
  BY FindingsJoin
<1>2. /\ at' \in [Callers -> Places] /\ chunk' \in [Callers -> Chunks \union {None}]
      /\ live' \in [Callers -> BOOLEAN] /\ answer' \in [Callers -> Answers \union {Blank}]
      /\ warm' \in [Callers -> BOOLEAN]
  BY DEF TypeOK, Return, Places
<1>3. /\ got' \in [Callers -> Findings] /\ heard' \in [Callers -> Findings]
      /\ round' \in [Callers -> Nat]
      /\ outcome' \in [Callers -> {"hit", "ok", "error", None}]
      /\ DOMAIN result' = Callers
  BY <1>1 DEF TypeOK, Return
<1>4. /\ at'[g] = "idle" /\ got'[g] = Nothing /\ heard'[g] = Nothing
      /\ outcome'[g] = how /\ result'[g] = Tagged(found, source)
  BY DEF TypeOK, Return
<1>5. ASSUME NEW h \in Callers \ {g}
      PROVE  /\ at'[h] = at[h] /\ chunk'[h] = chunk[h] /\ answer'[h] = answer[h]
             /\ got'[h] = got[h] /\ heard'[h] = heard[h] /\ warm'[h] = warm[h]
  BY DEF TypeOK, Return
<1> QED
  BY <1>2, <1>3, <1>4, <1>5

\* A call that returns without storing.
LEMMA ReturnKeeps ==
  ASSUME ExtractInv, NEW g \in Callers, NEW how \in {"hit", "ok", "error"}, NEW found, NEW source,
         Return(g, how, found, source), UNCHANGED <<cache, filled, blanked>>
  PROVE  ExtractInv'
<1> USE AfterReturn DEF ExtractInv
<1>1. TypeOK'
  BY DEF TypeOK
<1>2. Collected'
  BY DEF Collected
<1>3. EntriesAreParts'
  BY DEF EntriesAreParts
<1>4. WarmStays'
  BY DEF WarmStays, Content
<1>5. CachedIsNotAskedAgain'
  BY DEF CachedIsNotAskedAgain, Content
<1> QED
  BY <1>1, <1>2, <1>3, <1>4, <1>5

LEMMA StoreKeeps ==
  ASSUME ExtractInv, NEW g \in Callers, Store(g)
  PROVE  ExtractInv'
<1>1. at[g] = "store" /\ chunk[g] \in Chunks /\ Content(g) \in Contents
  BY ContentIsKnown DEF Store, ExtractInv
<1>2. Return(g, "ok", got[g], chunk[g]) /\ TypeOK
  BY DEF Store, ExtractInv
<1>3. Entry(g) \in Entries /\ Entry(g).raw = answer[g] /\ Entry(g) # None
  BY <1>1, <1>2, NoneIsNothing DEF Entry, Entries, TypeOK
<1>4. /\ cache' \in [Contents -> Entries \union {None}]
      /\ filled' \in [Contents -> Findings \union {None}]
      /\ blanked' \subseteq Contents
      /\ cache'[Content(g)] = Entry(g) /\ filled'[Content(g)] = got[g]
      /\ \A c \in Contents \ {Content(g)} : cache'[c] = cache[c] /\ filled'[c] = filled[c]
      /\ blanked \subseteq blanked'
      /\ answer[g] = Blank => Content(g) \in blanked'
  BY <1>1, <1>2, <1>3 DEF Store, TypeOK
<1>5. TypeOK'
  BY <1>2, <1>4, AfterReturn DEF TypeOK
<1>6. Collected'
  BY <1>2, AfterReturn DEF ExtractInv, Collected
<1>7. EntriesAreParts'
  <2>1. got[g] \in Findings /\ got[g] # None /\ Within(Parse(answer[g]), got[g])
    BY <1>1, <1>2, NoneIsNothing DEF ExtractInv, Collected, TypeOK
  <2> QED
    BY <1>3, <1>4, <2>1 DEF ExtractInv, EntriesAreParts
<1>8. Usable(cache'[Content(g)]) \/ Content(g) \in blanked'
  BY <1>3, <1>4 DEF Usable
<1>9. ASSUME NEW h \in Callers, at'[h] # "idle"
      PROVE  h # g /\ chunk'[h] = chunk[h] /\ at'[h] = at[h] /\ warm'[h] = warm[h]
             /\ ContentOf[chunk[h]] \in Contents
  BY <1>2, <1>9, AfterReturn, ContentIsKnown DEF Content
<1>10. WarmStays'
  BY <1>4, <1>8, <1>9 DEF ExtractInv, WarmStays, Content
<1>11. CachedIsNotAskedAgain'
  BY <1>4, <1>9 DEF ExtractInv, CachedIsNotAskedAgain, Content
<1> QED
  BY <1>5, <1>6, <1>7, <1>10, <1>11 DEF ExtractInv

-----------------------------------------------------------------------------
(* The steps inside a call.                                                *)

LEMMA BeginKeeps ==
  ASSUME ExtractInv, NEW g \in Callers, NEW k \in Chunks, Begin(g, k)
  PROVE  ExtractInv'
<1>1. TypeOK'
  BY DEF Begin, ExtractInv, TypeOK, Places, Usable
<1>2. Collected'
  BY DEF Begin, ExtractInv, TypeOK, Collected
<1>3. EntriesAreParts'
  BY DEF Begin, ExtractInv, EntriesAreParts
<1>4. WarmStays'
  BY DEF Begin, ExtractInv, TypeOK, WarmStays, Content
<1>5. CachedIsNotAskedAgain'
  BY DEF Begin, ExtractInv, TypeOK, CachedIsNotAskedAgain, Content
<1> QED
  BY <1>1, <1>2, <1>3, <1>4, <1>5 DEF ExtractInv

LEMMA CancelKeeps ==
  ASSUME ExtractInv, NEW g \in Callers, Cancel(g)
  PROVE  ExtractInv'
<1>1. TypeOK'
  BY DEF Cancel, ExtractInv, TypeOK, history
<1>2. Collected' /\ EntriesAreParts'
  BY DEF Cancel, ExtractInv, Collected, EntriesAreParts, history
<1>3. WarmStays' /\ CachedIsNotAskedAgain'
  BY DEF Cancel, ExtractInv, WarmStays, CachedIsNotAskedAgain, Content, history
<1> QED
  BY <1>1, <1>2, <1>3 DEF ExtractInv

LEMMA MissKeeps ==
  ASSUME ExtractInv, NEW g \in Callers, Miss(g) \/ LookupFails(g)
  PROVE  ExtractInv'
<1>1. TypeOK'
  BY DEF Miss, LookupFails, ExtractInv, TypeOK, history, Places
<1>2. Collected'
  BY DEF Miss, LookupFails, ExtractInv, TypeOK, Collected, history
<1>3. EntriesAreParts'
  BY DEF Miss, LookupFails, ExtractInv, EntriesAreParts, history
<1>4. WarmStays'
  BY DEF Miss, LookupFails, ExtractInv, TypeOK, WarmStays, Content, history
<1>5. CachedIsNotAskedAgain'
  BY DEF Miss, LookupFails, ExtractInv, TypeOK, WarmStays, CachedIsNotAskedAgain, Content, history
<1> QED
  BY <1>1, <1>2, <1>3, <1>4, <1>5 DEF ExtractInv

LEMMA AskKeeps ==
  ASSUME ExtractInv, NEW g \in Callers, Ask(g)
  PROVE  ExtractInv'
<1>1. PICK a \in Answers \union {Blank} : /\ answer' = [answer EXCEPT ![g] = a]
                                          /\ got' = [got EXCEPT ![g] = Parse(a)]
                                          /\ heard' = [heard EXCEPT ![g] = Parse(a)]
  BY DEF Ask
<1>2. Parse(a) \in Findings /\ Within(Parse(a), Parse(a))
  BY FindingsJoin
<1>3. TypeOK'
  BY <1>1, <1>2 DEF Ask, ExtractInv, TypeOK, Places
<1>4. Collected'
  BY <1>1, <1>2 DEF Ask, ExtractInv, TypeOK, Collected
<1>5. EntriesAreParts'
  BY DEF Ask, ExtractInv, EntriesAreParts
<1>6. WarmStays'
  BY DEF Ask, ExtractInv, TypeOK, WarmStays, Content
<1>7. CachedIsNotAskedAgain'
  BY DEF Ask, ExtractInv, TypeOK, CachedIsNotAskedAgain, Content
<1> QED
  BY <1>3, <1>4, <1>5, <1>6, <1>7 DEF ExtractInv

LEMMA GleanKeeps ==
  ASSUME ExtractInv, NEW g \in Callers, Glean(g)
  PROVE  ExtractInv'
<1>1. PICK a \in Answers \union {Blank} : /\ got' = [got EXCEPT ![g] = Join(got[g], Parse(a))]
                                          /\ heard' = [heard EXCEPT ![g] = Join(heard[g], Parse(a))]
  BY DEF Glean
<1>2. at[g] = "glean" /\ \E p \in {"glean", "store"} : at' = [at EXCEPT ![g] = p]
  BY DEF Glean
<1>3. got[g] \in Findings /\ got[g] = heard[g] /\ Parse(answer[g]) \in Findings
      /\ Within(Parse(answer[g]), got[g]) /\ Parse(a) \in Findings
  BY <1>2, FindingsJoin DEF ExtractInv, TypeOK, Collected
<1>4. Join(got[g], Parse(a)) \in Findings /\ Within(Parse(answer[g]), Join(got[g], Parse(a)))
  <2>1. Join(got[g], Parse(a)) \in Findings /\ Within(got[g], Join(got[g], Parse(a)))
    BY <1>3, FindingsJoin
  <2> QED
    BY <1>3, <2>1, FindingsJoin
<1>5. TypeOK'
  <2>1. at' \in [Callers -> Places] /\ at'[g] # "idle"
        /\ \A h \in Callers \ {g} : at'[h] = at[h]
    BY <1>2 DEF ExtractInv, TypeOK, Places
  <2>2. got' \in [Callers -> Findings] /\ heard' \in [Callers -> Findings]
    BY <1>1, <1>3, <1>4 DEF ExtractInv, TypeOK
  <2>3. round' \in [Callers -> Nat]
    BY DEF Glean, ExtractInv, TypeOK
  <2>4. chunk[g] \in Chunks
    BY <1>2, ContentIsKnown DEF ExtractInv
  <2> QED
    BY <2>1, <2>2, <2>3, <2>4 DEF Glean, ExtractInv, TypeOK
<1>6. Collected'
  BY <1>1, <1>2, <1>3, <1>4 DEF Glean, ExtractInv, TypeOK, Collected
<1>7. EntriesAreParts'
  BY DEF Glean, ExtractInv, EntriesAreParts
<1>8. WarmStays'
  BY <1>2 DEF Glean, ExtractInv, TypeOK, WarmStays, Content
<1>9. CachedIsNotAskedAgain'
  BY <1>2 DEF Glean, ExtractInv, TypeOK, CachedIsNotAskedAgain, Content
<1> QED
  BY <1>5, <1>6, <1>7, <1>8, <1>9 DEF ExtractInv

LEMMA GleanFailsKeeps ==
  ASSUME ExtractInv, NEW g \in Callers, GleanFails(g)
  PROVE  ExtractInv'
<1>1. TypeOK'
  BY DEF GleanFails, ExtractInv, TypeOK, history, Places
<1>2. Collected'
  BY DEF GleanFails, ExtractInv, TypeOK, Collected, history
<1>3. EntriesAreParts'
  BY DEF GleanFails, ExtractInv, EntriesAreParts, history
<1>4. WarmStays' /\ CachedIsNotAskedAgain'
  BY DEF GleanFails, ExtractInv, TypeOK, WarmStays, CachedIsNotAskedAgain, Content, history
<1> QED
  BY <1>1, <1>2, <1>3, <1>4 DEF ExtractInv

LEMMA StepInv == ExtractInv /\ [Next]_vars => ExtractInv'
<1> SUFFICES ASSUME ExtractInv, [Next]_vars PROVE ExtractInv'
  OBVIOUS
<1>1. CASE UNCHANGED vars
  <2>1. TypeOK' /\ Collected' /\ EntriesAreParts'
    BY <1>1 DEF vars, call, history, ExtractInv, TypeOK, Collected, EntriesAreParts
  <2>2. WarmStays' /\ CachedIsNotAskedAgain'
    BY <1>1 DEF vars, call, history, ExtractInv, WarmStays, CachedIsNotAskedAgain, Content
  <2> QED
    BY <2>1, <2>2 DEF ExtractInv
<1>2. ASSUME NEW g \in Callers, NEW k \in Chunks, Begin(g, k)
      PROVE  ExtractInv'
  BY <1>2, BeginKeeps
<1>3. ASSUME NEW g \in Callers, Extract(g)
      PROVE  ExtractInv'
  <2>1. CASE Hit(g) \/ AskFails(g) \/ GleanCancelled(g) \/ StoreFails(g)
    BY <2>1, ReturnKeeps DEF Hit, AskFails, GleanCancelled, StoreFails
  <2> QED
    BY <1>3, <2>1, MissKeeps, AskKeeps, GleanKeeps, GleanFailsKeeps, StoreKeeps DEF Extract
<1> QED
  BY <1>1, <1>2, <1>3, CancelKeeps DEF Next

\* What is cached comes from the call that filled the entry, and each call
\* under way holds what it was answered (Extract).
THEOREM ExtractInvariant == Spec => []ExtractInv
BY InitInv, StepInv, PTL DEF Spec

-----------------------------------------------------------------------------
\* No call asks the model for a text whose answer was cached when it began,
\* unless its lookup failed or an empty answer replaced the entry (Extract,
\* step 1).
THEOREM WhatIsCachedIsNotAskedAgain == Spec => []CachedIsNotAskedAgain
<1>1. ExtractInv => CachedIsNotAskedAgain
  BY DEF ExtractInv
<1> QED
  BY <1>1, ExtractInvariant, PTL

\* A call ends by one of the five actions that return, taken by itself.
LEMMA WhoReturns ==
  ASSUME ExtractInv, [Next]_vars, NEW g \in Callers, Returns(g)
  PROVE  Hit(g) \/ AskFails(g) \/ GleanCancelled(g) \/ Store(g) \/ StoreFails(g)
<1>1. at[g] # "idle" /\ at'[g] = "idle" /\ at \in [Callers -> Places] /\ TypeOK
  BY DEF Returns, ExtractInv, TypeOK
<1>2. ~UNCHANGED vars
  BY <1>1 DEF vars, call
<1>3. ASSUME NEW h \in Callers, NEW k \in Chunks, Begin(h, k)
      PROVE  FALSE
  BY <1>1, <1>3 DEF Begin
<1>4. ASSUME NEW h \in Callers, Cancel(h)
      PROVE  FALSE
  BY <1>1, <1>4 DEF Cancel
<1>5. ASSUME NEW h \in Callers, NEW p \in Places, p # "idle", at' = [at EXCEPT ![h] = p]
      PROVE  FALSE
  BY <1>1, <1>5
<1>6. ASSUME NEW h \in Callers, Miss(h) \/ LookupFails(h) \/ Ask(h) \/ Glean(h) \/ GleanFails(h)
      PROVE  FALSE
  <2>1. \E p \in Places : p # "idle" /\ at' = [at EXCEPT ![h] = p]
    BY <1>6 DEF Miss, LookupFails, Ask, Glean, GleanFails, Places
  <2> QED
    BY <1>5, <2>1
<1>7. PICK h \in Callers : Hit(h) \/ AskFails(h) \/ GleanCancelled(h) \/ Store(h) \/ StoreFails(h)
  BY <1>2, <1>3, <1>4, <1>6 DEF Next, Extract
<1>8. h = g
  <2> SUFFICES ASSUME h # g PROVE FALSE
    OBVIOUS
  <2>1. at'[g] = at[g]
    BY <1>1, <1>7, AfterReturn DEF Hit, AskFails, GleanCancelled, Store, StoreFails
  <2> QED
    BY <1>1, <2>1
<1> QED
  BY <1>7, <1>8

\* A hit is a part of what the call that filled the entry returned, and has
\* the caller's own chunk as its source (Extract, step 1).
THEOREM HitsComeFromTheFill == Spec => HitIsFromTheFill
<1>1. ASSUME ExtractInv, [Next]_vars, NEW g \in Callers, Returns(g), outcome'[g] = "hit"
      PROVE  /\ filled[Content(g)] # None
             /\ Within(result'[g].found, filled[Content(g)])
             /\ result'[g].source = chunk[g]
  <2>1. TypeOK
    BY <1>1 DEF ExtractInv
  <2>2. Hit(g)
    <3>1. AskFails(g) \/ GleanCancelled(g) => outcome'[g] = "error"
      BY <2>1, AfterReturn DEF AskFails, GleanCancelled
    <3>2. Store(g) \/ StoreFails(g) => outcome'[g] = "ok"
      BY <2>1, AfterReturn DEF Store, StoreFails
    <3> QED
      BY <1>1, <3>1, <3>2, WhoReturns
  <2>3. Usable(cache[Content(g)]) /\ Content(g) \in Contents
    BY <2>1, <2>2, ContentIsKnown DEF Hit
  <2>4. result'[g] = Tagged(Parse(cache[Content(g)].raw), chunk[g])
    BY <2>1, <2>2, AfterReturn DEF Hit
  <2> QED
    BY <1>1, <2>3, <2>4 DEF ExtractInv, EntriesAreParts, Tagged
<1>2. ExtractInv /\ [Next]_vars =>
        [\A g \in Callers :
           (Returns(g) /\ outcome'[g] = "hit") =>
             /\ filled[Content(g)] # None
             /\ Within(result'[g].found, filled[Content(g)])
             /\ result'[g].source = chunk[g]]_vars
  BY <1>1
<1> QED
  BY <1>2, ExtractInvariant, PTL DEF Spec, HitIsFromTheFill

\* A call returns all that the model answered it, also when a gleaning round
\* failed or the context was cancelled (Extract, steps 2 to 4).
THEOREM AllThatWasHeard == Spec => NothingHeardIsLost
<1>1. ASSUME ExtractInv, [Next]_vars, NEW g \in Callers, Returns(g)
      PROVE  IF outcome'[g] = "hit" THEN heard[g] = Nothing
             ELSE result'[g].found = heard[g]
  <2>1. TypeOK /\ Collected
    BY <1>1 DEF ExtractInv
  <2>2. CASE Hit(g)
    <3>1. outcome'[g] = "hit"
      BY <2>1, <2>2, AfterReturn DEF Hit
    <3>2. heard[g] = Nothing
      BY <2>1, <2>2 DEF Hit, Collected
    <3> QED
      BY <3>1, <3>2
  <2>3. CASE AskFails(g)
    <3>1. outcome'[g] = "error" /\ result'[g] = Tagged(Nothing, chunk[g])
      BY <2>1, <2>3, AfterReturn DEF AskFails
    <3>2. heard[g] = Nothing
      BY <2>1, <2>3 DEF AskFails, Collected
    <3> QED
      BY <3>1, <3>2 DEF Tagged
  <2>4. CASE GleanCancelled(g) \/ Store(g) \/ StoreFails(g)
    <3>1. outcome'[g] \in {"error", "ok"} /\ result'[g] = Tagged(got[g], chunk[g])
      BY <2>1, <2>4, AfterReturn DEF GleanCancelled, Store, StoreFails
    <3> QED
      BY <2>1, <3>1 DEF Tagged, Collected
  <2> QED
    BY <1>1, <2>2, <2>3, <2>4, WhoReturns
<1>2. ExtractInv /\ [Next]_vars =>
        [\A g \in Callers :
           Returns(g) => IF outcome'[g] = "hit" THEN heard[g] = Nothing
                         ELSE result'[g].found = heard[g]]_vars
  BY <1>1
<1> QED
  BY <1>2, ExtractInvariant, PTL DEF Spec, NothingHeardIsLost

-----------------------------------------------------------------------------
(* Every step of a call leaves it fewer to take.                           *)

\* The steps from a place to the return, if every round is gleaned.
StepsFrom(place, rounds) ==
  CASE place = "lookup" -> MaxGleaningRounds + 3
    [] place = "ask"    -> MaxGleaningRounds + 2
    [] place = "glean"  -> MaxGleaningRounds + 1 - rounds
    [] place = "store"  -> 1
    [] OTHER            -> 0
StepsLeft(g) == StepsFrom(at[g], round[g])

\* Rounds are counted from the first answer on, and one is left while gleaning.
RoundsInv ==
  \A g \in Callers :
    /\ round[g] \in Nat
    /\ at[g] \in {"idle", "lookup", "ask"} => round[g] = 0
    /\ at[g] = "glean" => round[g] < MaxGleaningRounds

\* Where a step of a call leads.
LEMMA StepOfCall ==
  ASSUME TypeOK, RoundsInv, NEW g \in Callers, Extract(g)
  PROVE  \E p \in Places, r \in Nat :
           /\ at' = [at EXCEPT ![g] = p]
           /\ round' = [round EXCEPT ![g] = r]
           /\ p \in {"idle", "lookup", "ask"} => r = 0
           /\ p = "glean" => r < MaxGleaningRounds
           /\ StepsFrom(p, r) < StepsFrom(at[g], round[g])
<1>1. MaxGleaningRounds \in Nat /\ round[g] \in Nat
  BY RoundsAreNatural DEF RoundsInv
<1>2. round = [round EXCEPT ![g] = round[g]]
  BY DEF TypeOK
<1>3. CASE Hit(g) \/ AskFails(g) \/ GleanCancelled(g) \/ Store(g) \/ StoreFails(g)
  <2>1. at' = [at EXCEPT ![g] = "idle"] /\ round' = [round EXCEPT ![g] = 0]
    BY <1>3 DEF Hit, AskFails, GleanCancelled, Store, StoreFails, Return
  <2>2. 0 < StepsFrom(at[g], round[g])
    BY <1>1, <1>3 DEF Hit, AskFails, GleanCancelled, Store, StoreFails, StepsFrom, RoundsInv
  <2> QED
    BY <2>1, <2>2 DEF Places, StepsFrom
<1>4. CASE Miss(g) \/ LookupFails(g)
  <2>1. at[g] = "lookup" /\ at' = [at EXCEPT ![g] = "ask"] /\ round' = round /\ round[g] = 0
    BY <1>4 DEF Miss, LookupFails, RoundsInv
  <2>2. StepsFrom("ask", 0) < StepsFrom("lookup", 0)
    BY <1>1 DEF StepsFrom
  <2> QED
    BY <1>2, <2>1, <2>2 DEF Places
<1>5. CASE Ask(g)
  <2> DEFINE p == IF MaxGleaningRounds > 0 THEN "glean" ELSE "store"
  <2>1. at[g] = "ask" /\ at' = [at EXCEPT ![g] = p] /\ round' = round /\ round[g] = 0
    BY <1>5 DEF Ask, RoundsInv
  <2>2. StepsFrom(p, 0) < StepsFrom("ask", 0)
    BY <1>1 DEF StepsFrom
  <2>3. p \in Places /\ p \notin {"idle", "lookup", "ask"} /\ (p = "glean" => 0 < MaxGleaningRounds)
    BY <1>1 DEF Places
  <2> HIDE DEF p
  <2> QED
    BY <1>1, <1>2, <2>1, <2>2, <2>3
<1>6. CASE Glean(g)
  <2>1. PICK p \in {"glean", "store"} :
          at' = [at EXCEPT ![g] = p] /\ (p = "glean" => round[g] + 1 < MaxGleaningRounds)
    BY <1>6 DEF Glean
  <2>2. at[g] = "glean" /\ round' = [round EXCEPT ![g] = round[g] + 1]
    BY <1>6 DEF Glean
  <2>3. round[g] < MaxGleaningRounds
    BY <2>2 DEF RoundsInv
  <2>4. StepsFrom(p, round[g] + 1) < StepsFrom("glean", round[g])
    BY <1>1, <2>1, <2>3 DEF StepsFrom
  <2>5. p \in Places /\ p \notin {"idle", "lookup", "ask"} /\ round[g] + 1 \in Nat
    BY <1>1, <2>1 DEF Places
  <2>6. StepsFrom(p, round[g] + 1) < StepsFrom(at[g], round[g])
    BY <2>2, <2>4
  <2> QED
    BY <2>1, <2>2, <2>5, <2>6
<1>7. CASE GleanFails(g)
  <2>1. at[g] = "glean" /\ at' = [at EXCEPT ![g] = "store"] /\ round' = round
    BY <1>7 DEF GleanFails
  <2>2. round[g] < MaxGleaningRounds
    BY <2>1 DEF RoundsInv
  <2>3. StepsFrom("store", round[g]) < StepsFrom("glean", round[g])
    BY <1>1, <2>2 DEF StepsFrom
  <2> QED
    BY <1>1, <1>2, <2>1, <2>3 DEF Places
<1> QED
  BY <1>3, <1>4, <1>5, <1>6, <1>7 DEF Extract

LEMMA StepsGoDown ==
  ASSUME TypeOK, RoundsInv, NEW g \in Callers, Extract(g)
  PROVE  /\ RoundsInv'
         /\ StepsLeft(g)' < StepsLeft(g)
         /\ \A h \in Callers \ {g} : StepsLeft(h)' = StepsLeft(h)
<1>1. PICK p \in Places, r \in Nat :
        /\ at' = [at EXCEPT ![g] = p]
        /\ round' = [round EXCEPT ![g] = r]
        /\ p \in {"idle", "lookup", "ask"} => r = 0
        /\ p = "glean" => r < MaxGleaningRounds
        /\ StepsFrom(p, r) < StepsFrom(at[g], round[g])
  BY StepOfCall
<1>2. /\ at'[g] = p /\ round'[g] = r
      /\ \A h \in Callers \ {g} : at'[h] = at[h] /\ round'[h] = round[h]
  BY <1>1 DEF TypeOK
<1>3. RoundsInv'
  BY <1>1, <1>2 DEF RoundsInv
<1>4. StepsLeft(g)' < StepsLeft(g)
  BY <1>1, <1>2 DEF StepsLeft
<1>5. \A h \in Callers \ {g} : StepsLeft(h)' = StepsLeft(h)
  BY <1>2 DEF StepsLeft
<1> QED
  BY <1>3, <1>4, <1>5

\* What is left is bounded, a step of a call leaves it less, and none adds to it.
StepsBounded == \A g \in Callers : StepsLeft(g) \in 0..(MaxGleaningRounds + 3)
OwnStepCounts == \A g \in Callers : Extract(g) => StepsLeft(g)' < StepsLeft(g)
NoneAdds == \A g \in Callers : at[g] # "idle" => StepsLeft(g)' <= StepsLeft(g)

LEMMA RoundsStep ==
  ASSUME TypeOK, TypeOK', RoundsInv, [Next]_vars
  PROVE  RoundsInv' /\ OwnStepCounts /\ NoneAdds
<1>1. ASSUME TypeOK, RoundsInv, NEW g \in Callers
      PROVE  StepsLeft(g) \in Int
  BY <1>1, RoundsAreNatural DEF TypeOK, Places, RoundsInv, StepsLeft, StepsFrom
<1>2. OwnStepCounts
  BY StepsGoDown DEF OwnStepCounts
<1>3. ASSUME NEW g \in Callers, Extract(g)
      PROVE  RoundsInv' /\ NoneAdds
  <2>1. /\ RoundsInv' /\ StepsLeft(g)' < StepsLeft(g)
        /\ \A h \in Callers \ {g} : StepsLeft(h)' = StepsLeft(h)
    BY <1>3, StepsGoDown
  <2>2. StepsLeft(g) \in Int /\ StepsLeft(g)' \in Int
    BY <1>1, <2>1, RoundsAreNatural DEF TypeOK, Places, RoundsInv, StepsLeft, StepsFrom
  <2>3. ASSUME NEW h \in Callers, h # g
        PROVE  StepsLeft(h)' <= StepsLeft(h)
    <3>1. StepsLeft(h) \in Int
      BY <1>1
    <3> QED
      BY <2>1, <2>3, <3>1
  <2> QED
    BY <2>1, <2>2, <2>3 DEF NoneAdds
<1>4. ASSUME NEW g \in Callers, NEW k \in Chunks, Begin(g, k)
      PROVE  RoundsInv' /\ NoneAdds
  <2>1. /\ at[g] = "idle" /\ at'[g] = "lookup" /\ round' = round
        /\ \A h \in Callers \ {g} : at'[h] = at[h]
    BY <1>4 DEF Begin, TypeOK
  <2>2. \A h \in Callers : at[h] # "idle" => StepsLeft(h)' = StepsLeft(h)
    BY <2>1 DEF StepsLeft
  <2> QED
    BY <1>1, <2>1, <2>2 DEF RoundsInv, NoneAdds
<1>5. ASSUME UNCHANGED <<at, round>>
      PROVE  RoundsInv' /\ NoneAdds
  <2>1. \A h \in Callers : StepsLeft(h)' = StepsLeft(h)
    BY <1>5 DEF StepsLeft
  <2> QED
    BY <1>1, <1>5, <2>1 DEF RoundsInv, NoneAdds
<1>6. \/ \E g \in Callers : Extract(g) \/ \E k \in Chunks : Begin(g, k)
      \/ UNCHANGED <<at, round>>
  BY DEF Next, Cancel, vars, call
<1> QED
  BY <1>2, <1>3, <1>4, <1>5, <1>6

\* A call cannot glean for ever, whatever the model answers and whatever the
\* other goroutines do: it has at most three steps to take and one for each
\* round, each of its steps leaves it fewer, and no step of another call and
\* no cancellation adds to them (Extract, runGleaningCounted).
THEOREM ExtractComesToAnEnd == Spec => []StepsBounded /\ [][OwnStepCounts /\ NoneAdds]_vars
<1>1. Init => RoundsInv
  BY DEF Init, RoundsInv
<1>2. ExtractInv => TypeOK
  BY DEF ExtractInv
<1>3. TypeOK /\ RoundsInv => StepsBounded
  <2> SUFFICES ASSUME TypeOK, RoundsInv, NEW g \in Callers
               PROVE  StepsLeft(g) \in 0..(MaxGleaningRounds + 3)
    BY DEF StepsBounded
  <2> QED
    BY RoundsAreNatural DEF TypeOK, Places, RoundsInv, StepsLeft, StepsFrom
<1>4. TypeOK /\ TypeOK' /\ RoundsInv /\ [Next]_vars => RoundsInv'
  BY RoundsStep
<1>5. TypeOK /\ TypeOK' /\ RoundsInv /\ [Next]_vars => [OwnStepCounts /\ NoneAdds]_vars
  BY RoundsStep
<1> QED
  BY <1>1, <1>2, <1>3, <1>4, <1>5, ExtractInvariant, PTL DEF Spec
-----------------------------------------------------------------------------

(***************************************************************************)
(* The minimum loop: two stores and a query.                               *)
(***************************************************************************)

-----------------------------------------------------------------------------
(* The chunks of a text.                                                   *)

LEMMA WholeQuotient ==
  ASSUME NEW x \in Nat, NEW y \in Nat, y > 0
  PROVE  x \div y \in Nat
OBVIOUS

LEMMA ChunksAreNumbered ==
  ASSUME NEW text \in Texts
  PROVE  \E n \in Nat : DOMAIN ChunkByNewlines(text) = 1..n
<1> DEFINE ss == [i \in DOMAIN text |-> Pieces(text[i])]
           Piece == STRING \X Nat
           Para == [name : STRING, runes : Nat]
<1>1. text \in Seq(Para)
  BY PipelineConstants
<1>2. ASSUME NEW i \in DOMAIN text
      PROVE  Pieces(text[i]) \in Seq(Piece)
  <2>4. text[i] \in Para
    <3> HIDE DEF Para
    <3> QED
      BY <1>1
  <2>1. text[i].name \in STRING /\ text[i].runes \in Nat
    BY <2>4
  <2> DEFINE m == (text[i].runes + ChunkSize - 1) \div ChunkSize
  <2>5. text[i].runes + ChunkSize - 1 \in Nat /\ ChunkSize \in Nat /\ ChunkSize > 0
    BY <2>1, PipelineConstants
  <2>2. m \in Nat
    BY <2>5, WholeQuotient
  <2>3. Pieces(text[i]) \in [1..m -> Piece]
    BY <2>1, <2>2 DEF Pieces
  <2> QED
    BY <2>2, <2>3
<1>3. ss \in Seq(Seq(Piece))
  <2>1. DOMAIN text = 1..Len(text) /\ Len(text) \in Nat
    BY <1>1
  <2> DEFINE R == Seq(Piece)
  <2>2. \A i \in DOMAIN text : ss[i] \in R
    BY <1>2
  <2>3. ss = [i \in 1..Len(text) |-> ss[i]]
    BY <2>1
  <2> HIDE DEF R, ss
  <2>4. ss \in Seq(R)
    BY <2>1, <2>2, <2>3
  <2> QED
    BY <2>4 DEF R
<1>4. ChunkByNewlines(text) \in Seq(Piece)
  <2> HIDE DEF ss, Piece
  <2> QED
    BY <1>3, FlattenIsSeq DEF ChunkByNewlines, ss
<1> QED
  BY <1>4

-----------------------------------------------------------------------------
(* The minimum loop.                                                       *)

ChunkLists == {ChunkByNewlines(t) : t \in Texts} \union {<<>>}

LoopTypeOK ==
  /\ \A r \in vdb : r.id \in Docs \X Int
  /\ DOMAIN kv = ChunkIds
  /\ ins \in [doc : Docs \union {Absent}, chunks : ChunkLists,
              at : {"idle", "embed", "contents"}, todo : SUBSET (Docs \X Int)]
  /\ ins.at # "idle" => ins.doc \in Docs
  /\ qry = [at |-> qry.at, hits |-> qry.hits, todo |-> qry.todo, rows |-> qry.rows]
  /\ qry.at \in {"idle", "fetch"}
  /\ DOMAIN inserted = Docs
  /\ \A d \in Docs : inserted[d] \in ChunkLists \union {Absent}
  /\ disturbed \in BOOLEAN

\* The vector store holds the k-th of the chunks of d, once.
HasVector(d, chunks, k) ==
  {r \in vdb : r.id = chunkID(d, k)} = {[id |-> chunkID(d, k), of |-> chunks[k]]}

HasContent(d, chunks, k) ==
  chunkID(d, k) \in ChunkIds /\ kv[chunkID(d, k)] = chunks[k]

Repaired ==
  \A d \in Docs : inserted[d] # Absent =>
    \A k \in DOMAIN inserted[d] : HasVector(d, inserted[d], k) /\ HasContent(d, inserted[d], k)

\* Between the two stores every vector is there, and every content that is
\* not waiting to be put.
UnderWay ==
  ins.at = "contents" =>
    /\ inserted[ins.doc] = Absent
    /\ ins.todo \subseteq {chunkID(ins.doc, k) : k \in DOMAIN ins.chunks}
    /\ \A k \in DOMAIN ins.chunks :
         /\ HasVector(ins.doc, ins.chunks, k)
         /\ chunkID(ins.doc, k) \in ins.todo \/ HasContent(ins.doc, ins.chunks, k)

\* A vector has the content it was made from, or that content is on its way,
\* or the document is broken.
VectorsMatch ==
  \A r \in vdb : r.id[1] \notin broken =>
    \/ r.id \in ChunkIds /\ kv[r.id] = r.of
    \/ ins.at = "contents" /\ r.id \in ins.todo

\* What an undisturbed query has read is what its hits were found by.
RowsMatch ==
  qry.at = "fetch" /\ ~disturbed =>
    /\ ins.at # "contents"
    /\ qry.hits \subseteq vdb
    /\ DOMAIN qry.rows \intersect qry.todo = {}
    /\ \A h \in qry.hits : h.id[1] \notin broken =>
         h.id \in qry.todo \/ (h.id \in DOMAIN qry.rows /\ qry.rows[h.id] = h.of)

\* The inductive invariant.
LoopInv == LoopTypeOK /\ Repaired /\ UnderWay /\ VectorsMatch /\ RowsMatch

LEMMA ChunkPlaces ==
  ASSUME NEW chunks \in ChunkLists
  PROVE  DOMAIN chunks \subseteq Int
<1>1. CASE chunks = <<>>
  BY <1>1
<1>2. CASE chunks \in {ChunkByNewlines(t) : t \in Texts}
  <2>1. PICK n \in Nat : DOMAIN chunks = 1..n
    BY <1>2, ChunksAreNumbered
  <2> QED
    BY <2>1
<1> QED
  BY <1>1, <1>2 DEF ChunkLists

LEMMA ChunkIDsDiffer ==
  ASSUME NEW d, NEW e, NEW k \in Int, NEW l \in Int
  PROVE  /\ chunkID(d, k)[1] = d /\ chunkID(d, k)[2] + 1 = k
         /\ chunkID(d, k) = chunkID(e, l) => d = e /\ k = l
BY DEF chunkID

LEMMA LoopInitInv == LoopInit => LoopInv
<1> SUFFICES ASSUME LoopInit PROVE LoopInv
  OBVIOUS
<1>1. LoopTypeOK
  BY DEF LoopInit, LoopTypeOK, NoInsert, NoQuery, ChunkLists
<1>2. Repaired
  BY DEF LoopInit, Repaired
<1> QED
  BY <1>1, <1>2 DEF LoopInit, LoopInv, UnderWay, VectorsMatch, RowsMatch, NoInsert, NoQuery

\* A step that touches neither store nor the history, and no Insert that is
\* between the two.
LEMMA QuietKeeps ==
  ASSUME LoopInv, LoopTypeOK', RowsMatch',
         UNCHANGED <<vdb, kv, inserted, broken>>,
         ins' = ins \/ (ins.at # "contents" /\ ins'.at # "contents")
  PROVE  LoopInv'
<1>1. Repaired'
  BY DEF LoopInv, Repaired, HasVector, HasContent
<1>2. UnderWay'
  BY DEF LoopInv, UnderWay, HasVector, HasContent
<1>3. VectorsMatch'
  BY DEF LoopInv, VectorsMatch
<1> QED
  BY <1>1, <1>2, <1>3 DEF LoopInv

LEMMA BeginInsertKeeps ==
  ASSUME LoopInv, NEW doc \in Docs, NEW text \in Texts, BeginInsert(doc, text)
  PROVE  LoopInv'
<1>1. /\ UNCHANGED <<vdb, kv, inserted, broken>> /\ qry' = qry /\ disturbed' = disturbed
      /\ ins.at = "idle" /\ ins'.at \in {"idle", "embed"}
  BY DEF BeginInsert, queryVars, NoInsert
<1>2. LoopTypeOK'
  BY <1>1 DEF LoopInv, LoopTypeOK, BeginInsert, NoInsert, ChunkLists
<1>3. RowsMatch'
  BY <1>1 DEF LoopInv, RowsMatch
<1> QED
  BY <1>1, <1>2, <1>3, QuietKeeps

LEMMA EmbedFailsKeeps == LoopInv /\ EmbedFails => LoopInv'
<1> SUFFICES ASSUME LoopInv, EmbedFails PROVE LoopInv'
  OBVIOUS
<1>1. /\ UNCHANGED <<vdb, kv, inserted, broken>> /\ qry' = qry /\ disturbed' = disturbed
      /\ ins.at = "embed" /\ ins'.at = "idle"
  BY DEF EmbedFails, queryVars, NoInsert
<1>2. LoopTypeOK'
  BY <1>1 DEF LoopInv, LoopTypeOK, EmbedFails, NoInsert, ChunkLists
<1>3. RowsMatch'
  BY <1>1 DEF LoopInv, RowsMatch
<1> QED
  BY <1>1, <1>2, <1>3, QuietKeeps

LEMMA PutVectorsKeeps == LoopInv /\ PutVectors => LoopInv'
<1> SUFFICES ASSUME LoopInv, PutVectors PROVE LoopInv'
  OBVIOUS
<1>0. PICK d, c : d = ins.doc /\ c = ins.chunks
  OBVIOUS
<1> DEFINE fresh == ChunkRecords(d, c)
<1>1. /\ ins \in [doc : Docs \union {Absent}, chunks : ChunkLists,
                  at : {"idle", "embed", "contents"}, todo : SUBSET (Docs \X Int)]
      /\ ins.at = "embed" /\ d \in Docs /\ c \in ChunkLists /\ DOMAIN c \subseteq Int
  BY <1>0, ChunkPlaces DEF PutVectors, LoopInv, LoopTypeOK
<1>2. /\ vdb' = {r \in vdb : \A n \in fresh : n.id # r.id} \union fresh
      /\ kv' = kv /\ broken' = broken /\ qry' = qry
      /\ inserted' = [inserted EXCEPT ![d] = Absent]
      /\ ins' = [ins EXCEPT !.at = "contents", !.todo = {chunkID(d, k) : k \in DOMAIN c}]
      /\ disturbed' = (disturbed \/ qry.at = "fetch")
  BY <1>0 DEF PutVectors, Upserted
<1>3. fresh = {[id |-> chunkID(d, k), of |-> c[k]] : k \in DOMAIN c}
  BY DEF ChunkRecords
<1>4. /\ ins'.doc = d /\ ins'.chunks = c /\ ins'.at = "contents"
      /\ ins'.todo = {chunkID(d, k) : k \in DOMAIN c}
  BY <1>0, <1>1, <1>2
<1> HIDE DEF fresh
<1>5. \A k \in DOMAIN c : chunkID(d, k) \in Docs \X Int
  BY <1>1 DEF chunkID
<1>6. LoopTypeOK'
  <2>1. \A r \in vdb' : r.id \in Docs \X Int
    BY <1>2, <1>3, <1>5 DEF LoopInv, LoopTypeOK
  <2>2. ins' \in [doc : Docs \union {Absent}, chunks : ChunkLists,
                  at : {"idle", "embed", "contents"}, todo : SUBSET (Docs \X Int)]
    <3>1. {chunkID(d, k) : k \in DOMAIN c} \in SUBSET (Docs \X Int)
      BY <1>5
    <3>2. ins' = [ins EXCEPT !.at = "contents", !.todo = {chunkID(d, k) : k \in DOMAIN c}]
      BY <1>2
    <3> HIDE DEF chunkID
    <3> QED
      BY <1>1, <3>1, <3>2
  <2>3. DOMAIN inserted' = Docs /\ \A e \in Docs : inserted'[e] \in ChunkLists \union {Absent}
    BY <1>2 DEF LoopInv, LoopTypeOK
  <2> QED
    BY <1>1, <1>2, <1>4, <2>1, <2>2, <2>3 DEF LoopInv, LoopTypeOK
\* Of each chunk there is the new record and no other.
<1>7. ASSUME NEW k \in DOMAIN c
      PROVE  HasVector(d, c, k)'
  <2> DEFINE rec == [id |-> chunkID(d, k), of |-> c[k]]
  <2>1. rec \in fresh /\ rec \in vdb'
    BY <1>2, <1>3
  <2>2. ASSUME NEW r \in vdb', r.id = chunkID(d, k)
        PROVE  r = rec
    <3>1. r \in fresh
      BY <1>2, <2>1, <2>2
    <3>2. PICK l \in DOMAIN c : r = [id |-> chunkID(d, l), of |-> c[l]]
      BY <1>3, <3>1
    <3>3. k = l
      BY <1>1, <2>2, <3>2, ChunkIDsDiffer
    <3> QED
      BY <3>2, <3>3
  <2> QED
    BY <2>1, <2>2 DEF HasVector
<1>8. UnderWay'
  <2>1. inserted'[d] = Absent
    BY <1>1, <1>2 DEF LoopInv, LoopTypeOK
  <2> QED
    BY <1>4, <1>7, <2>1 DEF UnderWay, HasVector
\* The records of other documents are what they were.
<1>9. Repaired'
  <2> SUFFICES ASSUME NEW e \in Docs, inserted'[e] # Absent, NEW k \in DOMAIN inserted'[e]
               PROVE  HasVector(e, inserted[e], k)' /\ HasContent(e, inserted[e], k)'
    BY DEF Repaired
  <2>1. e # d /\ inserted'[e] = inserted[e]
    BY <1>1, <1>2 DEF LoopInv, LoopTypeOK
  <2>2. HasVector(e, inserted[e], k) /\ HasContent(e, inserted[e], k)
    BY <2>1 DEF LoopInv, Repaired
  <2>3. inserted[e] \in ChunkLists /\ k \in Int
    BY <2>1, ChunkPlaces DEF LoopInv, LoopTypeOK
  <2>4. \A n \in fresh : n.id # chunkID(e, k)
    BY <1>1, <1>3, <2>1, <2>3, ChunkIDsDiffer
  <2>5. {r \in vdb' : r.id = chunkID(e, k)} = {r \in vdb : r.id = chunkID(e, k)}
    BY <1>2, <2>4
  <2> QED
    BY <1>2, <2>1, <2>2, <2>5 DEF HasVector, HasContent
<1>10. VectorsMatch'
  <2> SUFFICES ASSUME NEW r \in vdb', r.id[1] \notin broken
               PROVE  \/ r.id \in ChunkIds /\ kv[r.id] = r.of
                      \/ r.id \in ins'.todo
    BY <1>2, <1>4 DEF VectorsMatch
  <2>1. CASE r \in fresh
    BY <1>3, <1>4, <2>1
  <2>2. CASE r \in vdb
    BY <1>1, <2>2 DEF LoopInv, VectorsMatch
  <2> QED
    BY <1>2, <2>1, <2>2
<1>11. RowsMatch'
  BY <1>2 DEF RowsMatch
<1> QED
  BY <1>6, <1>8, <1>9, <1>10, <1>11 DEF LoopInv

LEMMA PutRefusedKeeps == LoopInv /\ PutRefused => LoopInv'
<1> SUFFICES ASSUME LoopInv, PutRefused PROVE LoopInv'
  OBVIOUS
<1>1. /\ UNCHANGED <<vdb, kv, inserted>> /\ qry' = qry /\ disturbed' = disturbed
      /\ ins.at = "contents" /\ ins' = NoInsert /\ ins'.at = "idle"
      /\ broken' = broken \union {ins.doc}
  BY DEF PutRefused, queryVars, NoInsert
<1>2. LoopTypeOK'
  BY <1>1 DEF LoopInv, LoopTypeOK, NoInsert, ChunkLists
<1>3. Repaired'
  BY <1>1 DEF LoopInv, Repaired, HasVector, HasContent
<1>4. UnderWay' /\ RowsMatch'
  BY <1>1 DEF LoopInv, UnderWay, RowsMatch
<1>5. VectorsMatch'
  <2>1. \A id \in ins.todo : id[1] = ins.doc
    BY <1>1 DEF LoopInv, UnderWay, chunkID
  <2> QED
    BY <1>1, <2>1 DEF LoopInv, VectorsMatch
<1> QED
  BY <1>2, <1>3, <1>4, <1>5 DEF LoopInv

LEMMA PutContentKeeps ==
  ASSUME LoopInv, NEW id \in ChunkIds, PutContent(id)
  PROVE  LoopInv'
<1>0. PICK d, c : d = ins.doc /\ c = ins.chunks
  OBVIOUS
<1>1. /\ ins \in [doc : Docs \union {Absent}, chunks : ChunkLists,
                  at : {"idle", "embed", "contents"}, todo : SUBSET (Docs \X Int)]
      /\ ins.at = "contents" /\ d \in Docs /\ c \in ChunkLists /\ DOMAIN c \subseteq Int
      /\ id \in ins.todo
  BY <1>0, ChunkPlaces DEF PutContent, LoopInv, LoopTypeOK
<1>2. /\ UNCHANGED <<vdb, broken>> /\ qry' = qry /\ disturbed' = disturbed
      /\ kv' = [kv EXCEPT ![id] = c[id[2] + 1]]
  BY <1>0 DEF PutContent, queryVars, StoredContent, ContentAt
<1>3. /\ inserted[d] = Absent
      /\ ins.todo \subseteq {chunkID(d, k) : k \in DOMAIN c}
      /\ \A k \in DOMAIN c :
           HasVector(d, c, k) /\ (chunkID(d, k) \in ins.todo \/ HasContent(d, c, k))
  BY <1>0, <1>1 DEF LoopInv, UnderWay
<1>4. PICK l \in DOMAIN c : id = chunkID(d, l)
  BY <1>1, <1>3
<1>5. kv'[id] = c[l] /\ DOMAIN kv' = ChunkIds /\ \A i \in ChunkIds \ {id} : kv'[i] = kv[i]
  <2>1. id[2] + 1 = l /\ DOMAIN kv = ChunkIds
    BY <1>1, <1>4, ChunkIDsDiffer DEF LoopInv, LoopTypeOK
  <2> QED
    BY <1>2, <2>1
<1>6. \A k \in DOMAIN c : HasVector(d, c, k)'
  BY <1>2, <1>3 DEF HasVector
<1>7. ASSUME NEW k \in DOMAIN c, chunkID(d, k) \notin ins.todo \ {id}
      PROVE  HasContent(d, c, k)'
  <2>1. CASE chunkID(d, k) = id
    BY <1>1, <1>4, <1>5, <2>1, ChunkIDsDiffer DEF HasContent
  <2>2. CASE chunkID(d, k) # id
    BY <1>3, <1>5, <1>7, <2>2 DEF HasContent
  <2> QED
    BY <2>1, <2>2
<1>8. RowsMatch'
  BY <1>1, <1>2 DEF LoopInv, RowsMatch
\* A record of this id was made from this content.
<1>9. ASSUME NEW r \in vdb, r.id[1] \notin broken
      PROVE  \/ r.id \in ChunkIds /\ kv'[r.id] = r.of
             \/ r.id \in ins.todo \ {id}
  <2>1. CASE r.id = id
    <3>1. r \in {q \in vdb : q.id = chunkID(d, l)}
      BY <1>4, <2>1
    <3>2. r.of = c[l]
      BY <1>3, <3>1 DEF HasVector
    <3> QED
      BY <1>5, <2>1, <3>2
  <2>2. CASE r.id # id
    BY <1>5, <1>9, <2>2 DEF LoopInv, VectorsMatch
  <2> QED
    BY <2>1, <2>2
<1>10. ASSUME NEW e \in Docs, e # d, inserted[e] # Absent, NEW k \in DOMAIN inserted[e]
       PROVE  HasVector(e, inserted[e], k) /\ kv'[chunkID(e, k)] = inserted[e][k]
              /\ chunkID(e, k) \in ChunkIds
  <2>1. HasVector(e, inserted[e], k) /\ HasContent(e, inserted[e], k)
    BY <1>10 DEF LoopInv, Repaired
  <2>2. inserted[e] \in ChunkLists /\ k \in Int
    BY <1>10, ChunkPlaces DEF LoopInv, LoopTypeOK
  <2>3. chunkID(e, k) # id
    BY <1>1, <1>4, <1>10, <2>2, ChunkIDsDiffer
  <2> QED
    BY <1>5, <2>1, <2>3 DEF HasContent
<1>11. DOMAIN inserted = Docs
  BY DEF LoopInv, LoopTypeOK
<1>12. CASE ins.todo = {id}
  <2>1. ins' = NoInsert /\ inserted' = [inserted EXCEPT ![d] = c]
    BY <1>0, <1>12 DEF PutContent
  <2>2. LoopTypeOK'
    <3>1. DOMAIN inserted' = Docs /\ \A e \in Docs : inserted'[e] \in ChunkLists \union {Absent}
      BY <1>1, <1>11, <2>1 DEF LoopInv, LoopTypeOK
    <3> QED
      BY <1>2, <1>5, <2>1, <3>1 DEF LoopInv, LoopTypeOK, NoInsert, ChunkLists
  <2>3. Repaired'
    <3> SUFFICES ASSUME NEW e \in Docs, inserted'[e] # Absent, NEW k \in DOMAIN inserted'[e]
                 PROVE  /\ {r \in vdb : r.id = chunkID(e, k)}
                             = {[id |-> chunkID(e, k), of |-> inserted'[e][k]]}
                        /\ chunkID(e, k) \in ChunkIds /\ kv'[chunkID(e, k)] = inserted'[e][k]
      BY <1>2 DEF Repaired, HasVector, HasContent
    <3>1. CASE e = d
      <4>1. inserted'[e] = c /\ k \in DOMAIN c
        BY <1>11, <2>1, <3>1
      <4>2. HasVector(d, c, k) /\ HasContent(d, c, k)'
        BY <1>3, <1>7, <1>12, <4>1
      <4> QED
        BY <3>1, <4>1, <4>2 DEF HasVector, HasContent
    <3>2. CASE e # d
      <4>1. inserted'[e] = inserted[e]
        BY <1>11, <2>1, <3>2
      <4> QED
        BY <1>10, <3>2, <4>1 DEF HasVector
    <3> QED
      BY <3>1, <3>2
  <2>4. UnderWay'
    BY <2>1 DEF UnderWay, NoInsert
  <2>5. VectorsMatch'
    BY <1>2, <1>9, <1>12 DEF VectorsMatch
  <2> QED
    BY <1>8, <2>2, <2>3, <2>4, <2>5 DEF LoopInv
<1>13. CASE ins.todo # {id}
  <2>1. ins' = [ins EXCEPT !.todo = @ \ {id}] /\ inserted' = inserted
    BY <1>13 DEF PutContent
  <2>2. /\ ins'.doc = d /\ ins'.chunks = c /\ ins'.at = "contents"
        /\ ins'.todo = ins.todo \ {id}
        /\ ins' \in [doc : Docs \union {Absent}, chunks : ChunkLists,
                     at : {"idle", "embed", "contents"}, todo : SUBSET (Docs \X Int)]
    BY <1>0, <1>1, <2>1
  <2>3. LoopTypeOK'
    BY <1>1, <1>2, <1>5, <2>1, <2>2 DEF LoopInv, LoopTypeOK
  <2>4. Repaired'
    <3> SUFFICES ASSUME NEW e \in Docs, inserted[e] # Absent, NEW k \in DOMAIN inserted[e]
                 PROVE  HasVector(e, inserted[e], k)' /\ HasContent(e, inserted[e], k)'
      BY <2>1 DEF Repaired
    <3>1. e # d
      BY <1>3
    <3> QED
      BY <1>2, <1>10, <2>1, <3>1 DEF HasVector, HasContent
  <2>5. UnderWay'
    <3>1. ASSUME NEW k \in DOMAIN c
          PROVE  chunkID(d, k) \in ins'.todo \/ HasContent(d, c, k)'
      BY <1>7, <2>2
    <3> QED
      BY <1>3, <1>6, <2>1, <2>2, <3>1 DEF UnderWay, HasVector, HasContent
  <2>6. VectorsMatch'
    BY <1>2, <1>9, <2>2 DEF VectorsMatch
  <2> QED
    BY <1>8, <2>3, <2>4, <2>5, <2>6 DEF LoopInv
<1> QED
  BY <1>12, <1>13

LEMMA SearchKeeps == LoopInv /\ Search => LoopInv'
<1> SUFFICES ASSUME LoopInv, Search PROVE LoopInv'
  OBVIOUS
<1>1. /\ UNCHANGED <<vdb, kv, inserted, broken>> /\ ins' = ins
      /\ disturbed' = (ins.at = "contents")
  BY DEF Search, insertVars
<1>2. PICK hits \in SUBSET vdb :
        qry' = [at |-> "fetch", hits |-> hits, todo |-> {h.id : h \in hits}, rows |-> <<>>]
  BY DEF Search
<1>3. LoopTypeOK'
  BY <1>1, <1>2 DEF LoopInv, LoopTypeOK
<1>4. RowsMatch'
  <2>1. /\ qry'.hits = hits /\ qry'.todo = {h.id : h \in hits} /\ qry'.rows = <<>>
        /\ DOMAIN qry'.rows = {}
    BY <1>2
  <2>2. ~disturbed' => ins'.at # "contents"
    BY <1>1
  <2>3. \A h \in hits : h.id \in qry'.todo
    BY <2>1
  <2> QED
    BY <1>1, <2>1, <2>2, <2>3 DEF RowsMatch
<1> QED
  BY <1>1, <1>3, <1>4, QuietKeeps

LEMMA FetchRowKeeps ==
  ASSUME LoopInv, NEW id \in ChunkIds, FetchRow(id)
  PROVE  LoopInv'
<1>1. /\ UNCHANGED <<vdb, kv, inserted, broken>> /\ ins' = ins /\ disturbed' = disturbed
      /\ qry.at = "fetch" /\ id \in qry.todo
  BY DEF FetchRow, insertVars
<1>2. /\ qry'.at = qry.at /\ qry'.hits = qry.hits
      /\ qry'.todo = qry.todo \ {id} /\ qry'.rows = WithRow(qry.rows, id)
      /\ qry' = [at |-> qry'.at, hits |-> qry'.hits, todo |-> qry'.todo, rows |-> qry'.rows]
  BY DEF FetchRow, LoopInv, LoopTypeOK
<1>3. LoopTypeOK'
  BY <1>1, <1>2 DEF LoopInv, LoopTypeOK
<1>4. /\ DOMAIN qry'.rows = DOMAIN qry.rows \union {id}
      /\ qry'.rows[id] = kv[id]
      /\ \A i \in DOMAIN qry.rows \ {id} : qry'.rows[i] = qry.rows[i]
  BY <1>2 DEF WithRow
<1>5. RowsMatch'
  <2> SUFFICES ASSUME ~disturbed
               PROVE  /\ DOMAIN qry'.rows \intersect qry'.todo = {}
                      /\ \A h \in qry.hits : h.id[1] \notin broken =>
                           h.id \in qry'.todo
                           \/ (h.id \in DOMAIN qry'.rows /\ qry'.rows[h.id] = h.of)
    BY <1>1, <1>2 DEF LoopInv, RowsMatch
  <2>1. /\ ins.at # "contents" /\ qry.hits \subseteq vdb
        /\ DOMAIN qry.rows \intersect qry.todo = {}
        /\ \A h \in qry.hits : h.id[1] \notin broken =>
             h.id \in qry.todo \/ (h.id \in DOMAIN qry.rows /\ qry.rows[h.id] = h.of)
    BY <1>1 DEF LoopInv, RowsMatch
  <2>2. ASSUME NEW h \in qry.hits, h.id[1] \notin broken
        PROVE  h.id \in qry'.todo \/ (h.id \in DOMAIN qry'.rows /\ qry'.rows[h.id] = h.of)
    <3>1. CASE h.id = id
      <4>1. kv[h.id] = h.of
        BY <2>1, <2>2 DEF LoopInv, VectorsMatch
      <4> QED
        BY <1>4, <3>1, <4>1
    <3>2. CASE h.id # id
      BY <1>2, <1>4, <2>1, <2>2, <3>2
    <3> QED
      BY <3>1, <3>2
  <2> QED
    BY <1>2, <1>4, <2>1, <2>2
<1> QED
  BY <1>1, <1>3, <1>5, QuietKeeps

LEMMA CompleteKeeps == LoopInv /\ (Complete \/ Panic \/ UNCHANGED loopVars) => LoopInv'
<1> SUFFICES ASSUME LoopInv, Complete \/ Panic \/ UNCHANGED loopVars PROVE LoopInv'
  OBVIOUS
<1>1. UNCHANGED <<vdb, kv, inserted, broken>> /\ ins' = ins
  BY DEF Complete, Panic, loopVars, insertVars
<1>2. (qry' = qry /\ disturbed' = disturbed) \/ (qry' = NoQuery /\ disturbed' = FALSE)
  BY DEF Complete, Panic, loopVars, queryVars
<1>3. LoopTypeOK' /\ RowsMatch'
  <2>1. CASE qry' = qry /\ disturbed' = disturbed
    <3>1. LoopTypeOK'
      BY <1>1, <2>1 DEF LoopInv, LoopTypeOK
    <3>2. RowsMatch'
      BY <1>1, <2>1 DEF LoopInv, RowsMatch
    <3> QED
      BY <3>1, <3>2
  <2>2. CASE qry' = NoQuery /\ disturbed' = FALSE
    <3>1. LoopTypeOK'
      BY <1>1, <2>2 DEF LoopInv, LoopTypeOK, NoQuery
    <3>2. RowsMatch'
      BY <2>2 DEF RowsMatch, NoQuery
    <3> QED
      BY <3>1, <3>2
  <2> QED
    BY <1>2, <2>1, <2>2
<1> QED
  BY <1>1, <1>3, QuietKeeps

LEMMA LoopStepInv == LoopInv /\ [LoopNext]_loopVars => LoopInv'
<1> SUFFICES ASSUME LoopInv, [LoopNext]_loopVars PROVE LoopInv'
  OBVIOUS
<1> QED
  BY BeginInsertKeeps, EmbedFailsKeeps, PutVectorsKeeps, PutRefusedKeeps, PutContentKeeps,
     SearchKeeps, FetchRowKeeps, CompleteKeeps DEF LoopNext

\* What an Insert under way has written, and has still to write, is what its
\* text asks for (Pipeline.Insert and the two stores).
THEOREM LoopInvariant == LoopSpec => []LoopInv
<1>1. LoopInit => LoopInv
  BY LoopInitInv
<1>2. LoopInv /\ [LoopNext]_loopVars => LoopInv'
  BY LoopStepInv
<1> QED
  BY <1>1, <1>2, PTL DEF LoopSpec

\* An Insert that returns without an error leaves both stores holding its text,
\* whatever earlier Inserts of the document left half done (Pipeline.Insert).
THEOREM InsertMadeAgainRepairs == LoopSpec => []InsertRepairs
<1>1. LoopInv => InsertRepairs
  BY DEF LoopInv, Repaired, HasVector, HasContent, InsertRepairs
<1> QED
  BY <1>1, LoopInvariant, PTL

\* A query that overlaps no Insert shows the model the contents its hits were
\* found by, except for documents broken between the two stores
\* (Pipeline.Query).
THEOREM QuietQueryIsConsistent == LoopSpec => []QuietQueryShowsItsHits
<1>1. LoopInv => QuietQueryShowsItsHits
  BY DEF LoopInv, RowsMatch, QuietQueryShowsItsHits
<1> QED
  BY <1>1, LoopInvariant, PTL
-----------------------------------------------------------------------------
=============================================================================
