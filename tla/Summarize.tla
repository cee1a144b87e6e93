----------------------------- MODULE Summarize ------------------------------
(***************************************************************************)
(* One call of MergeEntities or MergeRelationships of s10 (merge.go): the  *)
(* records are grouped by name, or by their two ends, and the descriptions *)
(* of each group are merged by summarizeWithName (summarize.go), which     *)
(* joins them when they are few and short and otherwise cuts them into     *)
(* windows, has the model summarize each window, and repeats.  A text is   *)
(* its length in tokens and the records it was made of.  Types, the        *)
(* wording of prompts and the flag llmUsed, which the merge throws away,   *)
(* are left out.                                                           *)
(***************************************************************************)
EXTENDS Integers, Sequences, FiniteSets, SequencesExt

CONSTANTS
  Inputs,      \* what a caller passes: sequences of [name, given, tokens, weight,
               \* keywords, sources], where the name is <<Name>> of an entity,
               \* whose weight is 0 and keywords are blank, or <<SrcID, TgtID>>,
               \* and given says that the description is not the empty string
  NoKeywords,  \* the blank list of keywords
  Limits,      \* settings: [budget, window, threshold]
  AnswerSizes  \* tokens of a summary the model writes; it may be blank

ASSUME MergeConstants ==
  /\ \A in \in Inputs :
       /\ Len(in) \in Nat /\ in = [i \in 1..Len(in) |-> in[i]]
       /\ \A i \in DOMAIN in : in[i].tokens \in Nat /\ in[i].weight \in Int
  /\ \A l \in Limits : {l.budget, l.window, l.threshold} \subseteq Int
  /\ AnswerSizes \subseteq Nat

MaxRecursionDepth == 3

VARIABLES
  records, limits,  \* the call
  mergeCtx,         \* the caller's context
  mergeAt,          \* "group", "level", "reduce", "merged" or "failed"
  merged,           \* the entities made so far
  level,            \* depth of the recursion
  descs,            \* descriptions of this level
  chunks,           \* windows of this level not reduced yet
  partials,         \* what the reduced ones gave
  asked             \* calls of the model made for this name

arguments == <<records, limits>>
mergeVars == <<arguments, mergeCtx, mergeAt, merged, level, descs, chunks, partials, asked>>

MergeInit ==
  /\ records \in Inputs
  /\ limits \in Limits
  /\ mergeCtx = "live"
  /\ mergeAt = "group"
  /\ merged = <<>>
  /\ level = 0
  /\ descs = <<>> /\ chunks = <<>> /\ partials = <<>>
  /\ asked = 0

-----------------------------------------------------------------------------
Tokens(texts) == FoldLeft(LAMBDA sum, t : sum + t.tokens, 0, texts)

Contents(texts) == FoldLeft(LAMBDA seq, t : seq \o t.of, <<>>, texts)

\* strings.Join
Joined(texts) == [tokens |-> Tokens(texts), of |-> Contents(texts)]

\* Mutant: a window is closed as soon as it is full, be it with one.
PutStrict(acc, d) ==
  IF acc.tokens + d.tokens > limits.window /\ acc.current # <<>>
  THEN [done |-> Append(acc.done, acc.current), current |-> <<d>>, tokens |-> d.tokens]
  ELSE [acc EXCEPT !.current = Append(@, d), !.tokens = @ + d.tokens]

\* A description already in a full window closes it; but a window that
\* holds one description takes a second one first.
Put(acc, d) ==
  IF acc.tokens + d.tokens > limits.window /\ acc.current # <<>>
  THEN IF Len(acc.current) = 1
       THEN [done |-> Append(acc.done, Append(acc.current, d)), current |-> <<>>, tokens |-> 0]
       ELSE [done |-> Append(acc.done, acc.current), current |-> <<d>>, tokens |-> d.tokens]
  ELSE [acc EXCEPT !.current = Append(@, d), !.tokens = @ + d.tokens]

Packed(texts) == FoldLeft(Put, [done |-> <<>>, current |-> <<>>, tokens |-> 0], texts)

\* Mutant: the window under way at the end is forgotten.
FullWindows(texts) == Packed(texts).done

chunkByTokens(texts) ==
  LET acc == Packed(texts)
  IN  IF acc.current = <<>> THEN acc.done ELSE Append(acc.done, acc.current)

-----------------------------------------------------------------------------
\* The places in a set, in order, where n is the last there is.
InOrder(set, n) ==
  FoldLeft(LAMBDA seq, i : IF i \in set THEN Append(seq, i) ELSE seq, <<>>, [i \in 1..n |-> i])

\* The two ends of a relationship in either order (canonicalEdge).
GroupKey(rec) == ToSet(rec.name)

\* Groups in the order in which they are first seen.
FirstPlaces(recs) ==
  {i \in DOMAIN recs : \A j \in 1..(i - 1) : GroupKey(recs[j]) # GroupKey(recs[i])}
Names(recs) ==
  LET first == InOrder(FirstPlaces(recs), Len(recs))
  IN  [k \in DOMAIN first |-> GroupKey(recs[first[k]])]

\* Empty descriptions are left out, one of white space alone is not.
Described(recs, name) ==
  InOrder({i \in DOMAIN recs : GroupKey(recs[i]) = name /\ recs[i].given}, Len(recs))
Fragments(recs, name) ==
  LET places == Described(recs, name)
  IN  [k \in DOMAIN places |-> [tokens |-> recs[places[k]].tokens, of |-> <<places[k]>>]]

\* What is gathered of all records of a group, described or not: weights are
\* summed, sources united, and lists of keywords joined, each list once.
Picked(recs, places) == [k \in DOMAIN places |-> recs[places[k]]]
Group(recs, name) ==
  Picked(recs, InOrder({i \in DOMAIN recs : GroupKey(recs[i]) = name}, Len(recs)))
Weight(seq) == FoldLeft(LAMBDA sum, r : sum + r.weight, 0, seq)
Sources(seq) == UNION {r.sources : r \in ToSet(seq)}
KeywordsSeen(seq) ==
  FoldLeft(LAMBDA lists, r : IF r.keywords = NoKeywords \/ Contains(lists, r.keywords) THEN lists
                             ELSE Append(lists, r.keywords), <<>>, seq)

Current == Names(records)[Len(merged) + 1]

\* SummarizeDescriptionsForName is called for the next group.
BeginGroup ==
  /\ mergeAt = "group" /\ Len(merged) < Len(Names(records))
  /\ mergeAt' = "level"
  /\ descs' = Fragments(records, Current)
  /\ level' = 0
  /\ asked' = 0
  /\ UNCHANGED <<arguments, mergeCtx, merged, chunks, partials>>

Finish ==
  /\ mergeAt = "group" /\ Len(merged) = Len(Names(records))
  /\ mergeAt' = "merged"
  /\ UNCHANGED <<arguments, mergeCtx, merged, level, descs, chunks, partials, asked>>

\* summarizeWithName returns text: the entity is complete.
Give(text) ==
  /\ LET group == Group(records, Current)
     IN  merged' = Append(merged, [name |-> Current, text |-> text, asked |-> asked',
                                   weight |-> Weight(group), sources |-> Sources(group),
                                   keywords |-> KeywordsSeen(group)])
  /\ mergeAt' = "group"

Fits(texts) == Len(texts) < limits.threshold /\ Tokens(texts) < limits.budget

\* No description or one, or few and short ones: no call of the model.
GiveAsIs ==
  /\ mergeAt = "level" /\ mergeCtx = "live"
  /\ Len(descs) <= 1 \/ Fits(descs)
  /\ UNCHANGED asked
  /\ Give(Joined(descs))
  /\ UNCHANGED <<arguments, mergeCtx, level, descs, chunks, partials>>

Split ==
  /\ mergeAt = "level" /\ mergeCtx = "live"
  /\ Len(descs) > 1 /\ ~Fits(descs)
  /\ mergeAt' = "reduce"
  /\ chunks' = chunkByTokens(descs)
  /\ partials' = <<>>
  /\ UNCHANGED <<arguments, mergeCtx, merged, level, descs, asked>>

\* A window of one passes through unread.
PassThrough ==
  /\ mergeAt = "reduce" /\ mergeCtx = "live"
  /\ chunks # <<>> /\ Len(Head(chunks)) = 1
  /\ partials' = partials \o Head(chunks)
  /\ chunks' = Tail(chunks)
  /\ UNCHANGED <<arguments, mergeCtx, mergeAt, merged, level, descs, asked>>

\* The model summarizes a window.
Reduce(size) ==
  /\ mergeAt = "reduce" /\ mergeCtx = "live"
  /\ chunks # <<>> /\ Len(Head(chunks)) > 1
  /\ asked' = asked + 1
  /\ partials' = Append(partials, [tokens |-> size, of |-> Contents(Head(chunks))])
  /\ chunks' = Tail(chunks)
  /\ UNCHANGED <<arguments, mergeCtx, mergeAt, merged, level, descs>>

\* The model fails, or the context is cancelled: no entity is returned, not
\* even those that are complete.
MergeFails ==
  /\ mergeAt' = "failed"
  /\ UNCHANGED <<arguments, mergeCtx, merged, level, descs, chunks, partials>>

ReduceFails ==
  /\ mergeAt = "reduce" /\ mergeCtx = "live"
  /\ chunks # <<>> /\ Len(Head(chunks)) > 1
  /\ asked' = asked + 1
  /\ MergeFails

Cancelled ==
  /\ mergeCtx = "cancelled"
  /\ \/ mergeAt = "level"
     \/ mergeAt = "reduce" /\ chunks # <<>>
  /\ MergeFails
  /\ UNCHANGED asked

\* One partial, or few and short ones.
GivePartials ==
  /\ mergeAt = "reduce" /\ chunks = <<>>
  /\ Len(partials) = 1 \/ Fits(partials)
  /\ UNCHANGED asked
  /\ Give(Joined(partials))
  /\ UNCHANGED <<arguments, mergeCtx, level, descs, chunks, partials>>

TooBig == mergeAt = "reduce" /\ chunks = <<>> /\ Len(partials) > 1 /\ ~Fits(partials)

Recurse ==
  /\ TooBig /\ level + 1 < MaxRecursionDepth
  /\ level' = level + 1
  /\ descs' = partials
  /\ mergeAt' = "level"
  /\ UNCHANGED <<arguments, mergeCtx, merged, chunks, partials, asked>>

\* At the last level one call summarizes all partials,
GiveFinal(size) ==
  /\ TooBig /\ level + 1 >= MaxRecursionDepth
  /\ asked' = asked + 1
  /\ Give([tokens |-> size, of |-> Contents(partials)])
  /\ UNCHANGED <<arguments, mergeCtx, level, descs, chunks, partials>>

\* and their concatenation stands in for it when that fails.
GiveUnsummarized ==
  /\ TooBig /\ level + 1 >= MaxRecursionDepth
  /\ asked' = asked + 1
  /\ Give(Joined(partials))
  /\ UNCHANGED <<arguments, mergeCtx, level, descs, chunks, partials>>

CancelMerge ==
  /\ mergeCtx = "live" /\ mergeAt \notin {"merged", "failed"}
  /\ mergeCtx' = "cancelled"
  /\ UNCHANGED <<arguments, mergeAt, merged, level, descs, chunks, partials, asked>>

MergeReturned == mergeAt \in {"merged", "failed"} /\ UNCHANGED mergeVars

MergeNext ==
  \/ BeginGroup \/ Finish \/ GiveAsIs \/ Split \/ PassThrough
  \/ \E size \in AnswerSizes : Reduce(size) \/ GiveFinal(size)
  \/ ReduceFails \/ Cancelled \/ GivePartials \/ Recurse \/ GiveUnsummarized
  \/ CancelMerge \/ MergeReturned

MergeSpec == MergeInit /\ [][MergeNext]_mergeVars

-----------------------------------------------------------------------------
(***************************************************************************)
(* A merge that succeeds has one result per entity name or pair of ends,   *)
(* in whatever direction, and every description that is not empty reaches  *)
(* its result, as it is or through a summary that was given it, once and   *)
(* in order: nothing is lost in the windows, the levels or the fallback.   *)
(* Weights add up to what was given, and the sources and keywords of a     *)
(* record are those of its result, also when its description is empty.     *)
(***************************************************************************)
EveryDescriptionOnce ==
  /\ \A k \in DOMAIN merged :
       merged[k].text.of =
         InOrder({i \in DOMAIN records : /\ ToSet(records[i].name) = merged[k].name
                                        /\ records[i].given}, Len(records))
  /\ \A j, k \in DOMAIN merged : merged[j].name = merged[k].name => j = k
  /\ mergeAt = "merged" =>
       /\ Weight(merged) = Weight(records)
       /\ \A i \in DOMAIN records : \E k \in DOMAIN merged :
            /\ merged[k].name = ToSet(records[i].name)
            /\ records[i].sources \subseteq merged[k].sources
            /\ records[i].keywords \in ToSet(merged[k].keywords) \cup {NoKeywords}

(***************************************************************************)
(* Every level leaves at most half as many texts, rounded up, however long *)
(* they are, which is what the rule of two per window is for; and merging  *)
(* n descriptions costs at most n - 1 calls of the model, each of which    *)
(* takes at least two texts.                                               *)
(***************************************************************************)
EveryLevelMakesProgress ==
  /\ mergeAt = "reduce" => Len(partials) + Len(chunks) <= (Len(descs) + 1) \div 2
  /\ mergeAt \in {"level", "reduce"} /\ asked # 0 => asked < Len(Described(records, Current))
  /\ \A k \in DOMAIN merged :
       merged[k].asked # 0 => merged[k].asked < Len(Described(records, merged[k].name))
=============================================================================
