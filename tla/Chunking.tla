------------------------------ MODULE Chunking ------------------------------
(***************************************************************************)
(* Cutting a document into chunks, s04 (chunking.go): ChunkByTokenSize     *)
(* slides a window over the tokens of a text, or over its runes when the   *)
(* caller asks to split by character, and consecutive windows share an     *)
(* overlap.  A text is a sequence of units, tokens or runes, each of which *)
(* has ink or is white space.  A chunk is the window it was cut from: the  *)
(* white space trimmed from its ends changes nothing that is said here.    *)
(***************************************************************************)
EXTENDS Integers, Sequences, FiniteSets, Functions

CONSTANT CutInputs  \* the calls: [how, script, ink, size, overlap]

ASSUME CutInputsAreCalls ==
  CutInputs \subseteq [how : {"tokens", "characters"}, script : {"words", "ideographs"},
                       ink : Seq(BOOLEAN), size : Int, overlap : Int]

RunesPerToken == 4

VARIABLES
  cutCall,  \* the call
  stage,    \* "called", "cutting", "done", or "refused" with an error
  start,    \* where the next window begins, counted from 0
  cut       \* out: the chunks so far, the k-th with ChunkOrderIndex k - 1

cutVars == <<cutCall, stage, start, cut>>

CutInit == cutCall \in CutInputs /\ stage = "called" /\ start = 0 /\ cut = <<>>

-----------------------------------------------------------------------------
Length == Len(cutCall.ink)

\* Sizes are given in tokens; one stands for four runes.
Units(tokens) == IF cutCall.how = "characters" THEN tokens * RunesPerToken ELSE tokens

Window == Units(cutCall.size)
Overlap == Units(cutCall.overlap)

\* Mutant: windows that follow each other without an overlap.
StrideOfWindow == Window

Stride == Window - Overlap

End == IF start + Window > Length THEN Length ELSE start + Window

Blank(i, j) == \A k \in i..j : ~cutCall.ink[k]

Inked(i, j) == {k \in i..j : cutCall.ink[k]}

\* WhitespaceTokenizer: one token for each word.
WordsIn(i, j) == Cardinality({k \in Inked(i, j) : k = i \/ ~cutCall.ink[k - 1]})

\* TiktokenTokenizer over a script without blanks: the encoding is a library's,
\* taken to give a token for each rune, as it does for common ideographs.
IdeographsIn(i, j) == Cardinality(Inked(i, j))

\* The tokenizer the caller chose for the text encodes the units i..j.
TokensOf(i, j) == IF cutCall.script = "ideographs" THEN IdeographsIn(i, j) ELSE WordsIn(i, j)

\* Mutant: the loop goes on until a window begins past the end.
NeverReachesEnd == FALSE

ReachesEnd == End = Length

Valid == cutCall.overlap > 0 /\ cutCall.size > cutCall.overlap /\ ~Blank(1, Length)

\* ErrInvalidChunkSize, or ErrEmptyText.
Refuse ==
  /\ stage = "called"
  /\ ~Valid
  /\ stage' = "refused"
  /\ UNCHANGED <<cutCall, start, cut>>

Accept ==
  /\ stage = "called"
  /\ Valid
  /\ stage' = "cutting"
  /\ UNCHANGED <<cutCall, start, cut>>

\* A window with ink gives a chunk, and the one that reaches the end of the
\* text is the last.
Emit ==
  /\ stage = "cutting"
  /\ start < Length
  /\ ~Blank(start + 1, End)
  /\ cut' = Append(cut, [from |-> start + 1, to |-> End,
                         tokens |-> IF cutCall.how = "tokens" THEN End - start
                                    ELSE TokensOf(start + 1, End)])
  /\ IF ReachesEnd THEN stage' = "done" /\ start' = start
     ELSE start' = start + Stride /\ stage' = stage
  /\ UNCHANGED cutCall

\* A window without ink gives none, and is never the last.
Skip ==
  /\ stage = "cutting"
  /\ start < Length
  /\ Blank(start + 1, End)
  /\ start' = start + Stride
  /\ UNCHANGED <<cutCall, stage, cut>>

\* The loop runs off the end of the text.
RunOff ==
  /\ stage = "cutting"
  /\ start >= Length
  /\ stage' = IF cutCall.how = "characters" /\ cut = <<>> THEN "refused" ELSE "done"
  /\ UNCHANGED <<cutCall, start, cut>>

CutNext == Refuse \/ Accept \/ Emit \/ Skip \/ RunOff

CutReturned == stage \in {"done", "refused"} /\ UNCHANGED cutVars

CutSpec == CutInit /\ [][CutNext \/ CutReturned]_cutVars

-----------------------------------------------------------------------------
\* Any stretch of the text that begins and ends with ink and is no longer
\* than the overlap and one unit more lies whole in some chunk, wherever the
\* windows happen to fall; so no ink is lost.  "a sentence crossing the
\* boundary is visible in both" (docs/en/s04-chunking.md).
StretchesStayWhole ==
  stage = "done" =>
    \A i \in 1..Length, j \in 1..Length :
      i <= j /\ j - i <= Overlap /\ cutCall.ink[i] /\ cutCall.ink[j]
      => \E c \in Range(cut) : c.from <= i /\ j <= c.to

\* A chunk is cut only because the window before it left some of the text:
\* the number of chunks is what the stride needs, and a text that ends just
\* where a window does is not followed by a chunk of nothing but overlap.
NoNeedlessChunk ==
  Len(cut) > 1 => (Len(cut) - 2) * Stride + Window < Length

\* No chunk has more tokens than were asked for, in either mode.
EveryChunkWithinLimit ==
  \A c \in Range(cut) : c.tokens <= cutCall.size
=============================================================================
