----------------------------- MODULE MCChunking -----------------------------
(***************************************************************************)
(* Small instances of Chunking for TLC.                                    *)
(*                                                                         *)
(* By tokens: every text of up to seven units, for a window of two or      *)
(* three and an overlap of one or two, and sizes that are refused.  By     *)
(* characters: a window is eight runes and the overlap four, and texts of  *)
(* up to thirteen runes need one, two or three of them.                    *)
(***************************************************************************)
EXTENDS Chunking

CutCall(how, script, ink, sizes) ==
  [how |-> how, script |-> script, ink |-> ink, size |-> sizes[1], overlap |-> sizes[2]]
TextsOf(lengths) == UNION {[1..n -> BOOLEAN] : n \in lengths}

ByTokens ==
  {CutCall("tokens", "words", ink, sizes) :
     ink \in TextsOf(0..7), sizes \in {<<2, 1>>, <<3, 1>>, <<3, 2>>, <<1, 1>>, <<2, 0>>}}

\* Texts that begin with ink.
ByCharacters ==
  {CutCall("characters", "words", <<TRUE>> \o ink, <<2, 1>>) : ink \in TextsOf({6, 7, 8, 11, 12})}

MCCutInputs == ByTokens \cup ByCharacters

\* Texts without a blank, in a script that writes one rune per word.
Ideographs ==
  {CutCall("characters", "ideographs", [k \in 1..n |-> TRUE], sizes) :
     n \in 1..24, sizes \in {<<2, 1>>, <<3, 1>>}}
=============================================================================
