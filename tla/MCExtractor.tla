---------------------------- MODULE MCExtractor ----------------------------
(* A small instance of Extractor for TLC. *)
EXTENDS Extractor, TLC

CONSTANTS k1, k2, text, m, n, r

\* Two chunks with the same text.
MCChunks == {k1, k2}
MCContentOf == k1 :> text @@ k2 :> text

\* A relationship may come a round after its entities.
MCAnswers == {[ents |-> {m}, rels |-> {}], [ents |-> {m, n}, rels |-> {r}]}
=============================================================================
