------------------------------ MODULE MCTexts ------------------------------
(* A small vocabulary for TLC.  Each symbol is one token:                  *)
(*   "t"  a stop word, "T" the same word with a capital letter,            *)
(*   "b"  an ordinary word,                                                *)
(*   "k"  a compound, which CutForSearch emits after the word in it, "b",  *)
(*   "."  a symbol that CutForSearch emits no word for.                    *)
EXTENDS Naturals, Sequences, SequencesExt

MCSym == {"t", "T", "b", "k", "."}
MCLowerSym == [s \in MCSym |-> IF s = "T" THEN "t" ELSE s]
MCStopWords == {<<"t">>}

MCWords(s) ==
    CASE s = "." -> <<>>
      [] s = "k" -> <<<<"b">>, <<"k">>>>
      [] OTHER   -> <<<<s>>>>

MCCutForSearch(text) == FlattenSeq([i \in DOMAIN text |-> MCWords(text[i])])

MCText == UNION {[1 .. n -> MCSym] : n \in 0 .. 2}
=============================================================================
