--------------------------- MODULE MCDebugConsole ---------------------------
(* DebugConsole, and with it Searcher, on every raw.txt of at most two of  *)
(* MCLines, all of them records with three fields, and on sessions of at   *)
(* most two lines: one word, two words, a word twice, a stop word, an      *)
(* empty line, a line that fgets reads in two goes, an end without '\n'.   *)
EXTENDS DebugConsole, MCTexts

MCUrl == <<".">>

MCLines ==
    {<<<<"b">>, <<".", "b", "b", ".">>, MCUrl>>,   \* in the title and twice in the content
     <<<<>>, <<"k", "T", ".", "b">>, MCUrl>>,      \* a compound and a capital, no title
     <<<<"T">>, <<".", ".", "k">>, MCUrl>>,        \* a word at the end only
     <<<<"k">>, <<"t">>, MCUrl>>}                  \* words in the title only

MCInputs == {NoFile} \cup UNION {[1 .. n -> MCLines] : n \in 0 .. 2}
MCContents == {l[2] : l \in MCLines}
MCLongText == MCText \cup MCContents
                     \cup {[i \in DOMAIN c |-> MCLowerSym[c[i]]] : c \in MCContents}

MCTyped ==
    {<<"b", Nl>>, <<"T", "k", Nl>>, <<"b", "b", Nl>>, <<"t", Nl>>, <<Nl>>,
     <<"b", "k", "b", Nl>>, <<"k">>}
MCSessions ==
    {<<>>} \cup MCTyped
           \cup {one \o two : one \in MCTyped, two \in {<<"b", Nl>>, <<Nl>>, <<"k">>}}
MCLeftovers == {NoEnd, <<"b">>}

MCQueries == UNION {[1 .. n -> {"b", "k", "t", "T"}] : n \in 0 .. 2}
=============================================================================
