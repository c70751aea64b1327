------------------------------ MODULE MCIndex ------------------------------
(* Index on every raw.txt of at most MaxLines lines drawn from MCLines:    *)
(* the parser's records, among them titles and contents that are empty,    *)
(* hold a stop word, hold a capitalised stop word or repeat a word, and    *)
(* the lines Split leaves one or two fields of.                            *)
EXTENDS Index, MCTexts

CONSTANT MaxLines   \* longest raw.txt

MCUrl == <<".">>

MCLines ==
    {<<title, content, MCUrl>> :
        title   \in {<<>>, <<"b">>, <<"T", "t">>},
        content \in {<<"b", "b">>, <<"k", "T">>, <<"t">>}}
      \cup {<<<<"b">>, MCUrl>>,      \* empty content: Split compresses the separators
            <<<<>>>>}                \* an empty line

MCInputs == {NoFile} \cup UNION {[1 .. n -> MCLines] : n \in 0 .. MaxLines}
MCJunk == {<<>>, <<"b">>}
=============================================================================
