------------------------------- MODULE Texts -------------------------------
(***************************************************************************)
(* The texts the program handles and the one operation every component     *)
(* applies to them: cutting a text into the words it is indexed and        *)
(* searched by (ns_util::JiebaUtil::CutString, src/util.hpp, followed by   *)
(* boost::to_lower at each caller).                                        *)
(*                                                                         *)
(* A text is a sequence of symbols; a symbol stands for a byte, or for a   *)
(* group of bytes that is never taken apart.  The segmenter of cppjieba is *)
(* external: it is any operator that cuts a text into a sequence of texts. *)
(***************************************************************************)
EXTENDS Positions

CONSTANTS
    Sym,              \* symbols
    Text,             \* the texts that occur: titles, contents, urls, words, queries
    LowerSym,         \* std::tolower, symbol by symbol
    CutForSearch(_),  \* cppjieba: the words of a text, in the order it emits them
    StopWords         \* the lines of dict/stop_words.utf8, {} if it does not open

Lower(text) == [i \in DOMAIN text |-> LowerSym[text[i]]]

ASSUME SymAssumption ==
    /\ LowerSym \in [Sym -> Sym]
    /\ \A s \in Sym : LowerSym[LowerSym[s]] = LowerSym[s]

ASSUME TextAssumption ==
    /\ Text \subseteq Seq(Sym)
    /\ StopWords \subseteq Text
    /\ \A text \in Text : Lower(text) \in Text

ASSUME CutAssumption == \A text \in Text : CutForSearch(text) \in Seq(Text)

(* CutStringHelper erases the stop words from what the segmenter emits,    *)
(* with letters as they are in the text.                                   *)
Spared(text, stops) == {i \in DOMAIN CutForSearch(text) : CutForSearch(text)[i] \notin stops}

CutString(text, stops) == Selected(CutForSearch(text), Spared(text, stops))

(* Every caller of CutString then lowers each word before it uses it. *)
Tokens(text, stops) ==
    [i \in DOMAIN CutString(text, stops) |-> Lower(CutString(text, stops)[i])]

(* The same without order and number: what a text is found by.             *)
WordSet(text, stops) ==
    {Lower(CutForSearch(text)[i]) :
        i \in {i \in DOMAIN CutForSearch(text) : CutForSearch(text)[i] \notin stops}}

(* How often a word is among the tokens of a text: a counter of word_map.  *)
Count(text, stops, word) ==
    Cardinality({i \in DOMAIN CutForSearch(text) :
        /\ CutForSearch(text)[i] \notin stops
        /\ Lower(CutForSearch(text)[i]) = word})
=============================================================================
