------------------------------- MODULE Index -------------------------------
(***************************************************************************)
(* ns_index::Index (src/index.hpp): BuildIndex reads raw.txt line by line  *)
(* and builds the forward index (doc_id -> document) and the inverted      *)
(* index (word -> list of weighted doc_ids).                               *)
(*                                                                         *)
(* `input' is raw.txt as getline and StringTool::Split deliver it: NoFile  *)
(* or a sequence of lines, each a sequence of fields.  Pipeline derives it *)
(* from the bytes that the parser wrote.                                   *)
(***************************************************************************)
EXTENDS Texts

CONSTANTS
    Inputs,   \* the contents of raw.txt considered
    NoFile,   \* raw.txt does not open
    Junk      \* what results[i] may yield when Split returned too few fields

ASSUME InputAssumption ==
    /\ Inputs \subseteq {NoFile} \cup Seq(Seq(Text))
    /\ NoFile \notin Seq(Seq(Text))
    /\ Junk \subseteq Text

X == 10   \* weight of an occurrence in the title
Y == 1    \* weight of an occurrence in the content

DocInfo == [title : Text, content : Text, url : Text, doc_id : Nat]
InvertedElem == [doc_id : Nat, word : Text, weight : Nat]

VARIABLES
    input,            \* the file BuildIndex was given
    line,             \* lines read so far
    forward_index,    \* std::vector<DocInfo>; doc_id d is element d + 1
    inverted_index,   \* word -> InvertedList, <<>> for a word that is no key
    bpc               \* where BuildIndex is

vars == <<input, line, forward_index, inverted_index, bpc>>

Init ==
    /\ input \in Inputs
    /\ line = 0
    /\ forward_index = <<>>
    /\ inverted_index = [word \in Text |-> <<>>]
    /\ bpc = "open"

(* The stream opens or BuildIndex returns false. *)
OpenInput ==
    /\ bpc = "open"
    /\ bpc' = IF input = NoFile THEN "failed" ELSE "getline"
    /\ UNCHANGED <<input, line, forward_index, inverted_index>>

(* Mutants of the definitions below: fields counted from 1, a doc_id taken *)
(* after push_back or one too low, elements pushed at the front, words of  *)
(* the title alone, a loop that waits for one line too many.               *)
FieldFromOne(results, i) == IF i + 1 \in DOMAIN results THEN {results[i + 1]} ELSE Junk
DocIdAfterPush == Len(forward_index) + 1
DocIdTooLow == Len(forward_index) - 1
PushFront(list, elem) == <<elem>> \o list
InTitle(doc, stops, word) == Count(doc.title, stops, word) > 0
OneLineTooMany == line > Len(input)

(* results[i] is not checked against results.size(): undefined behaviour,  *)
(* here an arbitrary text, or a crash (ReadPastFields).                    *)
Field(results, i) == IF i \in DOMAIN results THEN {results[i]} ELSE Junk

NextDocId == Len(forward_index)

BuildForwardIndex ==
    /\ bpc = "getline" /\ line < Len(input)
    /\ LET results == input[line + 1] IN
         \E title \in Field(results, 1), content \in Field(results, 2),
            url \in Field(results, 3) :
              forward_index' =
                Append(forward_index, [title |-> title, content |-> content,
                                       url |-> url, doc_id |-> NextDocId])
    /\ line' = line + 1
    /\ bpc' = "invert"
    /\ UNCHANGED <<input, inverted_index>>

ReadPastFields ==
    /\ bpc = "getline" /\ line < Len(input)
    /\ Len(input[line + 1]) < 3
    /\ bpc' = "crashed"
    /\ UNCHANGED <<input, line, forward_index, inverted_index>>

(* What word_map makes of a word of the document. *)
Weight(doc, stops, word) ==
    X * Count(doc.title, stops, word) + Y * Count(doc.content, stops, word)

InWordMap(doc, stops, word) ==
    Count(doc.title, stops, word) + Count(doc.content, stops, word) > 0

Push(list, elem) == Append(list, elem)

(* One InvertedElem per key of word_map, pushed at the end of the list of  *)
(* that word.  The iteration order of word_map does not matter: each key   *)
(* has a list of its own.                                                  *)
PushElems(doc, stops) ==
    [word \in Text |->
       IF InWordMap(doc, stops, word)
       THEN Push(inverted_index[word],
                 [doc_id |-> doc.doc_id, word |-> word,
                  weight |-> Weight(doc, stops, word)])
       ELSE inverted_index[word]]

(* With the stop words that JiebaUtil has when the document is cut. *)
InvertBut(stops) ==
    /\ bpc = "invert"
    /\ inverted_index' = PushElems(forward_index[Len(forward_index)], stops)
    /\ bpc' = "getline"
    /\ UNCHANGED <<input, line, forward_index>>

BuildInvertedIndex == InvertBut(StopWords)

NoLineLeft == line = Len(input)

EndOfInput ==
    /\ bpc = "getline" /\ NoLineLeft
    /\ bpc' = "built"
    /\ UNCHANGED <<input, line, forward_index, inverted_index>>

BuildIndex ==
    OpenInput \/ BuildForwardIndex \/ ReadPastFields \/ BuildInvertedIndex \/ EndOfInput

(* The lookups that Search makes; <<>> stands for the nullptr of a word    *)
(* that is no key, a list that is a key is never empty.                    *)
GetInvertedList(word) == inverted_index[word]
InForwardIndex(doc_id) == doc_id < Len(forward_index)
GetForwardIndex(doc_id) == forward_index[doc_id + 1]

Spec == Init /\ [][BuildIndex]_vars /\ WF_vars(BuildIndex)

-----------------------------------------------------------------------------
(* Documents whose words are in the inverted index. *)
Indexed == IF bpc = "invert" THEN Len(forward_index) - 1 ELSE Len(forward_index)

(* Types of the variables of Index. *)
TypeOK ==
    /\ input \in Inputs
    /\ line \in Nat
    /\ forward_index \in Seq(DocInfo)
    /\ inverted_index \in [Text -> Seq(InvertedElem)]
    /\ bpc \in {"open", "getline", "invert", "built", "failed", "crashed"}

(* The position of a document is its doc_id, which GetForwardIndex uses as *)
(* an index without looking at the field.                                  *)
DocIdIsPosition ==
    \A d \in DOMAIN forward_index : forward_index[d].doc_id = d - 1

(* The lists are in document order and name no document twice, so Search   *)
(* adds the weight of a word to a document once per token of the query.    *)
ListsAscend ==
    \A word \in Text : \A i, j \in DOMAIN inverted_index[word] :
        i < j => inverted_index[word][i].doc_id < inverted_index[word][j].doc_id

(* The inverted index is the inverse of the forward index: an element for  *)
(* document d stands in the list of a word exactly if d has been indexed   *)
(* and holds the word, and it carries the weight counted from the document *)
(* (index.hpp:128-168 builds it incrementally, from words cut once).       *)
IndexIsInverse ==
    \A word \in Text :
        /\ \A i \in DOMAIN inverted_index[word] :
             LET elem == inverted_index[word][i] IN
               /\ elem.doc_id < Indexed
               /\ elem.word = word
               /\ elem.weight = Weight(forward_index[elem.doc_id + 1], StopWords, word)
               /\ elem.weight > 0
        /\ \A d \in 1 .. Indexed :
             Weight(forward_index[d], StopWords, word) > 0 =>
               \E i \in DOMAIN inverted_index[word] :
                  inverted_index[word][i].doc_id = d - 1

(* A line of raw.txt with three fields or more becomes one document with   *)
(* those fields, whatever the other lines are; a file of such lines only   *)
(* never makes BuildIndex read past the fields of a line.                  *)
LinesBecomeDocs ==
    /\ \A d \in DOMAIN forward_index :
         LET doc == forward_index[d] IN
           Len(input[d]) >= 3 =>
             doc.title = input[d][1] /\ doc.content = input[d][2] /\ doc.url = input[d][3]
    /\ bpc = "built" => Len(forward_index) = Len(input)
    /\ bpc = "crashed" => \E i \in DOMAIN input : Len(input[i]) < 3

(* BuildIndex comes to an end: with an index, without a file, or with the  *)
(* undefined read of a line that has too few fields.                       *)
BuildEnds == <>(bpc \in {"built", "failed", "crashed"})

(* README.md:1448: building the index deletes the index of the stop words. *)
StopWordsNotIndexed ==
    \A word \in StopWords : inverted_index[word] = <<>>
=============================================================================
