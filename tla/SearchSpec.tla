----------------------------- MODULE SearchSpec -----------------------------
(***************************************************************************)
(* What a search promises, stated without an index: a query is answered by *)
(* scanning every document of raw.txt.  Searcher, which looks words up in  *)
(* the inverted index and merges the lists, implements this specification. *)
(***************************************************************************)
EXTENDS Texts, FiniteSetsExt

CONSTANTS PrevStep, NextStep, NoDesc,   \* see Descriptions
          NoFile,                       \* raw.txt does not open
          Queries, NoQuery, NoAnswer

VARIABLES input, query, answer

specvars == <<input, query, answer>>

(* One document per line; no file is no document. *)
Documents == IF input = NoFile THEN {} ELSE DOMAIN input
Title(d) == input[d][1]
Content(d) == input[d][2]
Url(d) == input[d][3]

(* A word counts ten times in the title, and every time the query repeats  *)
(* a word its weight is added again: what counts are the pairs of a place  *)
(* in the query and a place in the text with the same word.                *)
Matches(words, text) ==
    {p \in (DOMAIN words) \X (DOMAIN Tokens(text, StopWords)) :
        Tokens(text, StopWords)[p[2]] = words[p[1]]}

Score(d, words) ==
    10 * Cardinality(Matches(words, Title(d))) + Cardinality(Matches(words, Content(d)))

Hits(words) == {d \in Documents : Score(d, words) > 0}

(* The word a description is about: the first of the query that the        *)
(* document has.                                                           *)
Subject(d, words) ==
    words[Min({i \in DOMAIN words : Score(d, <<words[i]>>) > 0})]

Holds(content, word, pos) ==
    /\ pos + Len(word) <= Len(content)
    /\ \A i \in DOMAIN word : LowerSym[content[pos + i]] = LowerSym[word[i]]

(* A description is a piece of the content that begins at or before the    *)
(* first place that holds the word, at most PrevStep symbols before it,    *)
(* and ends at most NextStep symbols after the place begins.               *)
Describes(desc, content, word) ==
    LET places == {pos \in 0 .. Len(content) - 1 : Holds(content, word, pos)} IN
      IF places = {} THEN desc = NoDesc
      ELSE LET place == Min(places) IN
             \E from \in 0 .. place, to \in place .. Len(content) - 1 :
                /\ place - from <= PrevStep /\ to - place <= NextStep
                /\ desc = SubSeq(content, from + 1, to)

(* The JSON array: every hit once, best score first, ties in any order. *)
IsAnswer(json, words) ==
    /\ Len(json) = Cardinality(Hits(words))
    /\ {json[i].id : i \in DOMAIN json} = {d - 1 : d \in Hits(words)}
    /\ \A i \in DOMAIN json :
         LET d == json[i].id + 1 IN
           /\ json[i].title = Title(d)
           /\ json[i].url = Url(d)
           /\ json[i].weight = Score(d, words)
           /\ Describes(json[i].desc, Content(d), Subject(d, words))
    /\ \A i, j \in DOMAIN json : i < j => json[i].weight >= json[j].weight

Init == query = NoQuery /\ answer = NoAnswer

Ask ==
    /\ query = NoQuery
    /\ query' \in Queries
    /\ answer' = NoAnswer
    /\ UNCHANGED input

Reply ==
    /\ query # NoQuery
    /\ answer' # NoAnswer
    /\ IsAnswer(answer', Tokens(query, StopWords))
    /\ query' = NoQuery
    /\ UNCHANGED input

(* A query that was asked is answered. *)
Answered == (query # NoQuery) ~> (query = NoQuery)

(* Answers are right, and come one to a query.                             *)
Safety == Init /\ [][Ask \/ Reply]_specvars

Spec == Safety /\ Answered
=============================================================================
