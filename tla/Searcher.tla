------------------------------ MODULE Searcher ------------------------------
(***************************************************************************)
(* ns_searcher::Searcher (src/searcher.hpp): InitSearcher builds the index *)
(* and ignores whether that worked; Search cuts a query, looks every word  *)
(* up, merges the lists per document and answers with a sorted JSON array. *)
(*                                                                         *)
(* One call of Search is in progress at a time.  In the server calls run   *)
(* in parallel (see HttpServer); all their variables are local and the     *)
(* index does not change any more.                                         *)
(***************************************************************************)
EXTENDS Index, Descriptions, SequencesExt

CONSTANTS
    Queries,    \* the query strings
    NoQuery,    \* no call of Search is in progress
    NoAnswer    \* json_string has not been written for this query

JsonElems == [title : Text, desc : Seq(Sym) \cup {NoDesc}, url : Text, weight : Nat, id : Nat]

ASSUME QueryAssumption ==
    /\ Queries \subseteq Text /\ NoQuery \notin Text
    /\ NoAnswer \notin Seq(JsonElems)

VARIABLES
    query,        \* the query being answered
    words,        \* its words that are not looked up yet
    elems,        \* what is not merged yet of the list of the last one
    tokens_map,   \* doc_id -> InvertedElemPrint of the words looked up
    json_string   \* the answer; <<>> is the JSON text "null"

searchvars == <<query, words, elems, tokens_map, json_string>>
allvars == <<input, line, forward_index, inverted_index, bpc,
             query, words, elems, tokens_map, json_string>>

SearcherInit ==
    /\ Init
    /\ query = NoQuery
    /\ words = <<>> /\ elems = <<>>
    /\ tokens_map = <<>>
    /\ json_string = NoAnswer

(* Mutant: no searches without an index. *)
BuiltOnly == bpc = "built"

(* InitSearcher returns whatever BuildIndex returned. *)
InitSearcher == BuildIndex /\ UNCHANGED searchvars
Initialised == bpc \in {"built", "failed"}

CutQuery(asked) ==
    /\ Initialised /\ query = NoQuery
    /\ query' = asked
    /\ words' = CutString(query', StopWords)
    /\ tokens_map' = <<>>
    /\ json_string' = NoAnswer
    /\ UNCHANGED <<vars, elems>>

(* Mutants: an item created anew each time, a word that is not recorded.   *)
NewItem(map, doc_id) == [weight |-> 0, words |-> <<>>]
NoWords(item, elem) == item.words

(* tokens_map[elem.doc_id], created on first use. *)
Item(map, doc_id) ==
    IF doc_id \in DOMAIN map THEN map[doc_id] ELSE [weight |-> 0, words |-> <<>>]

WordsWith(item, elem) == Append(item.words, elem.word)

AddElem(map, elem) ==
    LET item == Item(map, elem.doc_id) IN
      [doc_id \in DOMAIN map \cup {elem.doc_id} |->
         IF doc_id = elem.doc_id
         THEN [weight |-> item.weight + elem.weight,
               words  |-> WordsWith(item, elem)]
         ELSE map[doc_id]]

(* A word that is no key has the list <<>>: nothing is merged. *)
LookUpWord ==
    /\ query # NoQuery /\ elems = <<>> /\ words # <<>>
    /\ elems' = GetInvertedList(Lower(Head(words)))
    /\ words' = Tail(words)
    /\ UNCHANGED <<vars, query, tokens_map, json_string>>

MergeElem ==
    /\ elems # <<>>
    /\ tokens_map' = AddElem(tokens_map, Head(elems))
    /\ elems' = Tail(elems)
    /\ UNCHANGED <<vars, query, words, json_string>>

(* std::sort leaves documents of equal weight in any order. *)
Sorted(map) ==
    {order \in SetToSeqs(DOMAIN map) :
       \A i, j \in DOMAIN order : i < j => map[order[i]].weight >= map[order[j]].weight}

JsonElem(doc_id) ==
    LET doc == GetForwardIndex(doc_id)
        item == tokens_map[doc_id]
    IN [title |-> doc.title, desc |-> GetDesc(doc.content, item.words[1]),
        url |-> doc.url, weight |-> item.weight, id |-> doc_id]

BuildJson ==
    /\ query # NoQuery /\ elems = <<>> /\ words = <<>>
    /\ \E order \in Sorted(tokens_map) :
         LET found == Selected(order, {i \in DOMAIN order : InForwardIndex(order[i])}) IN
           json_string' = [i \in DOMAIN found |-> JsonElem(found[i])]
    /\ query' = NoQuery
    /\ UNCHANGED <<vars, words, elems, tokens_map>>

SearchOn == LookUpWord \/ MergeElem \/ BuildJson
Search == (\E asked \in Queries : CutQuery(asked)) \/ SearchOn

SearcherNext == InitSearcher \/ Search

(* The caller of Search runs it to its end; that a query comes is not      *)
(* required.                                                               *)
SearcherSpec ==
    /\ SearcherInit /\ [][SearcherNext]_allvars
    /\ WF_allvars(InitSearcher)
    /\ WF_allvars(SearchOn)

-----------------------------------------------------------------------------
(* Types, and: the keys of tokens_map are documents, each with a word that *)
(* was looked up.  JsonElem reads item.words[0] without looking, and the   *)
(* nullptr that GetForwardIndex can return never comes.                    *)
MergedDocsExist ==
    /\ query \in Queries \cup {NoQuery}
    /\ words \in Seq(Text)
    /\ \A doc_id \in DOMAIN tokens_map :
         /\ InForwardIndex(doc_id)
         /\ tokens_map[doc_id].words # <<>>
         /\ tokens_map[doc_id].weight >= Len(tokens_map[doc_id].words)

(* Index and Searcher together answer as a scan of the documents would. *)
Scan == INSTANCE SearchSpec WITH answer <- json_string
ImplementsScan == Scan!Spec
=============================================================================
