------------------------------ MODULE Pipeline ------------------------------
(***************************************************************************)
(* The parser and the server's index, joined by raw.txt as README.md:1379  *)
(* has it: first ./parser, and when that has ended, however it ended,      *)
(* ./http_server, which reads what the parser left.  The two are processes *)
(* of their own and know nothing of each other's exit code.                *)
(***************************************************************************)
EXTENDS Index, Parser

pipelinevars == <<vars, parservars>>

(* raw.txt as BuildIndex sees it. *)
ReadBack(file) ==
    IF file = NoRaw THEN NoFile
    ELSE [i \in DOMAIN Lines(file) |-> Split(Lines(file)[i])]

PipelineInit ==
    /\ ParserInit
    /\ input = NoFile
    /\ line = 0
    /\ forward_index = <<>>
    /\ inverted_index = [word \in Text |-> <<>>]
    /\ bpc = "off"

RunParser == bpc = "off" /\ ParserNext /\ UNCHANGED vars

StartServer ==
    /\ bpc = "off" /\ ppc \in {"exited", "dead"}
    /\ input' = ReadBack(raw)
    /\ bpc' = "open"
    /\ UNCHANGED <<parservars, line, forward_index, inverted_index>>

InitSearcher == BuildIndex /\ UNCHANGED parservars

PipelineNext == RunParser \/ StartServer \/ InitSearcher

PipelineSpec ==
    /\ PipelineInit /\ [][PipelineNext]_pipelinevars
    /\ WF_pipelinevars(bpc = "off" /\ Step /\ UNCHANGED vars)

-----------------------------------------------------------------------------
Served(d) ==
    [title |-> forward_index[d].title, content |-> forward_index[d].content,
     url |-> forward_index[d].url]

(* The parser's last run ended in order and wrote all it had to write. *)
CleanRun == ppc = "exited" /\ code = 0 /\ ~bad

(* A document that survives raw.txt: one with a text in it. *)
HasText(doc) == doc.content # <<>>
AllHaveText == \A doc \in Documents : HasText(doc)

(* A line of raw.txt splits into the fields that it splits into at every   *)
(* single separator, but for the empty ones inside: a document loses its   *)
(* content as a field if that is empty (util.hpp:39), never its title.     *)
SplitCompresses ==
    bpc = "open" /\ input # NoFile =>
      \A n \in DOMAIN input :
        LET all == AllFields(Lines(raw)[n]) IN input[n] = Selected(all, Outer(all))

(* Line d is not the last, and its document has a text.                    *)
Whole(d) == d < Len(input) /\ Len(input[d]) >= 3

(* Whatever became of the parser, each document the server holds is one    *)
(* the parser found, whole and held once, but for the last: the bytes a    *)
(* killed or failing parser left behind spoil no earlier document.  Pages  *)
(* without a text are left out, see RecordsHaveThreeFields.                *)
EarlierDocsWhole ==
    \A d \in DOMAIN forward_index : Whole(d) =>
        /\ Served(d) \in Documents
        /\ \A e \in 1 .. d - 1 : Whole(e) => Served(d) # Served(e)

(* After a clean run over pages that all have a text the server holds      *)
(* exactly their documents, and building the index reads past no record.   *)
CleanRunServesAll ==
    CleanRun /\ AllHaveText =>
      /\ bpc # "crashed"
      /\ bpc = "built" =>
           /\ {Served(d) : d \in DOMAIN forward_index} = Documents
           /\ Len(forward_index) = Cardinality(Documents)

(* index.hpp:111,115: the line of a document splits into three strings. *)
RecordsHaveThreeFields ==
    CleanRun /\ bpc = "getline" /\ line < Len(input) => Len(input[line + 1]) = 3
=============================================================================
