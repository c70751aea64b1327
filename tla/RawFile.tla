------------------------------ MODULE RawFile ------------------------------
(***************************************************************************)
(* The format of data/raw_html/raw.txt, the only thing the parser and the  *)
(* server share: how SaveHtml writes a document (src/parser.cc:190-200)    *)
(* and how BuildIndex takes the file apart with std::getline and           *)
(* StringTool::Split (src/index.hpp:89-113, src/util.hpp:37-40).           *)
(***************************************************************************)
EXTENDS Positions, FiniteSetsExt, SequencesExt

CONSTANTS Sep, Nl   \* the bytes '\3' and '\n'

ASSUME MarkAssumption == Sep # Nl

(* Mutants of the definitions below: a record with its fields in another   *)
(* order or without its end, separators that are not compressed.           *)
RecordSwapped(doc) == doc.content \o <<Sep>> \o doc.title \o <<Sep>> \o doc.url \o <<Nl>>
RecordOpen(doc) == doc.title \o <<Sep>> \o doc.content \o <<Sep>> \o doc.url
EachMark(marks) == marks

Record(doc) == doc.title \o <<Sep>> \o doc.content \o <<Sep>> \o doc.url \o <<Nl>>

Save(docs) == FlattenSeq([i \in DOMAIN docs |-> Record(docs[i])])

(* The pieces of `bytes' that begin at `starts', each up to the next mark. *)
Piece(bytes, start, mark) ==
    LET marks == {i \in start .. Len(bytes) : bytes[i] = mark}
    IN SubSeq(bytes, start, Min(marks \cup {Len(bytes) + 1}) - 1)

Pieces(bytes, starts, mark) ==
    [n \in 1 .. Cardinality(starts) |-> Piece(bytes, Nth(starts, n), mark)]

Marks(bytes, mark) == {i \in DOMAIN bytes : bytes[i] = mark}

(* What the getline loop yields: what follows the last '\n' is a line too, *)
(* unless it is empty.                                                     *)
NoLine(file) == {Len(file) + 1}

Lines(file) ==
    Pieces(file, ({1} \cup {i + 1 : i \in Marks(file, Nl)}) \ NoLine(file), Nl)

(* boost::split with token_compress_on: a run of separators ends one field *)
(* and begins the next; before a leading run and after a trailing one      *)
(* there is an empty field.                                                *)
RunEnds(marks) == {i \in marks : i + 1 \notin marks}

Split(line) ==
    Pieces(line, {1} \cup {i + 1 : i \in RunEnds(Marks(line, Sep))}, Sep)

-----------------------------------------------------------------------------
(* A line taken apart at every single separator, and the fields of it that *)
(* are not empty ones inside: what Split is compared with.                 *)
AllFields(line) ==
    Pieces(line, {1} \cup {i + 1 : i \in Marks(line, Sep)}, Sep)

Outer(fields) == {i \in DOMAIN fields : i \in {1, Len(fields)} \/ fields[i] # <<>>}
=============================================================================
