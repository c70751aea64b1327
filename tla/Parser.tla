------------------------------- MODULE Parser -------------------------------
(***************************************************************************)
(* src/parser.cc: main enumerates the html files under data/input, parses  *)
(* each into a document and saves the documents to data/raw_html/raw.txt.  *)
(*                                                                         *)
(* A file is a record: its path, whether it is a regular one, whether its  *)
(* name ends in .html, whether it opens, and its bytes.  What is in them   *)
(* is taken from Pages; how it is found there is in Html.                  *)
(* The std::ofstream of SaveHtml is modelled by what the C++ library does: *)
(* a buffer, writes to the file that may come at any time and may fail,    *)
(* and a state that turns bad and then ignores every write.                *)
(***************************************************************************)
EXTENDS Pages

CONSTANTS
    Byte,
    Trees,              \* what may be under data/input: NoRoot or a set of files
    NoRoot,             \* there is no data/input
    NoRaw,              \* raw.txt does not exist
    RootPath, UrlHead,  \* src_path and url_head
    MaxRuns             \* bound: how often the parser is started

(* Every file has a path of its own, and it begins with the path of the    *)
(* directory that is searched.                                             *)
ASSUME TreeAssumption ==
    /\ {Sep, Nl} \subseteq Byte /\ NoRaw \notin Seq(Byte)
    /\ RootPath \in Seq(Byte) /\ UrlHead \in Seq(Byte)
    /\ \A files \in Trees \ {NoRoot} :
         /\ IsFiniteSet(files)
         /\ \A f \in files :
              f.bytes \in Seq(Byte) /\ f.path \in Seq(Byte) /\ IsPrefix(RootPath, f.path)
         /\ \A f, g \in files : f.path = g.path => f = g
    /\ MaxRuns \in Nat \ {0}

VARIABLES
    tree,        \* the files under data/input, fixed
    files_list,  \* paths that EnumFile found and ParseHtml has not read
    results,     \* documents parsed
    saved,       \* documents handed to the stream
    buffer,      \* bytes in the stream that are not in the file
    bad,         \* badbit: a write to the file failed
    raw,         \* raw.txt
    ppc,         \* where main is; "dead" if the process was killed
    code,        \* the exit code
    runs         \* how often main was started

parservars == <<tree, files_list, results, saved, buffer, bad, raw, ppc, code, runs>>
stream == <<saved, buffer, bad>>

ParserInit ==
    /\ tree \in Trees
    /\ files_list = <<>> /\ results = <<>>
    /\ saved = 0 /\ buffer = <<>> /\ bad = FALSE
    /\ raw = NoRaw
    /\ ppc = "enum" /\ code = 0 /\ runs = 1

Exit(status) == ppc' = "exited" /\ code' = status

(* Mutants: title tags in any order, raw.txt opened for appending, a       *)
(* stream that is not flushed when it is closed.                           *)
AnyOrder(file) ==
    /\ file.readable
    /\ \A tag \in {OpenTag, CloseTag} : Finds(ReadFile(file.bytes), tag) # {}
OldContent == IF raw = NoRaw THEN <<>> ELSE raw
Unflushed == TRUE

(* The iterator yields the entries in no particular order. *)
EnumFile ==
    /\ ppc = "enum"
    /\ IF tree = NoRoot
       THEN Exit(1) /\ UNCHANGED files_list
       ELSE /\ files_list' \in SetToSeqs({f \in tree : f.regular /\ f.html})
            /\ ppc' = "parse" /\ UNCHANGED code
    /\ UNCHANGED <<tree, results, stream, raw, runs>>

ParseUrl(path) == UrlHead \o SubSeq(path, Len(RootPath) + 1, Len(path))

Parse(file) ==
    LET text == ReadFile(file.bytes)
    IN [title |-> Title(text), content |-> Content(text), url |-> ParseUrl(file.path)]

IsPage(file) == file.readable /\ HasTitle(ReadFile(file.bytes))

(* Mutant: a continue that does not go on to the next file. *)
SkippedStays == IF IsPage(Head(files_list)) THEN Tail(files_list) ELSE files_list

Remaining == Tail(files_list)

(* One round of the loop in ParseHtml; a file that does not open or has no *)
(* title is skipped without a trace.                                       *)
ParseHtml ==
    /\ ppc = "parse" /\ files_list # <<>>
    /\ LET file == Head(files_list) IN
         results' = IF IsPage(file)
                    THEN Append(results, Parse(file)) ELSE results
    /\ files_list' = Remaining
    /\ UNCHANGED <<tree, stream, raw, ppc, code, runs>>

(* ofstream(output, out) truncates an earlier raw.txt at once. *)
Truncated == <<>>

OpenOutput ==
    /\ ppc = "parse" /\ files_list = <<>>
    /\ \/ raw' = Truncated /\ ppc' = "write" /\ UNCHANGED code
       \/ Exit(3) /\ UNCHANGED raw
    /\ UNCHANGED <<tree, files_list, results, stream, runs>>

WriteRecord ==
    /\ ppc = "write" /\ saved < Len(results)
    /\ saved' = saved + 1
    /\ buffer' = IF bad THEN <<>> ELSE buffer \o Record(results[saved + 1])
    /\ UNCHANGED <<tree, files_list, results, bad, raw, ppc, code, runs>>

(* The stream writes some of its buffer to the file. *)
Flush ==
    /\ ppc = "write"
    /\ \E n \in DOMAIN buffer :
         /\ raw' = raw \o SubSeq(buffer, 1, n)
         /\ buffer' = SubSeq(buffer, n + 1, Len(buffer))
    /\ UNCHANGED <<tree, files_list, results, saved, bad, ppc, code, runs>>

(* The disk is full, and stays full for the rest of the run: less than the *)
(* buffer reaches the file.                                                *)
FlushFails ==
    /\ ppc = "write" /\ buffer # <<>>
    /\ \E n \in 0 .. Len(buffer) - 1 : raw' = raw \o SubSeq(buffer, 1, n)
    /\ buffer' = <<>>
    /\ bad' = TRUE
    /\ UNCHANGED <<tree, files_list, results, saved, ppc, code, runs>>

Flushed == buffer = <<>>

(* close() has flushed; neither it nor write() is asked whether it worked. *)
CloseOutput ==
    /\ ppc = "write" /\ saved = Len(results) /\ Flushed
    /\ Exit(0)
    /\ UNCHANGED <<tree, files_list, results, stream, raw, runs>>

Step == EnumFile \/ ParseHtml \/ OpenOutput \/ WriteRecord \/ Flush \/ CloseOutput

(* The process is killed, and what the stream has buffered is lost. *)
Crash ==
    /\ ppc \in {"enum", "parse", "write"}
    /\ ppc' = "dead"
    /\ buffer' = <<>>
    /\ UNCHANGED <<tree, files_list, results, saved, bad, raw, code, runs>>

Restart ==
    /\ ppc \in {"exited", "dead"} /\ runs < MaxRuns
    /\ files_list' = <<>> /\ results' = <<>>
    /\ saved' = 0 /\ buffer' = <<>> /\ bad' = FALSE
    /\ ppc' = "enum" /\ code' = 0 /\ runs' = runs + 1
    /\ UNCHANGED <<tree, raw>>

ParserNext == Step \/ FlushFails \/ Crash \/ Restart

ParserSpec == ParserInit /\ [][ParserNext]_parservars /\ WF_parservars(Step)

-----------------------------------------------------------------------------
(* The documents that the parser is to find, stated file by file. *)
Documents ==
    IF tree = NoRoot THEN {}
    ELSE {Parse(file) : file \in {f \in tree :
            f.regular /\ f.html /\ f.readable /\ HasTitle(ReadFile(f.bytes))}}

(* README.md:116: pages hold printing characters, so the separator, which  *)
(* is none, does not spoil raw.txt.  Nor does the name of a file, or the   *)
(* url head, hold it or a line end.                                        *)
PlainPages ==
    /\ {Sep, Nl} \cap Range(UrlHead) = {}
    /\ \A files \in Trees \ {NoRoot} : \A f \in files :
         Sep \notin Range(f.bytes) /\ {Sep, Nl} \cap Range(f.path) = {}

(* Types of the variables of Parser. *)
ParserTypeOK ==
    /\ \A i \in DOMAIN files_list : files_list[i] \in tree
    /\ \A i \in DOMAIN results : results[i] \in Documents
    /\ saved \in 0 .. Len(results)
    /\ bad \in BOOLEAN
    /\ ppc \in {"enum", "parse", "write", "exited", "dead"}
    /\ code \in {0, 1, 3}
    /\ runs \in 1 .. MaxRuns

(* raw.txt is at every moment, whatever run was killed or ran out of disk, *)
(* the beginning of a file that holds each document once: a server started *)
(* from it meets at most one document that is cut short.                   *)
RawIsPrefix ==
    raw # NoRaw =>
      \E order \in SetToSeqs(Documents) : IsPrefix(raw, Save(order))

(* Exit code 0 without a failed write means that every document is in      *)
(* raw.txt.  raw.txt stays so until the next run opens it.                 *)
ExitZeroSaved ==
    ppc = "exited" /\ code = 0 /\ ~bad =>
      raw \in {Save(order) : order \in SetToSeqs(Documents)}

(* A run of the parser ends. *)
ParserEnds == ppc \in {"enum", "parse", "write"} ~> ppc \in {"exited", "dead"}

(* parser.cc:46: what was parsed is written to the output; the exit code   *)
(* tells whether that worked.                                              *)
ExitZeroMeansSaved ==
    ppc = "exited" /\ code = 0 =>
      raw \in {Save(order) : order \in SetToSeqs(Documents)}
=============================================================================
