-------------------------------- MODULE Html --------------------------------
(***************************************************************************)
(* One html file in ParseHtml (src/parser.cc:95-121): the getline loop of  *)
(* ReadFile, the two calls of find in ParseTitle, and the two-state        *)
(* scanner of ParseContent, one character per step.                        *)
(***************************************************************************)
EXTENDS Pages

CONSTANT Files   \* the contents of an html file considered

ASSUME FileAssumption == Files \subseteq Seq(UNION {Range(file) : file \in Files})

VARIABLES
    file,      \* the bytes on disk, fixed
    read,      \* lines that getline has returned
    result,    \* what ReadFile has joined so far
    title, content,   \* of the DocInfo_t
    pos,       \* characters ParseContent has looked at
    s,         \* its status
    hpc        \* where ParseHtml is

htmlvars == <<file, read, result, title, content, pos, s, hpc>>

HtmlInit ==
    /\ file \in Files
    /\ read = 0 /\ result = <<>>
    /\ title = <<>> /\ content = <<>>
    /\ pos = 0 /\ s = "LABLE"
    /\ hpc = "read"

(* Mutants: lines that keep their end, a bracket that is pushed, one that  *)
(* does not end the text.                                                  *)
LineWithEnd(n) == Append(Lines(file)[n], Nl)
PushedLt(c) == <<c>>
StillContent(c) == "CONTENT"

LineRead(n) == Lines(file)[n]

GetLine ==
    /\ hpc = "read" /\ read < Len(Lines(file))
    /\ read' = read + 1
    /\ result' = result \o LineRead(read + 1)
    /\ UNCHANGED <<file, title, content, pos, s, hpc>>

EndOfFile ==
    /\ hpc = "read" /\ read = Len(Lines(file))
    /\ hpc' = "title"
    /\ UNCHANGED <<file, read, result, title, content, pos, s>>

ParseTitle ==
    /\ hpc = "title"
    /\ IF HasTitle(result)
       THEN title' = Title(result) /\ hpc' = "content"
       ELSE hpc' = "skipped" /\ UNCHANGED title
    /\ UNCHANGED <<file, read, result, content, pos, s>>

InLable(c) == IF c = Gt THEN "CONTENT" ELSE "LABLE"
InContent(c) == IF c = Lt THEN "LABLE" ELSE "CONTENT"
Pushed(c) == IF c = Lt THEN <<>> ELSE <<IF c = Nl THEN Blank ELSE c>>

ParseContent ==
    /\ hpc = "content" /\ pos < Len(result)
    /\ LET c == result[pos + 1] IN
         IF s = "LABLE"
         THEN s' = InLable(c) /\ UNCHANGED content
         ELSE s' = InContent(c) /\ content' = content \o Pushed(c)
    /\ pos' = pos + 1
    /\ UNCHANGED <<file, read, result, title, hpc>>

(* results->push_back of the document. *)
PushBack ==
    /\ hpc = "content" /\ pos = Len(result)
    /\ hpc' = "parsed"
    /\ UNCHANGED <<file, read, result, title, content, pos, s>>

HtmlNext == GetLine \/ EndOfFile \/ ParseTitle \/ ParseContent \/ PushBack

HtmlSpec == HtmlInit /\ [][HtmlNext]_htmlvars

-----------------------------------------------------------------------------
(* ReadFile loses the line ends of a file and nothing else, whether or not *)
(* the last line has one: words at the end of a line and the beginning of  *)
(* the next run together (util.hpp:25), and the branch of ParseContent     *)
(* that turns '\n' into a blank (parser.cc:160) never sees one.            *)
OnlyLineEndsLost ==
    /\ hpc # "read" => result = ReadFile(file)
    /\ Nl \notin Range(title) \cup Range(content)

(* The scanner is in CONTENT exactly if a '>' was read and no '<' since:   *)
(* the brackets need not pair, and a '>' more or less does no lasting harm *)
(* (parser.cc:151-166).                                                    *)
StatusIsLastBracket == (s = "CONTENT") <=> AfterGt(result, pos)

(* The content so far is the text between brackets, in order, with nothing *)
(* of a tag in it and nothing left out.                                    *)
ContentIsBody == content = Content(SubSeq(result, 1, pos))

(* A title without a tag in it is part of the content too, for the title   *)
(* element stands between brackets like any other: a word of the title     *)
(* counts again as a word of the content (index.hpp:140-157).              *)
TitleInContent ==
    hpc = "parsed" /\ Lt \notin Range(title) =>
       \E i \in 0 .. Len(content) - Len(title) : SubSeq(content, i + 1, i + Len(title)) = title
=============================================================================
