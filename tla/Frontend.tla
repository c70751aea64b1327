------------------------------ MODULE Frontend ------------------------------
(***************************************************************************)
(* The script of src/wwwroot/index.html: Search() sends what is in the     *)
(* input box, BuildHtml() replaces the list of results by the reply.  A    *)
(* user may search again before the reply has come; replies come in any    *)
(* order, or not at all, and then nobody is told.                          *)
(*                                                                         *)
(* A function of the script runs to its end before the next one starts, so *)
(* each is one step.  jQuery, the browser and cpp-httplib are external:    *)
(* Heard is what becomes of a word that is put into a URL as it is.        *)
(***************************************************************************)
EXTENDS Integers, Sequences, FiniteSets

CONSTANTS
    Char, Item,   \* characters, elements of the server's array
    Words,        \* what may stand in the input box
    Default,      \* the value it has in the page
    Hash, Amp, Plus, Blank,   \* the characters '#', '&', '+', ' '
    Answer(_),    \* the server's JSON array for a word, <<>> if it is "null"
    MaxSearches   \* bound: requests sent

(* A '#' ends what the browser sends and an '&' the value of the parameter *)
(* word; a '+' is decoded to a blank.                                      *)
Heard(word) ==
    LET cut == {i \in DOMAIN word : word[i] \in {Hash, Amp}}
        kept == {i \in DOMAIN word : \A c \in cut : i < c}
    IN [i \in kept |-> IF word[i] = Plus THEN Blank ELSE word[i]]

ASSUME WordAssumption ==
    /\ Words \subseteq Seq(Char) /\ Default \in Words
    /\ \A word \in Words : Answer(Heard(word)) \in Seq(Item)

VARIABLES
    box,        \* the input box
    page,       \* "app", or "written" once document.write has replaced it
    sent,       \* the words searched, in order; a request is its position
    inflight,   \* requests without a reply
    replies,    \* requests whose reply BuildHtml was given, in that order
    pending,    \* for each request those in flight when it was sent
    result      \* what stands in .container .result

frontvars == <<box, page, sent, inflight, replies, pending, result>>

FrontInit ==
    /\ box = Default
    /\ page = "app"
    /\ sent = <<>> /\ inflight = {} /\ replies = <<>> /\ pending = <<>>
    /\ result = <<>>

(* Mutants: results added to the old ones, an error handler that empties   *)
(* the list whichever request has failed, a single result taken for none.  *)
KeepOld(list) == list
ClearOnError(list) == <<>>
FewHits(data) == Len(data) < 2

Type ==
    /\ page = "app"
    /\ box' \in Words \ {box}
    /\ UNCHANGED <<page, sent, inflight, replies, pending, result>>

(* document.write after the page was loaded replaces it, box, button and   *)
(* all: there is no way to search again but to load it anew.               *)
Write == page' = "written"

SearchNothing ==
    /\ page = "app" /\ box = <<>>
    /\ Write
    /\ UNCHANGED <<box, sent, inflight, replies, pending, result>>

Search ==
    /\ page = "app" /\ box # <<>>
    /\ Len(sent) < MaxSearches
    /\ sent' = Append(sent, box)
    /\ inflight' = inflight \cup {Len(sent) + 1}
    /\ pending' = Append(pending, inflight)
    /\ UNCHANGED <<box, page, replies, result>>

Emptied(list) == <<>>

NoHits(data) == data = <<>>

BuildHtml(data) ==
    IF NoHits(data)
    THEN Write /\ UNCHANGED result
    ELSE /\ result' = IF page = "app" THEN Emptied(result) \o data ELSE result
         /\ UNCHANGED page

Success(n) ==
    /\ n \in inflight
    /\ inflight' = inflight \ {n}
    /\ replies' = Append(replies, n)
    /\ BuildHtml(Answer(Heard(sent[n])))
    /\ UNCHANGED <<box, sent, pending>>

(* $.ajax was given no error handler: nothing in the page changes. *)
NoHandler(list) == list

Failure(n) ==
    /\ n \in inflight
    /\ inflight' = inflight \ {n}
    /\ result' = NoHandler(result)
    /\ UNCHANGED <<box, page, sent, replies, pending>>

FrontNext ==
    \/ Type \/ SearchNothing \/ Search
    \/ \E n \in DOMAIN sent : Success(n) \/ Failure(n)

FrontSpec == FrontInit /\ [][FrontNext]_frontvars

-----------------------------------------------------------------------------
AnswerTo(n) == Answer(Heard(sent[n]))

Newest == Len(sent)
Replied == {replies[i] : i \in DOMAIN replies}
Failed(n) == n \in DOMAIN sent \ (inflight \cup Replied)

(* An older request, still in flight when n was sent, was replied to after *)
(* n had been.                                                             *)
Overtaken(n) ==
    \E i, j \in DOMAIN replies :
       i < j /\ replies[i] = n /\ replies[j] \in pending[n]

(* The list on the page is the whole answer whose reply came last, to      *)
(* whichever search that was (index.html:131-146): never a mixture of two  *)
(* answers, and neither a search nor a failure changes it.                 *)
ShownIsLastReply ==
    page = "app" =>
       result = IF replies = <<>> THEN <<>> ELSE AnswerTo(replies[Len(replies)])

(* A list that does not answer the newest search is there for one of three *)
(* reasons: that search has no reply yet, or it has failed and nobody was  *)
(* told (index.html:128), or a search that was still unanswered when it    *)
(* was made has come in after it.  What else has overlapped or failed, in  *)
(* whatever order, leaves no stale list behind.                            *)
StaleHasReason ==
    page = "app" /\ sent # <<>> /\ result # AnswerTo(Newest) =>
       Newest \in inflight \/ Failed(Newest) \/ Overtaken(Newest)

(* The page is lost only to a search for nothing or to one that the server *)
(* finds nothing for; while it is there no such reply has come.            *)
PageLostForNothing ==
    /\ page = "app" => \A n \in Replied : AnswerTo(n) # <<>>
    /\ page = "written" => box = <<>> \/ \E n \in Replied : AnswerTo(n) = <<>>
=============================================================================
