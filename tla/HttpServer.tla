----------------------------- MODULE HttpServer -----------------------------
(***************************************************************************)
(* src/http_server.cc: main builds the index, then listens; httplib queues *)
(* the requests and runs the handler of "/s" on the threads of its pool.   *)
(* Composes Index, which the main thread runs, with JiebaUtil, which the   *)
(* main thread and the pool call.                                          *)
(*                                                                         *)
(* The answer to a query is abstracted to the set of doc_ids in it (what   *)
(* else the JSON says, and that it is right, is in Searcher).  httplib is  *)
(* external: a queue, a fixed pool, one request per connection.            *)
(***************************************************************************)
EXTENDS Index

CONSTANTS
    Main, Worker,                 \* the main thread and the pool of httplib
    NoThread,
    Client, NoClient,             \* who sends requests, one at a time
    Queries, NoParam, NoRequest,  \* "/s?word=query", "/s", nothing outstanding
    Hint, NoResponse              \* the text that asks for a word; no reply yet

ASSUME ServerAssumption ==
    /\ Main \notin Worker /\ NoThread \notin Worker \cup {Main}
    /\ NoClient \notin Client
    /\ Queries \subseteq Text /\ {NoParam, NoRequest} \cap Text = {}
    /\ NoParam # NoRequest
    /\ NoResponse # Hint /\ NoResponse \notin [docs : SUBSET Nat]

VARIABLES
    instance, mtx, stop_words, jpc, seen, crashed,   \* of JiebaUtil
    listening,   \* server.listen has been called
    queue,       \* connections that no thread of the pool has taken
    serving,     \* the client each thread of the pool works for
    request,     \* what each client has asked
    response     \* what it has been answered

Thread == Worker \cup {Main}

Jieba == INSTANCE JiebaUtil

jiebavars == <<instance, mtx, stop_words, jpc, seen, crashed>>
poolvars == <<listening, queue, serving, request, response>>
servervars == <<vars, jiebavars, poolvars>>

ServerInit ==
    /\ Init
    /\ Jieba!JiebaInit
    /\ listening = FALSE
    /\ queue = <<>>
    /\ serving = [w \in Worker |-> NoClient]
    /\ request = [c \in Client |-> NoRequest]
    /\ response = [c \in Client |-> NoResponse]

Alive == ~crashed /\ bpc # "crashed"

(* search.InitSearcher(input) on the main thread.  The two calls of        *)
(* CutString for a document are one here: no other thread runs yet, and    *)
(* the second finds what the first left.                                   *)
InitSearcher ==
    /\ Alive /\ ~listening
    /\ \/ bpc # "invert" /\ BuildIndex /\ UNCHANGED jiebavars
       \/ bpc = "invert" /\ Jieba!Call(Main) /\ UNCHANGED vars
       \/ Jieba!GetInstance(Main) /\ UNCHANGED vars
       \/ Jieba!CutStringHelper(Main) /\ InvertBut(seen'[Main])
    /\ UNCHANGED poolvars

(* Mutants: listening while the index is built, or only if it was built, a *)
(* handler that sets no content, or that does not return when it has set   *)
(* it (line 20).                                                           *)
Building == bpc # "open"
BuiltOnly == bpc = "built"
NoContent(w, reply) == response
NoReturn(w, reply) ==
    /\ response' = [response EXCEPT ![serving[w]] = reply]
    /\ UNCHANGED <<vars, listening, queue, serving, request>>

(* InitSearcher has returned, and what BuildIndex returned is lost. *)
Initialised == bpc \in {"built", "failed"}

Listen ==
    /\ Alive /\ ~listening
    /\ Initialised
    /\ listening' = TRUE
    /\ UNCHANGED <<vars, jiebavars, queue, serving, request, response>>

Send(c) ==
    /\ Alive /\ listening
    /\ request[c] = NoRequest
    /\ \E q \in Queries \cup {NoParam} : request' = [request EXCEPT ![c] = q]
    /\ queue' = Append(queue, c)
    /\ UNCHANGED <<vars, jiebavars, listening, serving, response>>

Receive(c) ==
    /\ Alive
    /\ response[c] # NoResponse
    /\ request' = [request EXCEPT ![c] = NoRequest]
    /\ response' = [response EXCEPT ![c] = NoResponse]
    /\ UNCHANGED <<vars, jiebavars, listening, queue, serving>>

Take(w) ==
    /\ Alive
    /\ serving[w] = NoClient /\ queue # <<>>
    /\ serving' = [serving EXCEPT ![w] = Head(queue)]
    /\ queue' = Tail(queue)
    /\ UNCHANGED <<vars, jiebavars, listening, request, response>>

SetContent(w, reply) == [response EXCEPT ![serving[w]] = reply]

Respond(w, reply) ==
    /\ response' = SetContent(w, reply)
    /\ serving' = [serving EXCEPT ![w] = NoClient]
    /\ UNCHANGED <<vars, listening, queue, request>>

AskForWord(w) ==
    /\ Alive /\ serving[w] # NoClient
    /\ request[serving[w]] = NoParam
    /\ Respond(w, Hint)
    /\ UNCHANGED jiebavars

(* search.Search begins by cutting the query; the call of CutString goes   *)
(* through GetInstance, where this thread meets the others.                *)
BeginSearch(w) ==
    /\ Alive /\ serving[w] # NoClient
    /\ request[serving[w]] # NoParam
    /\ Jieba!Call(w)
    /\ UNCHANGED <<vars, poolvars>>

GetJieba(w) ==
    /\ Alive
    /\ Jieba!GetInstance(w)
    /\ UNCHANGED <<vars, poolvars>>

DocsWith(word) ==
    {GetInvertedList(word)[i].doc_id : i \in DOMAIN GetInvertedList(word)}

(* The JSON array that names the documents. *)
Json(ids) == [docs |-> ids]

Found(query, stops) == UNION {DocsWith(word) : word \in WordSet(query, stops)}

SearchAndRespond(w) ==
    /\ Alive
    /\ Jieba!CutStringHelper(w)
    /\ Respond(w, Json(Found(request[serving[w]], seen'[w])))

Die(w) ==
    /\ Alive
    /\ Jieba!RacyFind(w)
    /\ UNCHANGED <<vars, poolvars>>

Handle(w) ==
    AskForWord(w) \/ BeginSearch(w) \/ GetJieba(w) \/ SearchAndRespond(w)

ServerNext ==
    \/ InitSearcher \/ Listen
    \/ \E c \in Client : Send(c) \/ Receive(c)
    \/ \E w \in Worker : Take(w) \/ Handle(w) \/ Die(w)

(* Every thread is scheduled by the operating system; that a client sends  *)
(* or reads a reply is not required.                                       *)
ServerSpec ==
    /\ ServerInit /\ [][ServerNext]_servervars
    /\ WF_servervars(InitSearcher \/ Listen)
    /\ \A w \in Worker : WF_servervars(Take(w) \/ Handle(w))

-----------------------------------------------------------------------------
(* Types; and a client waits in the queue or at one thread of the pool,    *)
(* exactly while its request is unanswered: a handler that has set its     *)
(* content is done with the request (http_server.cc:17-27).                *)
EachRequestHasOnePlace ==
    /\ listening \in BOOLEAN
    /\ queue \in Seq(Client)
    /\ \A c \in Client :
         Cardinality({i \in DOMAIN queue : queue[i] = c})
           + Cardinality({w \in Worker : serving[w] = c})
         = IF request[c] # NoRequest /\ response[c] = NoResponse THEN 1 ELSE 0

(* An answer names every document of raw.txt that has a word of the query, *)
(* and no other: no request is answered from part of the index, or with    *)
(* stop words that the documents were not cut with.                        *)
Words(text) == WordSet(text, StopWords)

Wanted(query) ==
    {d - 1 : d \in {d \in DOMAIN input :
       \E word \in Words(query) : word \in Words(input[d][1]) \cup Words(input[d][2])}}

AnswersAreComplete ==
    \A c \in Client : response[c] \notin {NoResponse, Hint} =>
        response[c] = Json(IF input = NoFile THEN {} ELSE Wanted(request[c]))

(* A server with one document has made the first call of GetInstance       *)
(* before it listens, so the race of JiebaUtil cannot happen in it.        *)
WarmServer ==
    forward_index # <<>> =>
       /\ ~crashed
       /\ listening => instance # 0 /\ mtx = NoThread /\ stop_words[instance] = StopWords

(* A request is answered, unless the process died. *)
RequestsAnswered ==
    \A c \in Client : (request[c] # NoRequest /\ response[c] = NoResponse)
                          ~> (response[c] # NoResponse \/ ~Alive)

(* The server starts to listen, unless it reads past the fields of a line. *)
ServerListens == <>(listening \/ ~Alive)

(* README.md:1448,1452: the stop words are removed from what is cut. *)
CutsSeeAllStopWords == Jieba!CutsSeeAllStopWords
=============================================================================
