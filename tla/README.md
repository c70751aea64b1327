# Boost search engine: TLA+ models, model checking and proofs

The repository is a small search engine for the Boost documentation. A program
of its own, the *parser*, turns the pages under `data/input` into one file,
`data/raw_html/raw.txt`; the *server* builds a forward and an inverted index
from that file in memory and answers `/s?word=...` with a JSON array, which a
script in the web page shows; a *debug console* searches from a terminal. This
directory models all of them, checks the models with TLC, and proves the
invariants that matter most for every value of their constants.

## The system

| Part | State | Operations | Talks to |
|---|---|---|---|
| Parser (`parser.cc`) | list of files, parsed documents, the output stream | `EnumFile`, `ParseHtml` (`ReadFile`, `ParseTitle`, `ParseContent`, `ParseUrl`), `SaveHtml` | the file system; writes `raw.txt` |
| Format of raw.txt (`parser.cc`, `util.hpp`, `index.hpp`) | a file: title `\3` content `\3` url `\n` | `out.write`; `getline`, `StringTool::Split` | the only link between the two programs; neither knows the other's exit code |
| Index (`index.hpp`) | `forward_index`, `inverted_index` | `BuildIndex`, `GetForwardIndex`, `GetInvertedList` | reads raw.txt; calls `JiebaUtil::CutString`; called by Searcher |
| JiebaUtil (`util.hpp`) | the singleton pointer, a function-static mutex, the map of stop words | `GetInstance` (double-checked locking), `InitJiebaUtil`, `CutString` | called by the main thread (Index) and by every thread of the pool (Searcher) |
| Searcher (`searcher.hpp`) | locals of `Search`: words, `tokens_map`, the JSON | `InitSearcher`, `Search`, `GetDesc` | reads Index |
| HTTP server (`http_server.cc`) | httplib's queue and pool, requests, replies | `main`, the handler of `/s` | runs `Search` in several threads over one Index |
| Web page (`wwwroot/index.html`) | the input, the result list, requests in flight | `Search()`, `BuildHtml()` | AJAX to the server |
| Debug console (`debug.cc`) | a line buffer | the `fgets` loop | Searcher |
| Log (`log.hpp`) | none (one output stream) | `log` | everybody |

What is hard here: the lazily made singleton that several threads meet
(`util.hpp:63-74`), publication before initialisation (line 69 before 70), the
order of building the index and listening (`http_server.cc:12,29`), an index
filled incrementally while the forward index runs one document ahead, a merge of
lists that has to agree with what a scan of the documents would find, a file
written in place by a program that may be killed or run out of disk, a format
in which an empty field next to a separator disappears, a scanner with one bit
of state over brackets that need not pair, replies that come in any order, a
line buffer that keeps what it held at the end of the input, and log records
that are written piece by piece by several threads. `hazards` in `PROJECT.json`
lists them at their lines with the properties that cover them.

What makes each part correct, in a sentence each:

- Index: the inverted index is exactly the inverse of the forward index.
- JiebaUtil: one object, and no cut with part of the stop words.
- Searcher: the answer is what a scan of all documents would give.
- HTTP server: every request is answered once, from the whole index.
- HTML extraction: a title and a content are exactly what the brackets delimit.
- Parser: raw.txt is at any time the beginning of a good file, and complete
  after an orderly exit.
- The two programs together: the server holds exactly the parser's documents.
- Web page: the list is the answer that came last, and if that is not the newest
  search's there is one of three reasons for it.
- Debug console: each line typed is searched once, as typed.
- Log: a record that was logged is in the file, and a line of its own unless
  another thread logged beside it.

## Modules

| Module | Models | Builds on |
|---|---|---|
| `Positions` | the n-th smallest position, and what stands at a set of positions | |
| `Texts` | texts, the segmenter as an operator, `CutString`, `to_lower` | `Positions` |
| `Index` | `ns_index::Index`: one action per phase of `BuildIndex` | `Texts` |
| `Descriptions` | `Searcher::GetDesc` | `Texts` |
| `SearchSpec` | abstract: a query is answered by scanning the documents | `Texts` |
| `Searcher` | `InitSearcher` and `Search`; implements `SearchSpec` | `Index`, `Descriptions` |
| `DebugConsole` | `debug.cc`: the `fgets` loop | `Searcher`, `RawFile` (for lines) |
| `JiebaUtil` | `GetInstance`, `InitJiebaUtil`, `CutString`, statement by statement, any number of threads | |
| `HttpServer` | `main`, the handler, the pool, with the calls of `CutString` interleaved | `Index`, `JiebaUtil` (instance) |
| `RawFile` | the record format: `Record`, `Save`, `Lines`, `Split` | `Positions` |
| `Pages` | what `ReadFile`, `ParseTitle`, `ParseContent` find in the bytes of a page, in closed form | `RawFile` |
| `Html` | the same three, line by line and character by character | `Pages` |
| `Parser` | `parser.cc` with its stream, crashes, a full disk, repeated runs | `Pages` |
| `Pipeline` | parser, then server, through the bytes of raw.txt | `Parser`, `Index` |
| `Frontend` | the script of `index.html` | |
| `Log` | `log.hpp` over the buffer of stdout, by several threads | |
| `IndexProofs`, `JiebaUtilProofs`, `ServerProofs`, `RawFileProofs`, `FrontendProofs`, `LogProofs` | theorems and proofs about the module of that name (`ServerProofs` about `HttpServer`) | that module, and the proofs it rests on |
| `SearcherProofs` | the same about `Searcher`, its refinement of `SearchSpec`, and `DebugConsole` | `DebugConsole`, `IndexProofs`, `RawFileProofs` |
| `ParserProofs` | the same about `Html`, `Parser` and `Pipeline` | `Html`, `Pipeline`, `RawFileProofs` |
| `MC*` | small values of the constants for TLC (`MCTexts` is the shared vocabulary) | |

### Index

`bpc` is the place in `BuildIndex`: `open` (line 80), `getline` (the loop
condition, 89), `invert` (between `BuildForwardIndex` and `BuildInvertedIndex`,
98), `built`, `failed` (returned false), `crashed`. `input` is raw.txt as
`getline` and `Split` deliver it. `inverted_index` is total: a word that is no
key has the list `<<>>`, which `GetInvertedList` returns for it in place of
`nullptr`; no key of the program ever has an empty list.

`results[0]`, `[1]` and `[2]` are read without looking at `results.size()`
(`index.hpp:117-119`). A line with fewer fields is undefined behaviour: `Field`
yields any text of `Junk`, and `ReadPastFields` is the crash. `BuildForwardIndex`
never returns `nullptr`, so the `continue` of line 92-96 is not reachable.

`Weight`, `InWordMap` and `PushElems` say what `word_map` is after both loops
have run; it is local, and its order of iteration cannot matter because each key
has a list of its own. `Tokens` is the order of the code: stop words are taken
out with the letters they have in the text (`util.hpp:98`), then the words are
lowered by the caller (`index.hpp:142,151`, `searcher.hpp:71`).

### JiebaUtil

One action per statement of `GetInstance`: the unlocked test, `lock`, the second
test, `new` and assignment (the pointer is visible from here on), each `insert`
of `InitJiebaUtil`, the return from it, `unlock`. `CutStringHelper` records in
`seen` the stop words that its lookups found in the map. While some thread
inserts, a lookup is a data race: it finds any part of what has been inserted
(`Visible`) or the process dies (`RacyFind`). The model is sequentially
consistent otherwise; it does not let the plain pointer be seen before the
constructor's writes on a weakly ordered machine.

### Searcher and SearchSpec

`CutQuery`; for each word a `LookUpWord` that fetches its list, and a `MergeElem`
for each element of the list; `BuildJson`. `elems` is what the inner loop has
still to merge. The order of `tokens_map` and `std::sort` leave ties in any
order, so `BuildJson` takes any order that is sorted by weight. `SearchSpec`
knows no index: the score of a document counts the pairs of a place in the query
and a place in the text that hold the same word (`Matches`), ten times in the
title; a document hits if it scores; and a description is a piece of the content
around the first place of the first query word the document has, or `NoDesc`.
The refinement maps `answer` to `json_string` and leaves `input` and `query` as
they are. `Safety` is what may be asked and answered, `Spec` adds that an answer
comes.

`GetDesc` takes `end = size() - 1` and cuts `end - start` bytes
(`searcher.hpp:49,57`), so the last byte of a content is never shown.
`SearchSpec` asks only that a description *lies* within 50 bytes before and 100
after, and so allows it.

### DebugConsole

Builds on the actions of `Searcher`. `Fgets` copies at most `BufferSize - 2`
bytes (the code passes `sizeof(buffer) - 1`, and `fgets` keeps one for the
`\0`) and stops after a `\n`; `Strip` cuts the last character off and calls
`Search`. At the end of the input `fgets` leaves the buffer alone and nobody
asks (`debug.cc:21`), so the loop goes on with what the buffer holds, a
character shorter each time, until `buffer[strlen(buffer) - 1]` lies before the
buffer: `StripNothing` and `Overrun` are what may come of that. The buffer is
not initialised; `Leftovers` is what it may hold, `NoEnd` if it has no `\0`.

### HttpServer

The main thread runs `InitSearcher` and then `Listen`, whatever `BuildIndex`
returned. httplib is external: connections queue up, a thread of a fixed pool
takes one, runs the handler, and answers. A connection carries one request. The
handler's call of `CutString` goes through the actions of `JiebaUtil`, so
threads meet in `GetInstance`. A reply, `Json`, is abstracted to the set of
doc_ids in it (`Found`); `Searcher` models the rest. The two calls of
`CutString` for a document are one: only the main thread runs, and the second
call finds what the first left.

### RawFile, Pages, Html

`RawFile` works on bytes. `Lines` is the `getline` loop, which returns what
follows the last `\n` as a line too; `Split` is `boost::split` with
`token_compress_on`.

`Html` runs through a page as the code does: `GetLine` until the file ends, the
two calls of `find` with their tests, the scanner of `ParseContent` with
its status `LABLE` or `CONTENT`. `Pages` says what comes out without running:
the text after a `>` that no `<` has ended. `Parser` uses `Pages`, and `html`
checks that the two agree.

### Parser, Pipeline

A file is a record: its path, whether it is a regular file, ends in `.html`,
opens, and its bytes. The stream of `SaveHtml` has a buffer and a badbit: `Flush`
moves bytes to the file at any time, `FlushFails` writes fewer than it should
and sets the badbit, after which `WriteRecord` adds nothing. The code never
asks. `Crash` may come at any step and loses the buffer; `Restart` runs the
program again on the file it left. `Pipeline` feeds what the parser left,
however it ended, to `BuildIndex`.

`Byte` is the set of bytes files are made of, `NoRaw` the value of `raw` as long
as there is no raw.txt (`NoFile` is the same for `BuildIndex`). `TreeAssumption`
says what a file system gives: finitely many files, each with a path of its own
that begins with the directory searched. `PlainPages` is no assumption of the
model but the hypothesis of two theorems: no page and no path holds the
separator, as README.md:116 has it of printing characters, and no path a line
end. `MCPipeline` states that its pages are so.

### Frontend

Each function of the script runs to its end, so each is one step: `Type`,
`Search` (or `SearchNothing`, when the box is empty), `Success` with
`BuildHtml`, `Failure`. Requests may overlap; replies come in any order or not
at all. `replies` keeps the order in which they came, `pending` the requests that
were in flight when each request was sent; both serve the properties only, the
script has nothing like them. `document.write` after the page has loaded replaces it: `page` is
`written` and box and button are gone. `Heard` is what the server gets of a word
that is put into a URL as it is. The server is the operator `Answer`; its array
`[]` does not occur, since jsoncpp writes an empty `root` as `null`.

### Log

A record is a chain of `<<`, each one write to the buffer of stdout, and `endl`
is a last write and a flush of whatever all threads have written. The buffer
may spill at any time, and the process may die at any time. `out` holds atoms
(thread, call, piece) in place of text; `overlapped` remembers the records that
another thread logged beside.

## Runs

Distinct states are those TLC reports; each passing run takes a minute at most.

| Run | Instance | States | Question |
|---|---|---|---|
| `index` | every raw.txt of at most 2 of 11 lines, two of them too short; no file | 1373 | is the inverted index exact at every moment, and does the build end? |
| `debug_console` | at most 2 of 4 lines of raw.txt, sessions of at most 2 of 7 lines, window 1 before and 2 after | 17460 | does Search implement the scan, and is each line searched as typed? |
| `jieba` | 3 threads, 2 stop words, all cold | 3888 | is the double-checked locking safe after the first call, and does every call return? |
| `http_server` | 3 clients, 2 pool threads, 5 contents of raw.txt | 84744 | are all requests answered, from the whole index, without the race? |
| `html` | every page of at most 5 pieces: a letter, a bracket, a line end, a title tag | 58391 | do the loops of the code find what the brackets delimit? |
| `pipeline` | every set of at most 2 of 8 files, 2 parser runs, killed or out of disk anywhere, then the server | 23323 | is raw.txt always a beginning of a good file, and does the server hold what the parser found? |
| `frontend` | 3 searches among 7 words, replies in any order or lost | 191836 | what may the page show, and when is it stale? |
| `log` | 2 threads, 2 calls each, 3 writes a record | 69720 | what may stand in log.txt? |

### Properties

- `IndexIsInverse`, `ListsAscend`, `DocIdIsPosition`, `LinesBecomeDocs`,
  `BuildEnds` (`index`): an element for a document stands in the list of a word
  exactly if the document is indexed and has the word, with the exact weight, in
  document order. `ListsAscend` is what the merge in `Search` needs: a list that
  named a document twice would count it twice.
- `MergedDocsExist`, `ImplementsScan`, `AskedAsTyped`, `OneLostPerRead`,
  `EveryLineSearched` (`debug_console`). Lines that fit the buffer are searched
  as typed; a longer one loses a character where `fgets` stopped, one per read.
- `MutualExclusion`, `OneInstance`, `ReadyWhenFree`, `WarmCutsSeeAll`,
  `CallsReturn` (`jieba`): the last-but-one says that the early publication harms
  calls only while the first one is going on.
- `EachRequestHasOnePlace`, `AnswersAreComplete`, `WarmServer`,
  `RequestsAnswered`, `ServerListens` (`http_server`). `WarmServer` is the reason
  why the race of `JiebaUtil` is rare in practice: indexing one document before
  listening makes the first call on the main thread.
- `OnlyLineEndsLost`, `StatusIsLastBracket`, `ContentIsBody`, `TitleInContent`
  (`html`). A title without a tag in it is part of the content too, so its words
  count ten and one.
- `RawIsPrefix`, `ExitZeroSaved`, `ParserEnds`, `SplitCompresses`,
  `EarlierDocsWhole`, `CleanRunServesAll` (`pipeline`): what a killed parser
  leaves costs the server the last document at most.
- `ShownIsLastReply`, `StaleHasReason`, `PageLostForNothing` (`frontend`). The page
  *can* show a stale list, after a search that failed and when an older reply comes
  last; `StaleHasReason` says that there is no other way than these two, but for
  a reply that has yet to come.
- `ReturnedIsInFile`, `AloneIsALine` (`log`).

### Disagreements with what the repository says

Each of these runs checks one sentence of the repository and TLC finds a
behaviour of the code that contradicts it.

| Run | The sentence | What happens |
|---|---|---|
| `index_stop_words` | README.md:1448: the index entries of stop words are deleted | "The" is not in the map, which has "the"; it passes, is lowered and indexed as "the" |
| `http_server_cold` | README.md:1452: stop words are taken out after cutting | no document was indexed (raw.txt missing or empty); the first two requests race, and one cuts with part of the stop words |
| `parser_disk_full` | parser.cc:46: the parsed documents are written to the output | neither `write` nor `close` is asked; `main` returns 0 and documents are missing |
| `pipeline_empty_page` | index.hpp:111: `results` holds the three strings | a page with an empty title and no text has an empty content (a title with text in it would be part of it); two separators stand side by side, `Split` compresses them, and `results[2]` is out of range |

What the models show besides, without a run of its own: without raw.txt the
server logs that the index is complete (`searcher.hpp:31`) and serves nothing
but empty answers; the word is not encoded (`index.html:130`), so that `c++`,
`c#` and `a&b` are searched as something else; lines are joined without a blank
(`util.hpp:25`), so the words at their ends run together and the branch of
`ParseContent` that turns a `\n` into a blank (`parser.cc:160`) is never taken;
an overlapping search may leave an older list on the page, for `BuildHtml` does
not know which search a reply belongs to (`index.html:131-146`); and a search
that fails leaves the old list, for `$.ajax` has no error handler.

### Bounds, and why they are enough

The constants are small, and every case the code distinguishes occurs in them.

- Vocabulary (`MCTexts`): a stop word, the same word with a capital, an ordinary
  word, a compound for which the segmenter emits the word inside it as well, and
  a symbol that is no word. Texts of at most 2 symbols (4 in
  `debug_console`).
- Two documents are enough for an order, for a document that has a word the other
  lacks, for a tie, and for a list of two; the theorems cover any number.
- Three threads in `jieba`: one inside the lock, one waiting for it, one on the
  fast path.
- Three clients and two pool threads: two requests at once, and a third that
  waits in the queue while every thread is busy.
- `MaxRuns = 2`: a second run on the file that an earlier one left. `MaxFiles =
  2`: every pair of a page and one that is skipped, and two pages in either order.
  `ParserProofs` covers any number of runs, files and bytes.
- `PrevStep = 1`, `NextStep = 2` in place of 50 and 100: contents shorter than,
  equal to and longer than the window on each side.
- `BufferSize = 5` in place of 1024: at most three characters of a line are
  read at once, and one of the lines typed is longer.
- `MaxPieces = 5`: a title (three pieces at least with its text) and two
  brackets, letters or line ends anywhere around or in it. `ParserProofs`
  covers every page.
- `MaxSearches = 3`: a search that has failed or was answered between two that
  overlap, and the three replies in every order. `FrontendProofs` covers any number.
- `Pieces = 2` in place of 11 and `MaxRecords = 2`: a record with a beginning, a
  middle and an end, before and after another. `LogProofs` covers any number.
- `Junk` (what an out-of-range read yields) is two texts in `index` and `{<<>>}`
  in `pipeline`. It is empty in `debug_console`, whose inputs have no short
  line, and in `http_server`, where a short line can only crash the process.

`CHECK_DEADLOCK FALSE` stands where the program really stops, and each
configuration says where: a build that ended, a process that died, a page that
was written over, threads that have made their calls.

### Fairness

- `Index`: weak fairness of `BuildIndex`; a sequential function that no other
  thread can block runs to its end.
- `Searcher`: weak fairness of building and of a `Search` in progress, none of
  `CutQuery`: queries need not come. `DebugConsole`: weak fairness of its one
  thread, whose input is there.
- `JiebaUtil`: weak fairness of each thread inside `CutString` (the scheduler of
  the operating system). A thread takes the mutex once at most, for afterwards
  the pointer is set; so nobody can be overtaken for ever, and strong fairness
  of `lock` is not needed.
- `HttpServer`: weak fairness of the main thread until it listens, and of each
  pool thread. Clients need neither send nor read.
- `Parser`, also in `Pipeline`: weak fairness of `main`, none of `Crash`,
  `FlushFails`, `Restart`, of starting the server or of its `BuildIndex`, which
  ends in `index`.
- `Html`, `Frontend`, `Log`: none; only safety is asked of them. A user need not
  search, and a reply need not come.

### Mutants

Each property of a passing run has a mutant in `PROJECT.json`: a plausible slip in
one definition (a doc_id taken after `push_back`, elements pushed at the front,
no second test under the lock, a mutex that stays locked, a handler that
does not return, raw.txt opened without truncation, ...) that makes TLC find the
property violated. The mutated forms stand beside the definitions they alter.

## Proofs

Eight modules hold theorems, for every value of the constants that satisfies the
named assumptions; no theorem rests on a bound of a run. Between them they state
every invariant and every action property that the passing runs check, and the
safety half of the refinement.

`IndexProofs`: `TypeOK`, `DocIdIsPosition`, `ListsAscend`, `IndexIsInverse`,
`LinesBecomeDocs`, for every set of texts, segmenter, list of stop words and
raw.txt. Assumptions are those of `Texts` and `Index`: texts are sequences of
symbols, lowering is idempotent and stays in `Text`, the segmenter emits a
sequence of texts, `Inputs` are sequences of lines. None of the five is
inductive. `IInv` adds

- `Progress`: the lines read are as many as the documents held, `invert` means
  that there is one, and where `BuildIndex` is when it has read everything;
- `FieldsKept`: the part of `LinesBecomeDocs` about fields.

`ListsAscend` needs `IndexIsInverse` (all elements of a list are below the
document to be pushed, `elem.doc_id < Indexed`) and `DocIdIsPosition` (the doc_id
pushed is that of the last document); `IndexIsInverse` needs that a document
pushed on the forward index alone changes no document that a list names. The two
steps that matter, `ForwardIInv` and `InvertIInv`, have a lemma each.

`JiebaUtilProofs`: `JiebaTypeOK`, `MutualExclusion`, `OneInstance`,
`ReadyWhenFree` and the action property `WarmCutsSeeAll`, for every set of
threads and stop words. `JiebaInv` adds `PlacesKnow` (a thread at `new` knows
that there is no instance, one at `load`, `unlock` or `cut` that there is) and
`SomeoneLoads` (if the published object lacks stop words, some thread is
loading). With mutual exclusion the latter gives that a free mutex means a
loaded object.

`ServerProofs`: `EachRequestHasOnePlace`, `WarmServer` and, for every raw.txt
whose lines have three fields, `AnswersAreComplete`, for any pool and any
clients. `ServerInv` composes `IInv` and `JiebaInv`, both carried over from the
proofs of the parts, with

- `OnePlace`: a client stands once in the queue or at one thread, from which the
  counts of `EachRequestHasOnePlace` follow;
- `BusyWithQuery`: a pool thread inside `CutString` serves a client that asked a
  query and has no reply;
- `BeforeListen`: until main listens no pool thread has a client or has called
  anything, and the main thread is in `CutString` only while it inverts;
- `Warm`: once a document is inverted there is an instance, and after that no
  thread gets past the first test of `GetInstance` into the lock.

`Warm` with `SomeoneLoads` gives `WarmServer`, and that a query is cut with all stop
words; `IndexIsInverse` then turns what `Found` takes from the lists into
`Wanted`, what a scan would take (`FoundIsWanted`). Without a document there is
nothing to be found, whatever the race did to the words. `ThreeFields` is the
precondition because a shorter line makes a document of whatever the read past
`results` found; that it can be violated is the finding of `pipeline_empty_page`.

`SearcherProofs`: `MergedDocsExist`, and `SearchIsScan`: with a raw.txt whose lines
have three fields, or without one, every behaviour of `Searcher` satisfies
`Scan!Safety`, the specification that scans every document. `SearchInv` adds to
`IInv` what a search in progress has done:

- `Rest`: the words to come are the end of the query's words;
- `ElemsMatch`: what is left to merge is the end of the list of the last word
  fetched, so it names no document twice;
- `Balance`: for each document, the weight held in `tokens_map` and the weight
  still to be merged from `elems` are together what the document scores for the
  words looked up. This is what replaces an induction over the merge;
- `FirstWord`: the first word of an item is the first word of the query that
  the document has, which is what the description is about;
- `Idle`, `ItemsHaveWords`: nothing happens before the index is there, and each
  document merged exists, has a word and weighs as much as it has words.

`ScoreStep` says that one word more in the query adds `Weight` to the score,
counting pairs. When nothing is left to merge, `Balance` says that `tokens_map`
is the scan (`MapIsScan`); `DescribesIs` proves `GetDesc`, with its
arithmetic on unsigned positions, against `Describes`; `BuildJsonReplies` puts the
two together, and `StepIsScan` goes through the steps: `CutQuery` is `Ask`,
`BuildJson` is `Reply`, and the others stutter.

The same module proves of `DebugConsole` that it is a `Searcher` that is asked what
its queries allow (`ConsoleIsScan`), `AskedAsTyped` and `OneLostPerRead`, for every
buffer size, every input and whatever the buffer held. `BufferInv` says that each
beginning of the buffer is a query and counts what was read against what
was asked; `TypedInv` says, while all lines fit, that reading stands at the
beginning of a line and the buffer holds one line with its end.

`RawFileProofs` proves what the format promises, for any bytes. It rests on
lemmas about the least number of a set and the n-th (`MinIs`, `RankExists`,
`RankUnique`), which are drawn from the well-foundedness of the natural numbers: a
minimal counterexample in place of an induction. `FlattenSteps` and `SaveSteps` do
the same for `FlattenSeq`: what it yields for one sequence more is what it yielded
and that sequence. From these follow

- `LinesOfSave`: getline finds the records that `Save` wrote, one by one;
- `LinesOfPrefix`: in a file that is a beginning of what `Save` wrote it finds the
  same, but for the last line, which may be cut short;
- `SplitIs`: `Split` yields what stands between single separators but for the empty
  fields inside; `SplitLine`: the three fields of a document, or its title and its
  url if the content is empty.

`ParserProofs` follows a page from its characters to the index.

*The scanner*: `OnlyLineEndsLost`, `StatusIsLastBracket`, `ContentIsBody`,
`TitleInContent`, for every page. `HtmlInv` adds that nothing is scanned before
`ParseContent` begins, that what is joined are the bytes before the line read
next without their line ends (`Joined`), and states `ContentIsBody` by positions
(`Ranked`): the n-th character of the content is the one at the n-th position of
the body. A step of the scanner adds the next position to the body or not, and a
lemma says that the n-th number of a set stays so when a larger one is added.

*The parser*: `ParserTypeOK`, `RawIsPrefix`, `ExitZeroSaved`, for every directory,
any number of runs and every crash or failed write. `ParserInv` adds

- `Partition`: a document is parsed exactly if no file that is still to be read
  makes it; so when no file is left, `results` is an order of `Documents`
  (`AllParsed`). That two files never make the same document rests on their paths
  (`ParseInjective`), that none comes up twice on `NoneTwice`;
- `Written`: while raw.txt is written, file and buffer together are the records
  handed to the stream; after a failed write the buffer is empty and the file
  a beginning of them;
- `Stages`: which variables are still empty, or already.

*The two programs*: `SplitCompresses`, and for `PlainPages` also `EarlierDocsWhole` and
`CleanRunServesAll`. `PipelineInv` adds that `BuildIndex` reads the raw.txt that
there is (`Reading`) and `LinesBecomeDocs` of `Index`. A torn file is a beginning of
`Save(order)` for some order of all documents; `LinesOfPrefix` finds in it the
lines of that order, `SplitLine` their fields, and `LinesBecomeDocs` the
documents. `PlainPages` is needed: a title with a separator in it would be
cut in two. That each page has a text is a premise
of `CleanRunServesAll` itself; what happens without it is the finding of
`pipeline_empty_page`, and `ThreeStrings` says that with it the sentence which that
run refutes is true.

`FrontendProofs`: all three properties of `Frontend`, for any number of searches.
`FrontInv` adds `OthersWerePending` (what is in flight beside the newest request
was so when that was sent) and `LaterReply` (if the newest has a reply and another
came last, it was one of those). `StaleReasons` draws `StaleHasReason` from these
and `ShownIsLastReply`.

`LogProofs`: both properties of `Log`, for any number of threads, calls and writes
of a record. `LogInv` adds `PiecesWritten` (the writes a thread has made are in
`out`), `LastWrite` (the last piece in `out` ends a line or belongs to a record
still being written) and `AloneInside` (while a record that nobody overlaps is
being written, the last piece is its own or the end of a line).

Only model-checked:

- all liveness (`BuildEnds`, `CallsReturn`, `RequestsAnswered`, `ServerListens`,
  `ParserEnds`, `EveryLineSearched`, and in `ImplementsScan` that a
  query is answered), which the prover does not do under fairness;
- what happens when a hypothesis of a theorem fails: `AnswersAreComplete` and
  `ImplementsScan` for a line with fewer than three fields, where the model says
  what an out-of-range read may yield; the runs that violate a sentence of
  the repository live there.

## Not modelled

- `src/data/input` is what the parser reads, not part of the program: the Boost
  documentation, with the example programs of Boost.Asio in it. Nothing in the
  repository compiles or calls them, and they keep no state of the search
  engine. They are nearly all the files of the repository that look like
  source. The engine itself is the seven hundred lines of `src/*.cc`, `src/*.hpp`
  and the script of `wwwroot/index.html`, and every function of it that
  keeps or computes state is in a module.
- cppjieba, cpp-httplib, jsoncpp, boost and jQuery are not in the repository. The
  models say what the code relies on: a segmenter is an operator, httplib a queue
  and a pool, the stream a buffer with a badbit.
- Exceptions (no memory, `std::mutex::lock` failing), a directory iterator that
  throws, and overflow of `int` weights: a document would need some 200 million
  occurrences of a word.
- A disk that is full for a moment only. `FlushFails` rests on the assumption that
  a full disk stays full for the rest of the run, so that what was in the buffer
  is lost. If space comes free in between, `close` of libstdc++ tries the bytes
  still pending once more; what raw.txt then holds is outside the models, and
  outside `RawIsPrefix` with them.
- `server.listen` returning at once because the port is taken; `main` then ends.
- Bytes above 127: `std::tolower` of a negative `char` (`searcher.hpp:41`) is
  taken for what glibc does, a lookup in a table, as `LowerSym` is.
- A byte `\3` in a page, which no page has (`Parser` allows it, and the theorems
  say which of them exclude it); a `\0` typed at the console; a `=` or
  `%` in a word put into a URL; what a browser does with a page that
  `document.write` replaced; a stdout that cannot be written.
- `JiebaUtil` is sequentially consistent but for the race on the map: the plain
  pointer is not seen before the constructor's writes, as it may be on a weakly
  ordered machine.
- `Index::GetInstance`: called once, by the main thread.
- The style sheet, and what records of the log and elements of the page say.

## Plan

The order in which the project was built: the index first, for everything else
reads it; then the one place where threads meet; then what composes the two; then
the way from pages to the index; then what stands at the edges, the console, the
web page and the log; and the proofs of each along with it.

What would come next: `Pipeline` joined to `Searcher`, so that `ThreeStrings` gives
`SearchIsScan` its hypothesis and the promise reaches from the bytes of the pages
to the answer; and `Frontend` composed with `HttpServer` in place of the operator
`Answer`, which would add no behaviour to either but join their theorems.
