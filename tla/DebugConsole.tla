---------------------------- MODULE DebugConsole ----------------------------
(***************************************************************************)
(* src/debug.cc: after InitSearcher an endless loop reads a line with      *)
(* fgets, cuts off its last character and searches for the rest.  Nothing  *)
(* asks whether fgets has read anything, so at the end of the input the    *)
(* loop goes on with what the buffer holds.                                *)
(*                                                                         *)
(* `buffer' is the text that strlen sees; nobody types a '\0'.             *)
(***************************************************************************)
EXTENDS Searcher, RawFile

CONSTANTS
    BufferSize,  \* sizeof(buffer), 1024 in the code
    Sessions,    \* what may be typed, or piped in, until the input ends
    Leftovers,   \* what an uninitialised buffer may hold
    NoEnd        \* a buffer without a '\0'

(* fgets(buffer, sizeof(buffer) - 1, stdin) keeps one byte of the size it  *)
(* is given for the '\0', and stops after a '\n'.                          *)
MostRead == BufferSize - 2

(* Every text without a '\n' that is typed and fits is a query, and so is  *)
(* what is left of the buffer when characters are cut off its end.         *)
ASSUME ConsoleAssumption ==
    /\ BufferSize \in Nat /\ BufferSize > 3
    /\ Sessions \subseteq Seq(Sym \cup {Nl})
    /\ <<>> \in Queries
    /\ \A text \in Sessions : \A i \in 1 .. Len(text), j \in 1 .. Len(text) :
         j - i < MostRead - 1 /\ Nl \notin {text[k] : k \in i .. j} =>
           SubSeq(text, i, j) \in Queries
    /\ \A text \in Leftovers \ {NoEnd} :
         text \in Seq(Sym) /\ \A n \in 1 .. Len(text) - 1 : SubSeq(text, 1, n) \in Queries
    /\ NoEnd \notin Seq(Sym \cup {Nl})

VARIABLES
    typed,   \* the whole input, fixed
    at,      \* how much of it has been read
    buffer,
    fresh,   \* whether the last fgets read anything
    dpc,     \* "fgets", "strip", or "dead" after an undefined access
    asked    \* the queries made of what was typed

consolevars == <<typed, at, buffer, fresh, dpc, asked>>
debugvars == <<allvars, consolevars>>

ConsoleInit ==
    /\ SearcherInit
    /\ typed \in Sessions /\ at = 0
    /\ buffer \in Leftovers /\ fresh = FALSE
    /\ dpc = "fgets"
    /\ asked = <<>>

(* Mutants: a line stored without its '\n', as getline does; a line that   *)
(* is not cut.                                                             *)
NoNewline(text) == Selected(text, {i \in DOMAIN text : text[i] # Nl})
Uncut(text) == text

ReadUpTo ==
    Min({i \in at + 1 .. Len(typed) : typed[i] = Nl} \cup {at + MostRead, Len(typed)})

Stored(text) == text

Fgets ==
    /\ dpc = "fgets" /\ Initialised /\ query = NoQuery
    /\ at < Len(typed)
    /\ buffer' = Stored(SubSeq(typed, at + 1, ReadUpTo))
    /\ at' = ReadUpTo
    /\ fresh' = TRUE
    /\ dpc' = "strip"
    /\ UNCHANGED <<allvars, typed, asked>>

(* At the end of the input fgets returns NULL and leaves the buffer alone. *)
FgetsNothing ==
    /\ dpc = "fgets" /\ Initialised /\ query = NoQuery
    /\ at = Len(typed)
    /\ fresh' = FALSE
    /\ dpc' = "strip"
    /\ UNCHANGED <<allvars, typed, at, buffer, asked>>

Stripped(text) == Front(text)

(* buffer[strlen(buffer) - 1] = 0, and Search is called; it is at its end  *)
(* when query is NoQuery again.                                            *)
Strip ==
    /\ dpc = "strip" /\ buffer \notin {NoEnd, <<>>}
    /\ buffer' = Stripped(buffer)
    /\ CutQuery(buffer')
    /\ asked' = IF fresh THEN Append(asked, buffer') ELSE asked
    /\ dpc' = "fgets"
    /\ UNCHANGED <<typed, at, fresh>>

(* With strlen 0 the write goes to buffer[-1]: undefined.  It may hit what *)
(* nobody needs, and "" is searched, or end the process; so may strlen on  *)
(* a buffer without a '\0'.                                                *)
StripNothing ==
    /\ dpc = "strip" /\ buffer = <<>>
    /\ CutQuery(<<>>)
    /\ dpc' = "fgets"
    /\ UNCHANGED <<typed, at, buffer, fresh, asked>>

Overrun ==
    /\ dpc = "strip" /\ buffer \in {NoEnd, <<>>}
    /\ dpc' = "dead"
    /\ UNCHANGED <<allvars, typed, at, buffer, fresh, asked>>

ConsoleStep ==
    \/ (InitSearcher \/ SearchOn) /\ UNCHANGED consolevars
    \/ Fgets \/ FgetsNothing \/ Strip \/ StripNothing \/ Overrun

(* One thread that waits for nothing but its input, which is there. *)
ConsoleSpec == ConsoleInit /\ [][ConsoleStep]_debugvars /\ WF_debugvars(ConsoleStep)

-----------------------------------------------------------------------------
(* Every line that is typed ends, and fits into what fgets reads. *)
LinesFit ==
    /\ typed # <<>> => Last(typed) = Nl
    /\ \A n \in DOMAIN Lines(typed) : Len(Lines(typed)[n]) < MostRead

(* What is searched are the lines as typed, in order, each once, whatever  *)
(* the buffer held before and however often the loop goes round after the  *)
(* last (debug.cc:20-24).                                                  *)
AskedAsTyped ==
    LinesFit =>
      /\ Len(asked) <= Len(Lines(typed))
      /\ \A n \in DOMAIN asked : asked[n] = Lines(typed)[n]

(* However long the lines are, a call of fgets costs one character of what *)
(* was typed and no more, and the write that cuts it off stays inside the  *)
(* buffer as long as there is input: "" is cut only after its end.         *)
OneLostPerRead ==
    /\ at = Cardinality(UNION {{n} \X (0 .. Len(asked[n])) : n \in DOMAIN asked})
              + (IF fresh /\ dpc = "strip" THEN Len(buffer) ELSE 0)
    /\ dpc = "dead" => at = Len(typed) /\ ~fresh

(* Every line typed is searched, with an index or without one. *)
EveryLineSearched == LinesFit ~> asked = Lines(typed)
=============================================================================
