---------------------------- MODULE Descriptions ----------------------------
(* Searcher::GetDesc (src/searcher.hpp:34-58): the piece of a document     *)
(* shown with a search result.  Positions count symbols from 0, as in the  *)
(* code; the code has PrevStep = 50 and NextStep = 100 bytes.              *)
EXTENDS Texts

CONSTANTS
    PrevStep,   \* prev_step
    NextStep,   \* next_step
    NoDesc      \* the answer "None"

ASSUME StepAssumption == PrevStep \in Nat /\ NextStep \in Nat \ {0}

(* Where std::search may find the word, ignoring case.  An iterator equal  *)
(* to content.end() is no occurrence.                                      *)
Occurrences(content, word) ==
    {pos \in 0 .. Len(content) - 1 :
        /\ pos + Len(word) <= Len(content)
        /\ \A i \in DOMAIN word : LowerSym[content[pos + i]] = LowerSym[word[i]]}

FirstOccurrence(content, word) ==
    CHOOSE pos \in Occurrences(content, word) :
        \A other \in Occurrences(content, word) : pos <= other

WindowStart(pos) == IF pos - PrevStep > 0 THEN pos - PrevStep ELSE 0

WindowEnd(content, pos) ==
    IF pos + NextStep < Len(content) - 1 THEN pos + NextStep ELSE Len(content) - 1

(* substr(start, end - start): the symbol at `end' is not included. *)
GetDesc(content, word) ==
    LET pos == FirstOccurrence(content, word)
        start == WindowStart(pos)
        end == WindowEnd(content, pos)
    IN IF Occurrences(content, word) = {} \/ start > end
       THEN NoDesc
       ELSE SubSeq(content, start + 1, end)
=============================================================================
