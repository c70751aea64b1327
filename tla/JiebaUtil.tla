----------------------------- MODULE JiebaUtil -----------------------------
(***************************************************************************)
(* ns_util::JiebaUtil (src/util.hpp:48-115): the lazily created singleton  *)
(* that owns the stop words, and the calls of CutString by several         *)
(* threads.  GetInstance is double-checked locking on a plain pointer that *)
(* line 69 publishes before line 70 loads the stop words.                  *)
(*                                                                         *)
(* A stop-word file that does not open is StopWords = {}: InitJiebaUtil    *)
(* returns with an empty map either way.                                   *)
(***************************************************************************)
EXTENDS Integers, Sequences

CONSTANTS
    Thread,      \* callers of CutString
    NoThread,    \* nobody holds the mutex
    StopWords    \* lines of dict/stop_words.utf8

ASSUME ThreadAssumption == NoThread \notin Thread

VARIABLES
    instance,     \* 0 is nullptr, o the o-th object created
    mtx,          \* who holds the function-static mutex
    stop_words,   \* stop_words[o]: the map of the o-th object
    jpc,          \* where each thread is in CutString
    seen,         \* the stop words the thread's last cut found in the map
    crashed       \* the process died in an undefined read

jiebavars == <<instance, mtx, stop_words, jpc, seen, crashed>>

Places == {"idle", "check", "lock", "recheck", "new", "load", "unlock", "cut"}
Critical == {"recheck", "new", "load", "unlock"}

JiebaInit ==
    /\ instance = 0
    /\ mtx = NoThread
    /\ stop_words = <<>>
    /\ jpc = [t \in Thread |-> "idle"]
    /\ seen = [t \in Thread |-> StopWords]
    /\ crashed = FALSE

Goto(t, place) == jpc' = [jpc EXCEPT ![t] = place]

(* Mutants: a lock that is not waited for, no second check, the pointer    *)
(* published before the object is made, an initialisation that is left     *)
(* early, a mutex that is not released.                                    *)
NoWait == TRUE
NoSecondCheck == FALSE
PublishFirst == /\ instance' = Len(stop_words) + 1
                /\ UNCHANGED stop_words
SomeLoaded == TRUE
KeepMutex == mtx

Call(t) ==
    /\ jpc[t] = "idle" /\ ~crashed
    /\ Goto(t, "check")
    /\ UNCHANGED <<instance, mtx, stop_words, seen, crashed>>

CheckInstance(t) ==
    /\ jpc[t] = "check" /\ ~crashed
    /\ Goto(t, IF instance = 0 THEN "lock" ELSE "cut")
    /\ UNCHANGED <<instance, mtx, stop_words, seen, crashed>>

MutexFree == mtx = NoThread

Lock(t) ==
    /\ jpc[t] = "lock" /\ ~crashed
    /\ MutexFree
    /\ mtx' = t
    /\ Goto(t, "recheck")
    /\ UNCHANGED <<instance, stop_words, seen, crashed>>

FoundByNow == instance # 0

RecheckInstance(t) ==
    /\ jpc[t] = "recheck" /\ ~crashed
    /\ Goto(t, IF FoundByNow THEN "unlock" ELSE "new")
    /\ UNCHANGED <<instance, mtx, stop_words, seen, crashed>>

(* The pointer is visible to the other threads before the map is filled. *)
Publish ==
    /\ stop_words' = Append(stop_words, {})
    /\ instance' = Len(stop_words')

NewInstance(t) ==
    /\ jpc[t] = "new" /\ ~crashed
    /\ Publish
    /\ Goto(t, "load")
    /\ UNCHANGED <<mtx, seen, crashed>>

InsertStopWord(t) ==
    /\ jpc[t] = "load" /\ ~crashed
    /\ \E word \in StopWords \ stop_words[instance] :
         stop_words' = [stop_words EXCEPT ![instance] = @ \cup {word}]
    /\ UNCHANGED <<instance, mtx, jpc, seen, crashed>>

AllLoaded == stop_words[instance] = StopWords

EndInit(t) ==
    /\ jpc[t] = "load" /\ ~crashed
    /\ AllLoaded
    /\ Goto(t, "unlock")
    /\ UNCHANGED <<instance, mtx, stop_words, seen, crashed>>

Released == NoThread

Unlock(t) ==
    /\ jpc[t] = "unlock" /\ ~crashed
    /\ mtx' = Released
    /\ Goto(t, "cut")
    /\ UNCHANGED <<instance, stop_words, seen, crashed>>

GetInstance(t) ==
    \/ CheckInstance(t) \/ Lock(t) \/ RecheckInstance(t) \/ NewInstance(t)
    \/ InsertStopWord(t) \/ EndInit(t) \/ Unlock(t)

(* While some thread inserts, a find() in the same map is a data race: it  *)
(* misses any of the words inserted so far, or the process dies.           *)
Loading == \E t \in Thread : jpc[t] = "load"

Visible(map) == IF Loading THEN SUBSET map ELSE {map}

(* CutStringHelper on the object that GetInstance returned. *)
CutStringHelper(t) ==
    /\ jpc[t] = "cut" /\ ~crashed
    /\ \E words \in Visible(stop_words[instance]) : seen' = [seen EXCEPT ![t] = words]
    /\ Goto(t, "idle")
    /\ UNCHANGED <<instance, mtx, stop_words, crashed>>

RacyFind(t) ==
    /\ jpc[t] = "cut" /\ ~crashed
    /\ Loading
    /\ crashed' = TRUE
    /\ UNCHANGED <<instance, mtx, stop_words, jpc, seen>>

Finish(t) == GetInstance(t) \/ CutStringHelper(t)

JiebaNext == \E t \in Thread : Call(t) \/ Finish(t) \/ RacyFind(t)

(* A thread inside CutString is scheduled.  The mutex is taken by each     *)
(* thread once at most, so weak fairness is enough to obtain it.           *)
JiebaSpec ==
    /\ JiebaInit /\ [][JiebaNext]_jiebavars
    /\ \A t \in Thread : WF_jiebavars(Finish(t))

-----------------------------------------------------------------------------
(* Types of the variables of JiebaUtil. *)
JiebaTypeOK ==
    /\ instance \in 0 .. Len(stop_words)
    /\ mtx \in Thread \cup {NoThread}
    /\ stop_words \in Seq(SUBSET StopWords)
    /\ jpc \in [Thread -> Places]
    /\ seen \in [Thread -> SUBSET StopWords]
    /\ crashed \in BOOLEAN

(* One thread at most is between lock and unlock (util.hpp:67-72), and it  *)
(* is the one that holds the mutex.                                        *)
MutualExclusion == \A t \in Thread : jpc[t] \in Critical <=> mtx = t

(* However many threads find no instance, one object is created: the       *)
(* recheck at line 68 sees what the previous holder of the mutex did.      *)
OneInstance == Len(stop_words) <= 1 /\ instance = Len(stop_words)

(* The mutex is never free while the published object is half loaded, so   *)
(* a thread that came through the lock finds every stop word.              *)
ReadyWhenFree ==
    instance # 0 /\ mtx = NoThread => stop_words[instance] = StopWords

(* Once the instance is there and the mutex free, no cut misses a stop     *)
(* word and no find is racy: the first call alone is delicate.             *)
WarmCutsSeeAll ==
    [][instance # 0 /\ mtx = NoThread =>
         /\ crashed' = crashed
         /\ \A t \in Thread : seen'[t] # seen[t] => seen'[t] = StopWords]_jiebavars

(* A call of CutString returns, or the process has died. *)
CallsReturn == \A t \in Thread : jpc[t] # "idle" ~> (jpc[t] = "idle" \/ crashed)

(* README.md:1448,1452: the stop words are removed from what is cut. *)
CutsSeeAllStopWords == \A t \in Thread : seen[t] = StopWords
=============================================================================
