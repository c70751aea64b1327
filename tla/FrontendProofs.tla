--------------------------- MODULE FrontendProofs ---------------------------
(***************************************************************************)
(* The three invariants of Frontend for any number of searches, words and  *)
(* answers.  FrontInv adds to them the types, and what the reasons for a   *)
(* stale list rest on: whatever is in flight beside the newest request was *)
(* so when that was sent, and if another reply than its own has come last  *)
(* it was one of those.                                                    *)
(***************************************************************************)
EXTENDS Frontend, TLAPS

FrontTypeOK ==
    /\ box \in Words
    /\ page \in {"app", "written"}
    /\ sent \in Seq(Words)
    /\ inflight \subseteq DOMAIN sent
    /\ replies \in Seq(Nat) /\ Replied \subseteq DOMAIN sent
    /\ pending \in Seq(SUBSET Nat) /\ Len(pending) = Len(sent)
    /\ result \in Seq(Item)

OthersWerePending == \A n \in inflight : n # Newest => n \in pending[Newest]

LaterReply(n) == n \in Replied => replies[Len(replies)] \in {n} \cup pending[n]

FrontInv ==
    /\ FrontTypeOK /\ OthersWerePending
    /\ sent # <<>> => LaterReply(Newest)
    /\ ShownIsLastReply /\ PageLostForNothing

(* The page as it is loaded. *)
LEMMA FrontInitInv == FrontInit => FrontInv
<1> SUFFICES ASSUME FrontInit PROVE FrontInv
    OBVIOUS
<1>1. Replied = {}
    BY DEF FrontInit, Replied
<1>2. FrontTypeOK
  <2>1. /\ <<>> \in Seq(Words) /\ <<>> \in Seq(Item) /\ <<>> \in Seq(Nat)
        /\ <<>> \in Seq(SUBSET Nat)
    OBVIOUS
  <2>2. Default \in Words
    BY WordAssumption
  <2> QED
    BY <1>1, <2>1, <2>2 DEF FrontInit, FrontTypeOK
<1>3. /\ OthersWerePending /\ (sent # <<>> => LaterReply(Newest))
      /\ ShownIsLastReply /\ PageLostForNothing
    BY <1>1 DEF FrontInit, OthersWerePending, LaterReply, ShownIsLastReply, PageLostForNothing
<1> QED
    BY <1>2, <1>3 DEF FrontInv

(* A step that leaves the requests and the list alone keeps FrontInv if it *)
(* keeps the page, or writes it over because the box is empty.             *)
LEMMA QuietInv ==
    ASSUME FrontInv, sent' = sent, replies' = replies, pending' = pending,
           result' = result, inflight' \subseteq inflight, box' \in Words,
           page' \in {page, "written"},
           page' = "written" => \/ page = "written" /\ box' = box
                                \/ box' = <<>>
    PROVE  FrontInv'
<1>1. Replied' = Replied /\ Newest' = Newest
    BY DEF Replied, Newest
<1>2. FrontTypeOK'
    BY <1>1 DEF FrontInv, FrontTypeOK
<1>3. OthersWerePending' /\ (sent # <<>> => LaterReply(Newest))'
    BY <1>1 DEF FrontInv, OthersWerePending, LaterReply
<1>4. ShownIsLastReply'
    BY DEF FrontInv, FrontTypeOK, ShownIsLastReply, AnswerTo
<1>5. PageLostForNothing'
    BY <1>1 DEF FrontInv, FrontTypeOK, PageLostForNothing, AnswerTo
<1> QED
    BY <1>2, <1>3, <1>4, <1>5 DEF FrontInv

(* A request more, which has no reply; those in flight are pending for it. *)
LEMMA SearchInv ==
    ASSUME FrontInv, Search
    PROVE  FrontInv'
<1> USE DEF FrontInv, FrontTypeOK, Search
<1>1. /\ sent' \in Seq(Words) /\ Len(sent') = Len(sent) + 1
      /\ DOMAIN sent' = DOMAIN sent \cup {Len(sent) + 1}
      /\ \A n \in DOMAIN sent : sent'[n] = sent[n]
    OBVIOUS
<1>2. /\ pending' \in Seq(SUBSET Nat) /\ Len(pending') = Len(sent')
      /\ pending'[Len(sent')] = inflight
  <2>1. inflight \in SUBSET Nat
    OBVIOUS
  <2> QED
    BY <1>1, <2>1
<1>3. Replied' = Replied /\ Newest' = Len(sent) + 1 /\ Len(sent) + 1 \notin Replied
    BY <1>1 DEF Replied, Newest
<1>4. FrontTypeOK'
    BY <1>1, <1>2, <1>3
<1>5. OthersWerePending'
    BY <1>1, <1>2, <1>3 DEF OthersWerePending
<1>6. LaterReply(Newest)'
    BY <1>3 DEF LaterReply
<1>7. \A n \in Replied : AnswerTo(n)' = AnswerTo(n)
    BY <1>1 DEF AnswerTo
<1>8. ShownIsLastReply'
  <2>1. replies # <<>> => replies[Len(replies)] \in Replied
    BY DEF Replied
  <2> QED
    BY <1>7, <2>1 DEF ShownIsLastReply
<1>9. PageLostForNothing'
    BY <1>3, <1>7 DEF PageLostForNothing
<1> QED
    BY <1>4, <1>5, <1>6, <1>8, <1>9

(* A reply comes last of all, and to the newest request or to one that was *)
(* pending when that was sent.                                             *)
LEMMA SuccessInv ==
    ASSUME FrontInv, NEW n \in DOMAIN sent, Success(n)
    PROVE  FrontInv'
<1> DEFINE data == AnswerTo(n)
<1>1. Newest' = Newest /\ \A m : AnswerTo(m)' = AnswerTo(m)
    BY DEF Success, AnswerTo, Newest
<1>2. data \in Seq(Item)
    BY WordAssumption DEF FrontInv, FrontTypeOK, AnswerTo
<1>3. /\ replies' \in Seq(Nat) /\ replies' # <<>>
      /\ replies'[Len(replies')] = n /\ Replied' = Replied \cup {n}
  <2>1. replies \in Seq(Nat) /\ n \in Nat /\ replies' = Append(replies, n)
    BY DEF Success, FrontInv, FrontTypeOK
  <2> QED
    BY <2>1 DEF Replied
<1>4. OthersWerePending' /\ LaterReply(Newest)'
    BY <1>1, <1>3 DEF Success, FrontInv, OthersWerePending, LaterReply
<1>5. CASE data = <<>>
  <2>1. page' = "written" /\ UNCHANGED result
    BY <1>5 DEF Success, BuildHtml, NoHits, Write, AnswerTo
  <2>2. FrontTypeOK'
    BY <1>3, <2>1 DEF Success, FrontInv, FrontTypeOK
  <2>3. ShownIsLastReply'
    BY <2>1 DEF ShownIsLastReply
  <2>4. PageLostForNothing'
    BY <1>1, <1>3, <1>5, <2>1 DEF PageLostForNothing
  <2> QED
    BY <1>4, <2>2, <2>3, <2>4 DEF FrontInv
<1>6. CASE data # <<>> /\ page = "app"
  <2>1. page' = page /\ result' = <<>> \o data
    BY <1>6 DEF Success, BuildHtml, NoHits, Emptied, AnswerTo
  <2>2. result' = data
    BY <1>2, <2>1
  <2>3. FrontTypeOK'
    BY <1>2, <1>3, <2>1, <2>2 DEF Success, FrontInv, FrontTypeOK
  <2>4. ShownIsLastReply'
    BY <1>1, <1>3, <2>2 DEF ShownIsLastReply
  <2>5. PageLostForNothing'
    BY <1>1, <1>3, <1>6, <2>1 DEF Success, FrontInv, PageLostForNothing
  <2> QED
    BY <1>4, <2>3, <2>4, <2>5 DEF FrontInv
<1>7. CASE data # <<>> /\ page = "written"
  <2>1. UNCHANGED <<page, result>>
    BY <1>7 DEF Success, BuildHtml, NoHits, AnswerTo
  <2>2. FrontTypeOK'
    BY <1>3, <2>1 DEF Success, FrontInv, FrontTypeOK
  <2>3. ShownIsLastReply' /\ PageLostForNothing'
    BY <1>1, <1>3, <1>7, <2>1
    DEF Success, FrontInv, ShownIsLastReply, PageLostForNothing
  <2> QED
    BY <1>4, <2>2, <2>3 DEF FrontInv
<1> QED
    BY <1>5, <1>6, <1>7 DEF FrontInv, FrontTypeOK

(* Every step of the script, of the user and of the network.               *)
LEMMA FrontNextInv == FrontInv /\ [FrontNext]_frontvars => FrontInv'
<1> SUFFICES ASSUME FrontInv, [FrontNext]_frontvars PROVE FrontInv'
    OBVIOUS
<1>1. CASE Type
    BY <1>1, QuietInv DEF Type, FrontInv, FrontTypeOK
<1>2. CASE SearchNothing
    BY <1>2, QuietInv DEF SearchNothing, Write, FrontInv, FrontTypeOK
<1>3. CASE Search
    BY <1>3, SearchInv
<1>4. ASSUME NEW n \in DOMAIN sent, Success(n) PROVE FrontInv'
    BY <1>4, SuccessInv
<1>5. ASSUME NEW n \in DOMAIN sent, Failure(n) PROVE FrontInv'
    BY <1>5, QuietInv DEF Failure, NoHandler, FrontInv, FrontTypeOK
<1>6. CASE UNCHANGED frontvars
    BY <1>6, QuietInv DEF frontvars, FrontInv, FrontTypeOK
<1> QED
    BY <1>1, <1>2, <1>3, <1>4, <1>5, <1>6 DEF FrontNext

(* A stale list: the newest request is in flight, has failed, or has been  *)
(* replied to, and then a pending one was replied to after it.             *)
LEMMA StaleReasons == FrontInv => StaleHasReason
<1> SUFFICES ASSUME FrontInv, page = "app", sent # <<>>, result # AnswerTo(Newest),
                    Newest \notin inflight, ~Failed(Newest)
             PROVE  Overtaken(Newest)
    BY DEF StaleHasReason
<1> USE DEF FrontInv, FrontTypeOK
<1>1. Newest \in Replied
    BY DEF Failed, Newest
<1>2. PICK i \in DOMAIN replies : replies[i] = Newest
    BY <1>1 DEF Replied
<1>3. Len(replies) \in DOMAIN replies /\ replies # <<>> /\ i <= Len(replies)
    OBVIOUS
<1>4. replies[Len(replies)] # Newest
    BY <1>3 DEF ShownIsLastReply
<1>5. replies[Len(replies)] \in pending[Newest]
    BY <1>1, <1>4 DEF LaterReply
<1>6. i < Len(replies)
    BY <1>2, <1>3, <1>4
<1> QED
    BY <1>2, <1>3, <1>5, <1>6 DEF Overtaken

(* FrontInv holds throughout. *)
LEMMA FrontInvariant == FrontSpec => []FrontInv
    BY FrontInitInv, FrontNextInv, PTL DEF FrontSpec

(* The list on the page is at all times the whole answer whose reply came  *)
(* last: BuildHtml empties it first, and no other function touches it.     *)
THEOREM LastReplyIsShown == FrontSpec => []ShownIsLastReply
    BY FrontInvariant, PTL DEF FrontInv

(* The list answers the newest search unless that is unanswered, has       *)
(* failed, or was overtaken by one that it overlapped, however many were   *)
(* made, in whatever order they were answered and however many failed.     *)
THEOREM OnlyThreeReasonsForStale == FrontSpec => []StaleHasReason
    BY FrontInvariant, StaleReasons, PTL

(* document.write comes only for an empty box or an answer without results.*)
THEOREM WrittenForNothing == FrontSpec => []PageLostForNothing
    BY FrontInvariant, PTL DEF FrontInv
=============================================================================
