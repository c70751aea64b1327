--------------------------- MODULE JiebaUtilProofs ---------------------------
(* The safety of GetInstance for every set of threads and stop words.      *)
EXTENDS JiebaUtil, TLAPS

(* What each place in CutString knows of the instance, and who answers for *)
(* an instance that is not loaded yet.                                     *)
PlacesKnow ==
    /\ \A t \in Thread : jpc[t] = "new" => instance = 0
    /\ \A t \in Thread : jpc[t] \in {"load", "unlock", "cut"} => instance # 0

SomeoneLoads ==
    instance # 0 /\ stop_words[instance] # StopWords =>
      \E t \in Thread : jpc[t] = "load"

JiebaInv == JiebaTypeOK /\ MutualExclusion /\ OneInstance /\ PlacesKnow /\ SomeoneLoads

(* Before the first call: no object, the mutex free (util.hpp:118-120).     *)
LEMMA InitJiebaInv == JiebaInit => JiebaInv
<1> SUFFICES ASSUME JiebaInit PROVE JiebaInv
  OBVIOUS
<1> USE DEF JiebaInit
<1>1. JiebaTypeOK
  <2>1. stop_words \in Seq(SUBSET StopWords) /\ instance \in 0 .. Len(stop_words)
    OBVIOUS
  <2>2. jpc \in [Thread -> Places] /\ seen \in [Thread -> SUBSET StopWords]
    BY DEF Places
  <2> QED
    BY <2>1, <2>2 DEF JiebaTypeOK
<1>2. MutualExclusion
  BY ThreadAssumption DEF MutualExclusion, Critical
<1>3. OneInstance /\ PlacesKnow /\ SomeoneLoads
  BY DEF OneInstance, PlacesKnow, SomeoneLoads
<1> QED
  BY <1>1, <1>2, <1>3 DEF JiebaInv

(* Steps that leave the object and the mutex alone and stay on their side  *)
(* of the lock.                                                            *)
LEMMA LocalStep ==
    ASSUME JiebaInv, NEW t \in Thread,
           Call(t) \/ CheckInstance(t) \/ RecheckInstance(t) \/ CutStringHelper(t) \/ RacyFind(t)
    PROVE  JiebaInv'
<1> USE DEF JiebaInv, JiebaTypeOK, Goto, Call, CheckInstance, RecheckInstance, FoundByNow,
            CutStringHelper, RacyFind
<1>1. JiebaTypeOK'
  <2>1. CASE CutStringHelper(t)
    <3>1. stop_words[instance] \in SUBSET StopWords
      BY <2>1 DEF PlacesKnow, OneInstance
    <3>2. Visible(stop_words[instance]) \subseteq SUBSET StopWords
      BY <3>1 DEF Visible
    <3> QED
      BY <2>1, <3>2 DEF Places
  <2>2. CASE ~CutStringHelper(t)
    BY <2>2 DEF Places
  <2> QED
    BY <2>1, <2>2
<1>2. MutualExclusion'
  BY DEF MutualExclusion, Critical
<1>3. OneInstance'
  BY DEF OneInstance
<1>4. PlacesKnow'
  BY DEF PlacesKnow, MutualExclusion, Critical
<1>5. SomeoneLoads'
  <2> SUFFICES ASSUME instance # 0, stop_words[instance] # StopWords
               PROVE  \E u \in Thread : jpc'[u] = "load"
    BY DEF SomeoneLoads
  <2>1. PICK u \in Thread : jpc[u] = "load"
    BY DEF SomeoneLoads
  <2>2. u # t
    BY <2>1
  <2> QED
    BY <2>1, <2>2
<1> QED
  BY <1>1, <1>2, <1>3, <1>4, <1>5

(* lock() is granted to one thread, while no other is inside (util.hpp:67). *)
LEMMA LockStep ==
    ASSUME JiebaInv, NEW t \in Thread, Lock(t)
    PROVE  JiebaInv'
<1> USE DEF JiebaInv, JiebaTypeOK, Goto, Lock, MutexFree
<1>1. JiebaTypeOK'
  BY DEF Places
<1>2. MutualExclusion'
  BY ThreadAssumption DEF MutualExclusion, Critical
<1>3. OneInstance' /\ PlacesKnow'
  BY DEF OneInstance, PlacesKnow
<1>4. SomeoneLoads'
  BY DEF SomeoneLoads
<1> QED
  BY <1>1, <1>2, <1>3, <1>4

(* The creator holds the mutex, so no other thread is between the recheck  *)
(* and the end of InitJiebaUtil.                                           *)
LEMMA NewStep ==
    ASSUME JiebaInv, NEW t \in Thread, NewInstance(t)
    PROVE  JiebaInv'
<1> USE DEF JiebaInv, JiebaTypeOK, Goto, NewInstance, Publish
<1>1. instance = 0 /\ stop_words = <<>>
  BY DEF PlacesKnow, OneInstance
<1>2. stop_words' = <<{}>> /\ instance' = 1
  BY <1>1
<1>3. JiebaTypeOK'
  BY <1>2 DEF Places
<1>4. MutualExclusion'
  BY DEF MutualExclusion, Critical
<1>5. OneInstance'
  BY <1>2 DEF OneInstance
<1>6. PlacesKnow'
  BY <1>2 DEF PlacesKnow, MutualExclusion, Critical
<1>7. SomeoneLoads'
  BY DEF SomeoneLoads
<1> QED
  BY <1>3, <1>4, <1>5, <1>6, <1>7

(* InitJiebaUtil fills the map of the one object (util.hpp:76-92).          *)
LEMMA LoadStep ==
    ASSUME JiebaInv, NEW t \in Thread, InsertStopWord(t) \/ EndInit(t)
    PROVE  JiebaInv'
<1> USE DEF JiebaInv, JiebaTypeOK, Goto, InsertStopWord, EndInit, AllLoaded
<1>1. instance = 1 /\ Len(stop_words) = 1
  BY DEF PlacesKnow, OneInstance
<1>2. JiebaTypeOK' /\ OneInstance'
  <2>1. CASE InsertStopWord(t)
    <3>1. PICK word \in StopWords :
            stop_words' = [stop_words EXCEPT ![instance] = @ \cup {word}]
      BY <2>1
    <3>2. stop_words[instance] \cup {word} \in SUBSET StopWords
      BY <1>1
    <3>3. stop_words' \in Seq(SUBSET StopWords) /\ Len(stop_words') = 1
      BY <1>1, <3>1, <3>2
    <3> QED
      BY <1>1, <2>1, <3>3 DEF OneInstance
  <2>2. CASE EndInit(t)
    BY <1>1, <2>2 DEF OneInstance, Places
  <2> QED
    BY <2>1, <2>2
<1>3. MutualExclusion'
  BY DEF MutualExclusion, Critical
<1>4. PlacesKnow'
  BY <1>1 DEF PlacesKnow, MutualExclusion, Critical
<1>5. SomeoneLoads'
  BY DEF SomeoneLoads
<1> QED
  BY <1>2, <1>3, <1>4, <1>5

(* unlock() comes after InitJiebaUtil, so a free mutex means a loaded map   *)
(* (util.hpp:70-72).                                                       *)
LEMMA UnlockStep ==
    ASSUME JiebaInv, NEW t \in Thread, Unlock(t)
    PROVE  JiebaInv'
<1> USE DEF JiebaInv, JiebaTypeOK, Goto, Unlock, Released
<1>1. JiebaTypeOK' /\ OneInstance'
  BY DEF Places, OneInstance
<1>2. MutualExclusion'
  BY ThreadAssumption DEF MutualExclusion, Critical
<1>3. PlacesKnow'
  BY DEF PlacesKnow
<1>4. SomeoneLoads'
  BY DEF SomeoneLoads, MutualExclusion, Critical
<1> QED
  BY <1>1, <1>2, <1>3, <1>4

(* Every step of a thread in CutString preserves the invariant.             *)
LEMMA NextJiebaInv == JiebaInv /\ [JiebaNext]_jiebavars => JiebaInv'
<1> SUFFICES ASSUME JiebaInv, [JiebaNext]_jiebavars PROVE JiebaInv'
  OBVIOUS
<1>1. ASSUME NEW t \in Thread, Call(t) \/ Finish(t) \/ RacyFind(t)
      PROVE  JiebaInv'
  BY <1>1, LocalStep, LockStep, NewStep, LoadStep, UnlockStep DEF Finish, GetInstance
<1>2. CASE UNCHANGED jiebavars
  BY <1>2 DEF JiebaInv, JiebaTypeOK, MutualExclusion, OneInstance, PlacesKnow,
              SomeoneLoads, jiebavars
<1> QED
  BY <1>1, <1>2 DEF JiebaNext

(* The inductive invariant of GetInstance (util.hpp:63-74): mutual          *)
(* exclusion, one object, and a loader for an object not loaded yet.       *)
THEOREM JiebaInvariant == JiebaSpec => []JiebaInv
  BY InitJiebaInv, NextJiebaInv, PTL DEF JiebaSpec

(* A pointer that is not nullptr is an object that was created, and what a *)
(* cut finds in its map are stop words.                                    *)
THEOREM JiebaTypes == JiebaSpec => []JiebaTypeOK
<1>1. JiebaInv => JiebaTypeOK
  BY DEF JiebaInv
<1> QED
  BY <1>1, JiebaInvariant, PTL

(* One thread at most is between lock() and unlock() in GetInstance        *)
(* (util.hpp:67-72), for any number of threads.                            *)
THEOREM LockIsExclusive == JiebaSpec => []MutualExclusion
<1>1. JiebaInv => MutualExclusion
  BY DEF JiebaInv
<1> QED
  BY <1>1, JiebaInvariant, PTL

(* However many threads race in GetInstance, one JiebaUtil is created.     *)
THEOREM SingletonIsSingle == JiebaSpec => []OneInstance
<1>1. JiebaInv => OneInstance
  BY DEF JiebaInv
<1> QED
  BY <1>1, JiebaInvariant, PTL

(* A free mutex and a published instance mean a loaded one.                *)
LEMMA FreeMeansReady ==
    ASSUME JiebaInv, instance # 0, mtx = NoThread
    PROVE  ~Loading /\ stop_words[instance] = StopWords
<1>1. \A t \in Thread : jpc[t] # "load"
  BY ThreadAssumption DEF JiebaInv, MutualExclusion, Critical
<1> QED
  BY <1>1 DEF JiebaInv, SomeoneLoads, Loading

(* While the mutex is free a published instance holds every stop word       *)
(* (util.hpp:69-72).                                                       *)
THEOREM FreeIsReady == JiebaSpec => []ReadyWhenFree
<1>1. JiebaInv => ReadyWhenFree
  BY FreeMeansReady DEF ReadyWhenFree
<1> QED
  BY <1>1, JiebaInvariant, PTL

(* After the first call no cut misses a stop word and no find is racy:     *)
(* what line 69 publishes too early harms only calls that overlap the      *)
(* first.                                                                  *)
THEOREM WarmCallsAreSafe == JiebaSpec => WarmCutsSeeAll
<1> DEFINE Warm == instance # 0 /\ mtx = NoThread =>
                      /\ crashed' = crashed
                      /\ \A t \in Thread : seen'[t] # seen[t] => seen'[t] = StopWords
<1>1. JiebaInv /\ [JiebaNext]_jiebavars => [Warm]_jiebavars
  <2> SUFFICES ASSUME JiebaInv, JiebaNext, instance # 0, mtx = NoThread
               PROVE  /\ crashed' = crashed
                      /\ \A u \in Thread : seen'[u] # seen[u] => seen'[u] = StopWords
    BY DEF Warm
  <2>1. ~Loading /\ stop_words[instance] = StopWords
    BY FreeMeansReady
  <2>2. PICK t \in Thread : Call(t) \/ Finish(t) \/ RacyFind(t)
    BY DEF JiebaNext
  <2>3. CASE CutStringHelper(t)
    <3>1. crashed' = crashed /\ seen' = [seen EXCEPT ![t] = StopWords]
      BY <2>1, <2>3 DEF CutStringHelper, Visible
    <3> QED
      BY <3>1 DEF JiebaInv, JiebaTypeOK
  <2>4. CASE ~CutStringHelper(t)
    BY <2>1, <2>2, <2>4
    DEF Finish, GetInstance, Call, CheckInstance, Lock, RecheckInstance, NewInstance,
        Publish, InsertStopWord, EndInit, Unlock, RacyFind
  <2> QED
    BY <2>3, <2>4
<1> QED
  BY <1>1, JiebaInvariant, PTL DEF JiebaSpec, WarmCutsSeeAll
=============================================================================
