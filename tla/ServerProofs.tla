---------------------------- MODULE ServerProofs ----------------------------
(***************************************************************************)
(* The three invariants of HttpServer, for any raw.txt, segmenter, stop    *)
(* words, pool and clients.  They rest on the invariants of the two parts, *)
(* IInv of Index and JiebaInv of JiebaUtil, and on                         *)
(*   OnePlace    a client waits in the queue or at a thread, once, exactly *)
(*               while its request is unanswered,                          *)
(*   BeforeListen  the main thread is alone until it listens,              *)
(*   Warm        a server with a document listens after the first call of  *)
(*               GetInstance has come back; no thread then takes the lock. *)
(***************************************************************************)
EXTENDS HttpServer, IndexProofs

JP == INSTANCE JiebaUtilProofs

PoolTypeOK ==
    /\ listening \in BOOLEAN
    /\ queue \in Seq(Client)
    /\ serving \in [Worker -> Client \cup {NoClient}]
    /\ request \in [Client -> Queries \cup {NoParam, NoRequest}]
    /\ response \in [Client -> [docs : SUBSET Nat] \cup {Hint, NoResponse}]

Waiting(c) == request[c] # NoRequest /\ response[c] = NoResponse
Queued(c) == \E i \in 1 .. Len(queue) : queue[i] = c
Served(c) == \E w \in Worker : serving[w] = c

OnePlace ==
    /\ \A i, j \in 1 .. Len(queue) : queue[i] = queue[j] => i = j
    /\ \A i \in 1 .. Len(queue), w \in Worker : serving[w] # queue[i]
    /\ \A v, w \in Worker : serving[v] # NoClient /\ serving[v] = serving[w] => v = w
    /\ \A c \in Client : Waiting(c) <=> Queued(c) \/ Served(c)
    /\ \A c \in Client : response[c] # NoResponse => request[c] # NoRequest

PoolInv == PoolTypeOK /\ OnePlace

(* A new request goes to the end of the queue.                             *)
LEMMA SendPool ==
    ASSUME PoolInv, NEW c \in Client, Send(c)
    PROVE  PoolInv'
<1> USE ServerAssumption
<1>1. PoolTypeOK /\ OnePlace
  BY DEF PoolInv
<1>2. /\ queue \in Seq(Client) /\ Len(queue) \in Nat
      /\ request \in [Client -> Queries \cup {NoParam, NoRequest}]
  BY <1>1 DEF PoolTypeOK
<1>3. /\ request[c] = NoRequest /\ queue' = Append(queue, c)
      /\ listening' = listening /\ serving' = serving /\ response' = response
  BY DEF Send
<1>4. PICK q \in Queries \cup {NoParam} : request' = [request EXCEPT ![c] = q]
  BY DEF Send
<1>5. /\ queue' \in Seq(Client) /\ Len(queue') = Len(queue) + 1
      /\ queue'[Len(queue) + 1] = c
      /\ \A i \in 1 .. Len(queue) : queue'[i] = queue[i]
  BY <1>2, <1>3
<1>6. q # NoRequest
  BY TextAssumption
<1>7. request'[c] = q /\ \A d \in Client : d # c => request'[d] = request[d]
  BY <1>2, <1>4
<1>8. PoolTypeOK'
  <2>1. request' \in [Client -> Queries \cup {NoParam, NoRequest}]
    BY <1>2, <1>4
  <2> QED
    BY <1>1, <1>3, <1>5, <2>1 DEF PoolTypeOK
<1>9. response[c] = NoResponse /\ ~Queued(c) /\ ~Served(c)
  BY <1>1, <1>3 DEF OnePlace, Waiting
<1>10. \A d \in Client : Queued(d)' <=> Queued(d) \/ d = c
  <2> SUFFICES ASSUME NEW d \in Client PROVE Queued(d)' <=> Queued(d) \/ d = c
    OBVIOUS
  <2>1. ASSUME Queued(d)' PROVE Queued(d) \/ d = c
    <3>1. PICK i \in 1 .. Len(queue') : queue'[i] = d
      BY <2>1 DEF Queued
    <3>2. i \in 1 .. Len(queue) \/ i = Len(queue) + 1
      BY <1>2, <1>5
    <3> QED
      BY <1>5, <3>1, <3>2 DEF Queued
  <2>2. ASSUME Queued(d) PROVE Queued(d)'
    <3>1. PICK i \in 1 .. Len(queue) : queue[i] = d
      BY <2>2 DEF Queued
    <3>2. i \in 1 .. Len(queue') /\ queue'[i] = d
      BY <1>2, <1>5, <3>1
    <3> QED
      BY <3>2 DEF Queued
  <2>3. ASSUME d = c PROVE Queued(d)'
    <3>1. Len(queue) + 1 \in 1 .. Len(queue')
      BY <1>2, <1>5
    <3> QED
      BY <1>5, <2>3, <3>1 DEF Queued
  <2> QED
    BY <2>1, <2>2, <2>3
<1>11. \A d : Served(d)' <=> Served(d)
  BY <1>3 DEF Served
<1>12. OnePlace'
  <2>1. ASSUME NEW i \in 1 .. Len(queue'), NEW j \in 1 .. Len(queue'), queue'[i] = queue'[j]
        PROVE  i = j
    <3>1. i \in 1 .. Len(queue) \/ i = Len(queue) + 1
      BY <1>2, <1>5
    <3>2. j \in 1 .. Len(queue) \/ j = Len(queue) + 1
      BY <1>2, <1>5
    <3>3. \A k \in 1 .. Len(queue) : queue[k] # c
      BY <1>9 DEF Queued
    <3> QED
      BY <1>1, <1>5, <2>1, <3>1, <3>2, <3>3 DEF OnePlace
  <2>2. ASSUME NEW i \in 1 .. Len(queue'), NEW w \in Worker PROVE serving[w] # queue'[i]
    <3>1. i \in 1 .. Len(queue) \/ i = Len(queue) + 1
      BY <1>2, <1>5
    <3> QED
      BY <1>1, <1>5, <1>9, <3>1 DEF OnePlace, Served
  <2>3. \A d \in Client : Waiting(d)' <=> Waiting(d) \/ d = c
    BY <1>3, <1>6, <1>7, <1>9 DEF Waiting
  <2>4. \A d \in Client : Waiting(d)' <=> Queued(d)' \/ Served(d)'
    BY <1>1, <1>10, <1>11, <2>3 DEF OnePlace
  <2>5. \A d \in Client : response'[d] # NoResponse => request'[d] # NoRequest
    BY <1>1, <1>3, <1>6, <1>7 DEF OnePlace
  <2>6. \A v, w \in Worker : serving'[v] # NoClient /\ serving'[v] = serving'[w] => v = w
    BY <1>1, <1>3 DEF OnePlace
  <2> QED
    BY <1>3, <2>1, <2>2, <2>4, <2>5, <2>6 DEF OnePlace
<1> QED
  BY <1>8, <1>12 DEF PoolInv

(* A client that was answered waits nowhere.                               *)
LEMMA ReceivePool ==
    ASSUME PoolInv, NEW c \in Client, Receive(c)
    PROVE  PoolInv'
<1> USE ServerAssumption
<1>1. PoolTypeOK /\ OnePlace
  BY DEF PoolInv
<1>2. /\ queue' = queue /\ serving' = serving /\ listening' = listening
      /\ response[c] # NoResponse
      /\ request' = [request EXCEPT ![c] = NoRequest]
      /\ response' = [response EXCEPT ![c] = NoResponse]
  BY DEF Receive
<1>3. /\ request'[c] = NoRequest /\ response'[c] = NoResponse
      /\ \A d \in Client : d # c => request'[d] = request[d] /\ response'[d] = response[d]
  BY <1>1, <1>2 DEF PoolTypeOK
<1>4. PoolTypeOK'
  <2>1. /\ request' \in [Client -> Queries \cup {NoParam, NoRequest}]
        /\ response' \in [Client -> [docs : SUBSET Nat] \cup {Hint, NoResponse}]
    BY <1>1, <1>2 DEF PoolTypeOK
  <2> QED
    BY <1>1, <1>2, <2>1 DEF PoolTypeOK
<1>5. \A d \in Client : Waiting(d)' <=> Waiting(d)
  BY <1>2, <1>3 DEF Waiting
<1>6. \A d \in Client : (Queued(d)' <=> Queued(d)) /\ (Served(d)' <=> Served(d))
  BY <1>2 DEF Queued, Served
<1>7. \A d \in Client : response'[d] # NoResponse => request'[d] # NoRequest
  BY <1>1, <1>3 DEF OnePlace
<1> QED
  BY <1>1, <1>2, <1>4, <1>5, <1>6, <1>7 DEF OnePlace, PoolInv

(* A thread takes the client at the head of the queue.                     *)
LEMMA TakePool ==
    ASSUME PoolInv, NEW w \in Worker, Take(w)
    PROVE  PoolInv'
<1> USE ServerAssumption
<1> DEFINE c == Head(queue)
<1>1. PoolTypeOK /\ OnePlace
  BY DEF PoolInv
<1>2. /\ queue \in Seq(Client) /\ Len(queue) \in Nat /\ queue # <<>>
      /\ serving \in [Worker -> Client \cup {NoClient}]
  BY <1>1 DEF PoolTypeOK, Take
<1>3. /\ serving[w] = NoClient /\ queue' = Tail(queue)
      /\ serving' = [serving EXCEPT ![w] = c]
      /\ listening' = listening /\ request' = request /\ response' = response
  BY DEF Take
<1>4. Len(queue) > 0 /\ c = queue[1] /\ c \in Client
  BY <1>2
<1>5. /\ queue' \in Seq(Client) /\ Len(queue') = Len(queue) - 1
      /\ \A i \in 1 .. Len(queue') : queue'[i] = queue[i + 1]
  BY <1>2, <1>3, <1>4
<1> HIDE DEF c
<1>6. serving'[w] = c /\ \A v \in Worker : v # w => serving'[v] = serving[v]
  BY <1>2, <1>3
<1>7. PoolTypeOK'
  <2>1. serving' \in [Worker -> Client \cup {NoClient}]
    BY <1>2, <1>3, <1>4
  <2> QED
    BY <1>1, <1>3, <1>5, <2>1 DEF PoolTypeOK
<1>8. \A i \in 1 .. Len(queue') : i + 1 \in 1 .. Len(queue) /\ i + 1 # 1
  BY <1>2, <1>5
<1>9. \A i \in 1 .. Len(queue') : queue'[i] # c
  <2> SUFFICES ASSUME NEW i \in 1 .. Len(queue') PROVE queue'[i] # c
    OBVIOUS
  <2>1. 1 \in 1 .. Len(queue)
    BY <1>2, <1>4
  <2> QED
    BY <1>1, <1>4, <1>5, <1>8, <2>1 DEF OnePlace
<1>10. \A d \in Client : Queued(d)' \/ Served(d)' <=> Queued(d) \/ Served(d)
  <2> SUFFICES ASSUME NEW d \in Client
               PROVE  Queued(d)' \/ Served(d)' <=> Queued(d) \/ Served(d)
    OBVIOUS
  <2>1. ASSUME Queued(d)' PROVE Queued(d)
    BY <1>5, <1>8, <2>1 DEF Queued
  <2>2. ASSUME Served(d)' PROVE Queued(d) \/ Served(d)
    <3>1. PICK v \in Worker : serving'[v] = d
      BY <2>2 DEF Served
    <3>2. CASE v = w
      <4>1. 1 \in 1 .. Len(queue) /\ queue[1] = d
        BY <1>2, <1>4, <1>6, <3>1, <3>2
      <4> QED
        BY <4>1 DEF Queued
    <3> QED
      BY <1>6, <3>1, <3>2 DEF Served
  <2>3. ASSUME Queued(d) PROVE Queued(d)' \/ Served(d)'
    <3>1. PICK i \in 1 .. Len(queue) : queue[i] = d
      BY <2>3 DEF Queued
    <3>2. CASE i = 1
      BY <1>4, <1>6, <3>1, <3>2 DEF Served
    <3>3. CASE i > 1
      <4>1. i - 1 \in 1 .. Len(queue') /\ (i - 1) + 1 = i
        BY <1>2, <1>5, <3>3
      <4>2. queue'[i - 1] = d
        BY <1>5, <3>1, <4>1
      <4> QED
        BY <4>1, <4>2 DEF Queued
    <3> QED
      BY <3>2, <3>3
  <2>4. ASSUME Served(d) PROVE Served(d)'
    <3>1. PICK v \in Worker : serving[v] = d
      BY <2>4 DEF Served
    <3>2. v # w
      BY <1>3, <3>1
    <3> QED
      BY <1>6, <3>1, <3>2 DEF Served
  <2> QED
    BY <2>1, <2>2, <2>3, <2>4
<1>11. OnePlace'
  <2>1. \A i, j \in 1 .. Len(queue') : queue'[i] = queue'[j] => i = j
    <3> SUFFICES ASSUME NEW i \in 1 .. Len(queue'), NEW j \in 1 .. Len(queue'),
                        queue'[i] = queue'[j]
                 PROVE  i = j
      OBVIOUS
    <3>1. i + 1 = j + 1
      BY <1>1, <1>5, <1>8 DEF OnePlace
    <3> QED
      BY <3>1
  <2>2. \A i \in 1 .. Len(queue'), v \in Worker : serving'[v] # queue'[i]
    BY <1>1, <1>5, <1>6, <1>8, <1>9 DEF OnePlace
  <2>3. \A v \in Worker : serving[v] # c
    <3>1. 1 \in 1 .. Len(queue)
      BY <1>2, <1>4
    <3> QED
      BY <1>1, <1>4, <3>1 DEF OnePlace
  <2>4. \A u, v \in Worker : serving'[u] # NoClient /\ serving'[u] = serving'[v] => u = v
    BY <1>1, <1>6, <2>3 DEF OnePlace
  <2>5. \A d \in Client : Waiting(d)' <=> Queued(d)' \/ Served(d)'
    BY <1>1, <1>3, <1>10 DEF OnePlace, Waiting
  <2>6. \A d \in Client : response'[d] # NoResponse => request'[d] # NoRequest
    BY <1>1, <1>3 DEF OnePlace
  <2> QED
    BY <2>1, <2>2, <2>4, <2>5, <2>6 DEF OnePlace
<1> QED
  BY <1>7, <1>11 DEF PoolInv

(* A reply ends the wait of the client and sets the thread free.           *)
LEMMA RespondPool ==
    ASSUME PoolInv, NEW w \in Worker, serving[w] # NoClient,
           NEW reply \in [docs : SUBSET Nat] \cup {Hint}, Respond(w, reply)
    PROVE  PoolInv'
<1> USE ServerAssumption
<1> DEFINE c == serving[w]
<1>1. PoolTypeOK /\ OnePlace
  BY DEF PoolInv
<1>2. c \in Client /\ reply # NoResponse
  BY <1>1 DEF PoolTypeOK
<1>3. /\ queue' = queue /\ request' = request /\ listening' = listening
      /\ response' = [response EXCEPT ![c] = reply]
      /\ serving' = [serving EXCEPT ![w] = NoClient]
  BY DEF Respond, SetContent
<1>4. /\ response'[c] = reply /\ \A d \in Client : d # c => response'[d] = response[d]
      /\ serving'[w] = NoClient /\ \A v \in Worker : v # w => serving'[v] = serving[v]
  BY <1>1, <1>2, <1>3 DEF PoolTypeOK
<1>5. PoolTypeOK'
  <2>1. /\ serving' \in [Worker -> Client \cup {NoClient}]
        /\ response' \in [Client -> [docs : SUBSET Nat] \cup {Hint, NoResponse}]
    BY <1>1, <1>2, <1>3 DEF PoolTypeOK
  <2> QED
    BY <1>1, <1>3, <2>1 DEF PoolTypeOK
<1>6. Served(c) /\ ~Queued(c) /\ Waiting(c)
  BY <1>1, <1>2 DEF OnePlace, Served, Queued
<1>7. \A v \in Worker : v # w => serving[v] # c
  BY <1>1 DEF OnePlace
<1>8. \A d \in Client : (Queued(d)' <=> Queued(d)) /\ (Served(d)' <=> Served(d) /\ d # c)
  <2> SUFFICES ASSUME NEW d \in Client
               PROVE  (Queued(d)' <=> Queued(d)) /\ (Served(d)' <=> Served(d) /\ d # c)
    OBVIOUS
  <2>1. Queued(d)' <=> Queued(d)
    BY <1>3 DEF Queued
  <2>2. d # NoClient
    OBVIOUS
  <2>3. Served(d)' <=> Served(d) /\ d # c
    BY <1>4, <1>7, <2>2 DEF Served
  <2> QED
    BY <2>1, <2>3
<1>9. \A d \in Client : Waiting(d)' <=> Waiting(d) /\ d # c
  BY <1>2, <1>3, <1>4 DEF Waiting
<1>10. \A d \in Client : Waiting(d)' <=> Queued(d)' \/ Served(d)'
  BY <1>1, <1>6, <1>8, <1>9 DEF OnePlace
<1>11. \A d \in Client : response'[d] # NoResponse => request'[d] # NoRequest
  BY <1>1, <1>3, <1>4, <1>6 DEF OnePlace, Waiting
<1>12. \A u, v \in Worker : serving'[u] # NoClient /\ serving'[u] = serving'[v] => u = v
  BY <1>1, <1>4 DEF OnePlace
<1>13. \A i \in 1 .. Len(queue'), v \in Worker : serving'[v] # queue'[i]
  <2>1. \A i \in 1 .. Len(queue) : queue[i] # NoClient
    BY <1>1 DEF PoolTypeOK
  <2> QED
    BY <1>1, <1>3, <1>4, <2>1 DEF OnePlace
<1> QED
  BY <1>1, <1>3, <1>5, <1>10, <1>11, <1>12, <1>13 DEF OnePlace, PoolInv

(* OnePlace, counted.                                                      *)
LEMMA PlacesCounted == PoolInv => EachRequestHasOnePlace
<1> SUFFICES ASSUME PoolInv PROVE EachRequestHasOnePlace
  OBVIOUS
<1> USE ServerAssumption
<1>1. PoolTypeOK /\ OnePlace
  BY DEF PoolInv
<1>2. queue \in Seq(Client) /\ listening \in BOOLEAN
  BY <1>1 DEF PoolTypeOK
<1>3. ASSUME NEW c \in Client
      PROVE  Cardinality({i \in DOMAIN queue : queue[i] = c})
               + Cardinality({w \in Worker : serving[w] = c})
             = IF Waiting(c) THEN 1 ELSE 0
  <2> DEFINE Q == {i \in DOMAIN queue : queue[i] = c}
             S == {w \in Worker : serving[w] = c}
  <2>1. Waiting(c) <=> Queued(c) \/ Served(c)
    BY <1>1 DEF OnePlace
  <2>2. CASE Queued(c)
    <3>1. PICK i \in 1 .. Len(queue) : queue[i] = c
      BY <2>2 DEF Queued
    <3>2. Q = {i}
      BY <1>1, <1>2, <3>1 DEF OnePlace
    <3>3. S = {}
      BY <1>1, <3>1 DEF OnePlace
    <3>4. Cardinality(Q) = 1 /\ Cardinality(S) = 0
      BY <3>2, <3>3, FS_Singleton, FS_EmptySet
    <3> QED
      BY <2>1, <2>2, <3>4
  <2>3. CASE ~Queued(c)
    <3>1. Q = {}
      BY <1>2, <2>3 DEF Queued
    <3>2. Cardinality(Q) = 0
      BY <3>1, FS_EmptySet
    <3>3. CASE Served(c)
      <4>1. PICK w \in Worker : serving[w] = c
        BY <3>3 DEF Served
      <4>2. S = {w}
        BY <1>1, <4>1 DEF OnePlace
      <4>3. Cardinality(S) = 1
        BY <4>2, FS_Singleton
      <4> QED
        BY <2>1, <3>2, <3>3, <4>3
    <3>4. CASE ~Served(c)
      <4>1. S = {}
        BY <3>4 DEF Served
      <4>2. Cardinality(S) = 0
        BY <4>1, FS_EmptySet
      <4> QED
        BY <2>1, <2>3, <3>2, <3>4, <4>2
    <3> QED
      BY <3>3, <3>4
  <2> QED
    BY <2>2, <2>3
<1> QED
  BY <1>2, <1>3 DEF EachRequestHasOnePlace, Waiting

-----------------------------------------------------------------------------
(* A word counts in a text exactly if the text is found by it.             *)
LEMMA CountedWords ==
    ASSUME NEW text \in Text, NEW stops, NEW word
    PROVE  /\ Count(text, stops, word) \in Nat
           /\ Count(text, stops, word) > 0 <=> word \in WordSet(text, stops)
<1> DEFINE cut == CutForSearch(text)
           found == {i \in DOMAIN cut : cut[i] \notin stops /\ Lower(cut[i]) = word}
<1>1. Count(text, stops, word) \in Nat
  BY CountType
<1>2. cut \in Seq(Text)
  BY CutAssumption
<1>3. IsFiniteSet(1 .. Len(cut)) /\ found \in SUBSET (1 .. Len(cut))
  BY <1>2, FS_Interval
<1>4. IsFiniteSet(found)
  BY <1>3, FS_Subset
<1>5. Count(text, stops, word) = Cardinality(found)
  BY DEF Count
<1>6. Count(text, stops, word) = 0 <=> found = {}
  BY <1>4, <1>5, FS_EmptySet
<1>7. found # {} <=> word \in WordSet(text, stops)
  BY DEF WordSet
<1> QED
  BY <1>1, <1>6, <1>7

(* Words are texts, and the documents of a word are natural numbers.       *)
LEMMA WordsAreTexts ==
    ASSUME NEW text \in Text, NEW stops
    PROVE  WordSet(text, stops) \subseteq Text
<1> SUFFICES ASSUME NEW i \in DOMAIN CutForSearch(text)
             PROVE  Lower(CutForSearch(text)[i]) \in Text
  BY DEF WordSet
<1>1. CutForSearch(text)[i] \in Text
  BY CutAssumption
<1> QED
  BY <1>1, TextAssumption

(* Whatever the stop words, doc_ids are found, and none without documents. *)
LEMMA FoundIds ==
    ASSUME IInv, bpc # "invert", NEW text \in Text, NEW stops
    PROVE  /\ Found(text, stops) \in SUBSET Nat
           /\ forward_index = <<>> => Found(text, stops) = {}
<1>1. /\ inverted_index \in [Text -> Seq(InvertedElem)] /\ forward_index \in Seq(DocInfo)
      /\ Indexed = Len(forward_index)
  BY DEF IInv, TypeOK, Indexed
<1>2. ASSUME NEW word \in WordSet(text, stops), NEW i \in DOMAIN GetInvertedList(word)
      PROVE  /\ GetInvertedList(word)[i].doc_id \in Nat
             /\ GetInvertedList(word)[i].doc_id < Len(forward_index)
  <2>1. word \in Text
    BY WordsAreTexts
  <2>2. inverted_index[word] \in Seq(InvertedElem) /\ i \in DOMAIN inverted_index[word]
    BY <1>1, <2>1 DEF GetInvertedList
  <2>3. inverted_index[word][i] \in InvertedElem
    BY <2>2
  <2>4. inverted_index[word][i].doc_id < Indexed
    BY <2>1, <2>2 DEF IInv, IndexIsInverse
  <2> QED
    BY <1>1, <2>3, <2>4 DEF GetInvertedList, InvertedElem
<1>3. ASSUME NEW word \in WordSet(text, stops)
      PROVE  DocsWith(word) \subseteq {d \in Nat : d < Len(forward_index)}
  BY <1>2 DEF DocsWith
<1>4. Found(text, stops) \subseteq {d \in Nat : d < Len(forward_index)}
  BY <1>3 DEF Found
<1>5. forward_index = <<>> => {d \in Nat : d < Len(forward_index)} = {}
  OBVIOUS
<1> QED
  BY <1>4, <1>5

(* A complete index, searched with the stop words it was built with.       *)
LEMMA FoundIsWanted ==
    ASSUME IInv, bpc = "built", ThreeFields, NEW text \in Text
    PROVE  Found(text, StopWords) = Wanted(text)
<1>1. /\ input \in Seq(Seq(Text)) /\ Len(forward_index) = Len(input)
      /\ forward_index \in Seq(DocInfo) /\ inverted_index \in [Text -> Seq(InvertedElem)]
      /\ Indexed = Len(forward_index)
  BY DEF IInv, TypeOK, Progress, Indexed
<1>2. DOMAIN input = 1 .. Len(input) /\ DOMAIN forward_index = 1 .. Len(input)
  BY <1>1
<1>3. input # NoFile
  BY <1>1, InputAssumption
<1>4. ASSUME NEW d \in 1 .. Len(input), NEW word \in Text
      PROVE  /\ Weight(forward_index[d], StopWords, word) \in Nat
             /\ Weight(forward_index[d], StopWords, word) > 0 <=>
                  word \in Words(input[d][1]) \cup Words(input[d][2])
  <2>1. forward_index[d] \in DocInfo
    BY <1>1
  <2>2. forward_index[d].title = input[d][1] /\ forward_index[d].content = input[d][2]
    BY <1>2, <1>3 DEF IInv, FieldsKept, ThreeFields
  <2>3. forward_index[d].title \in Text /\ forward_index[d].content \in Text
    BY <2>1 DEF DocInfo
  <2>4. /\ Weight(forward_index[d], StopWords, word) \in Nat
        /\ Weight(forward_index[d], StopWords, word) > 0 <=>
             Count(forward_index[d].title, StopWords, word)
               + Count(forward_index[d].content, StopWords, word) > 0
    BY <2>1, WeightType
  <2>5. /\ Count(forward_index[d].title, StopWords, word) \in Nat
        /\ Count(forward_index[d].title, StopWords, word) > 0 <=> word \in Words(input[d][1])
    BY <2>2, <2>3, CountedWords DEF Words
  <2>6. /\ Count(forward_index[d].content, StopWords, word) \in Nat
        /\ Count(forward_index[d].content, StopWords, word) > 0 <=> word \in Words(input[d][2])
    BY <2>2, <2>3, CountedWords DEF Words
  <2> QED
    BY <2>4, <2>5, <2>6
<1>5. ASSUME NEW word \in Text
      PROVE  DocsWith(word) = {d - 1 : d \in {d \in 1 .. Len(input) :
                                   word \in Words(input[d][1]) \cup Words(input[d][2])}}
  <2> DEFINE R == {d \in 1 .. Len(input) :
                     word \in Words(input[d][1]) \cup Words(input[d][2])}
             list == inverted_index[word]
  <2>1. list \in Seq(InvertedElem)
    BY <1>1
  <2>2. ASSUME NEW i \in DOMAIN list PROVE list[i].doc_id \in {d - 1 : d \in R}
    <3>1. list[i] \in InvertedElem
      BY <2>1
    <3>2. list[i].doc_id \in Nat
      BY <3>1 DEF InvertedElem
    <3>3. /\ list[i].doc_id < Indexed
          /\ Weight(forward_index[list[i].doc_id + 1], StopWords, word) > 0
      BY DEF IInv, IndexIsInverse
    <3> DEFINE d == list[i].doc_id + 1
    <3>4. d \in 1 .. Len(input) /\ list[i].doc_id = d - 1
      BY <1>1, <3>2, <3>3
    <3>5. Weight(forward_index[d], StopWords, word) > 0
      BY <3>3
    <3> HIDE DEF d
    <3>6. d \in R
      BY <1>4, <3>4, <3>5
    <3> QED
      BY <3>4, <3>6
  <2>3. ASSUME NEW d \in R PROVE \E i \in DOMAIN list : list[i].doc_id = d - 1
    <3>1. Weight(forward_index[d], StopWords, word) > 0 /\ d \in 1 .. Indexed
      BY <1>1, <1>4
    <3> QED
      BY <3>1 DEF IInv, IndexIsInverse
  <2> QED
    BY <2>2, <2>3 DEF DocsWith, GetInvertedList
<1>6. Words(text) \subseteq Text
  BY WordsAreTexts DEF Words
<1>7. Found(text, StopWords) = UNION {DocsWith(word) : word \in Words(text)}
  BY DEF Found, Words
<1> QED
  BY <1>2, <1>5, <1>6, <1>7 DEF Wanted

-----------------------------------------------------------------------------
InJieba(t) ==
    \/ Jieba!Call(t) \/ Jieba!GetInstance(t)
    \/ Jieba!CutStringHelper(t) \/ Jieba!RacyFind(t)

(* The threads of the server obey the invariant of JiebaUtil.              *)
LEMMA JiebaStep ==
    ASSUME JP!JiebaInv, (\E t \in Thread : InJieba(t)) \/ UNCHANGED jiebavars
    PROVE  JP!JiebaInv'
<1>1. NoThread \notin Thread
  BY ServerAssumption DEF Thread
<1>2. JP!JiebaNext \/ UNCHANGED jiebavars
  BY DEF InJieba,
    JP!JiebaNext, JP!Finish, JP!Call, Jieba!Call, JP!GetInstance, Jieba!GetInstance,
    JP!CutStringHelper, Jieba!CutStringHelper, JP!RacyFind, Jieba!RacyFind,
    JP!CheckInstance, Jieba!CheckInstance, JP!Lock, Jieba!Lock,
    JP!RecheckInstance, Jieba!RecheckInstance, JP!NewInstance, Jieba!NewInstance,
    JP!InsertStopWord, Jieba!InsertStopWord, JP!EndInit, Jieba!EndInit,
    JP!Unlock, Jieba!Unlock, JP!Goto, Jieba!Goto, JP!MutexFree, Jieba!MutexFree,
    JP!FoundByNow, Jieba!FoundByNow, JP!Publish, Jieba!Publish,
    JP!AllLoaded, Jieba!AllLoaded, JP!Released, Jieba!Released,
    JP!Loading, Jieba!Loading, JP!Visible, Jieba!Visible
<1> QED
  BY <1>1, <1>2, JP!NextJiebaInv DEF JP!jiebavars, jiebavars

(* The state before the first call.                                        *)
LEMMA JiebaStart == Jieba!JiebaInit => JP!JiebaInv
<1>1. NoThread \notin Thread
  BY ServerAssumption DEF Thread
<1> QED
  BY <1>1, JP!InitJiebaInv DEF JP!JiebaInit, Jieba!JiebaInit

(* What a step of one thread in CutString does to the others and to the    *)
(* instance.                                                               *)
LEMMA JiebaEffects ==
    ASSUME JP!JiebaInv, NEW t \in Thread, InJieba(t)
    PROVE  /\ \A u \in Thread : u # t => jpc'[u] = jpc[u]
           /\ instance # 0 => instance' # 0
           /\ Jieba!Call(t) => jpc[t] = "idle" /\ jpc'[t] = "check" /\ crashed' = crashed
           /\ Jieba!GetInstance(t) =>
                /\ jpc[t] \notin {"idle", "cut"} /\ jpc'[t] # "idle" /\ crashed' = crashed
                /\ instance # 0 /\ jpc[t] = "check" => jpc'[t] = "cut"
           /\ Jieba!CutStringHelper(t) =>
                jpc[t] = "cut" /\ jpc'[t] = "idle" /\ crashed' = crashed
           /\ Jieba!RacyFind(t) => jpc[t] = "cut" /\ Jieba!Loading /\ jpc' = jpc
<1>1. jpc \in [Thread -> JP!Places] /\ stop_words \in Seq(SUBSET StopWords)
  BY DEF JP!JiebaInv, JP!JiebaTypeOK
<1>2. ASSUME Jieba!GetInstance(t)
      PROVE  /\ \A u \in Thread : u # t => jpc'[u] = jpc[u]
             /\ instance # 0 => instance' # 0
             /\ jpc[t] \notin {"idle", "cut"} /\ jpc'[t] # "idle" /\ crashed' = crashed
             /\ instance # 0 /\ jpc[t] = "check" => jpc'[t] = "cut"
  BY <1>1, <1>2 DEF Jieba!GetInstance, Jieba!CheckInstance, Jieba!Lock, Jieba!RecheckInstance,
    Jieba!NewInstance, Jieba!InsertStopWord, Jieba!EndInit, Jieba!Unlock, Jieba!Goto,
    Jieba!Publish
<1>3. ASSUME Jieba!Call(t) \/ Jieba!CutStringHelper(t) \/ Jieba!RacyFind(t)
      PROVE  /\ \A u \in Thread : u # t => jpc'[u] = jpc[u]
             /\ instance' = instance
             /\ Jieba!Call(t) => jpc[t] = "idle" /\ jpc'[t] = "check" /\ crashed' = crashed
             /\ Jieba!CutStringHelper(t) =>
                  jpc[t] = "cut" /\ jpc'[t] = "idle" /\ crashed' = crashed
             /\ Jieba!RacyFind(t) => jpc[t] = "cut" /\ Jieba!Loading /\ jpc' = jpc
  BY <1>1, <1>3 DEF Jieba!Call, Jieba!CutStringHelper, Jieba!RacyFind, Jieba!Goto
<1>4. Jieba!Call(t) \/ Jieba!CutStringHelper(t) \/ Jieba!RacyFind(t) => ~Jieba!GetInstance(t)
  BY <1>2, <1>3 DEF Jieba!Call, Jieba!CutStringHelper, Jieba!RacyFind
<1> QED
  BY <1>2, <1>3, <1>4 DEF InJieba

(* While nobody loads the stop words, a cut sees them all.                 *)
LEMMA CutSeesAll ==
    ASSUME JP!JiebaInv, NEW t \in Thread, Jieba!CutStringHelper(t),
           \A u \in Thread : jpc[u] # "load"
    PROVE  seen'[t] = StopWords
<1>1. jpc[t] = "cut" /\ ~Jieba!Loading
  BY DEF Jieba!CutStringHelper, Jieba!Loading
<1>2. instance # 0
  BY <1>1 DEF JP!JiebaInv, JP!PlacesKnow
<1>3. stop_words[instance] = StopWords
  BY <1>2 DEF JP!JiebaInv, JP!SomeoneLoads
<1>4. seen' = [seen EXCEPT ![t] = StopWords]
  BY <1>1, <1>3 DEF Jieba!CutStringHelper, Jieba!Visible
<1> QED
  BY <1>4 DEF JP!JiebaInv, JP!JiebaTypeOK

(* When no thread is between lock and unlock, the mutex is free.           *)
LEMMA NobodyHolds ==
    ASSUME JP!JiebaInv, \A t \in Thread : jpc[t] \in {"idle", "check", "cut"}
    PROVE  mtx = NoThread
<1>1. mtx \in Thread => jpc[mtx] \in JP!Critical
  BY DEF JP!JiebaInv, JP!MutualExclusion
<1> QED
  BY <1>1 DEF JP!JiebaInv, JP!JiebaTypeOK, JP!Critical

-----------------------------------------------------------------------------
(* A thread is in CutString for a query of the client it serves.           *)
BusyWithQuery ==
    \A w \in Worker : jpc[w] # "idle" =>
        serving[w] # NoClient /\ request[serving[w]] \in Queries

BeforeListen ==
    /\ ~listening => /\ ~crashed /\ queue = <<>>
                     /\ \A w \in Worker : serving[w] = NoClient /\ jpc[w] = "idle"
    /\ bpc # "invert" => jpc[Main] = "idle"
    /\ listening => Initialised
    /\ bpc = "failed" => input = NoFile

Warm ==
    /\ forward_index # <<>> => bpc = "invert" \/ instance # 0
    /\ listening /\ forward_index # <<>> =>
         ~crashed /\ \A t \in Thread : jpc[t] \in {"idle", "check", "cut"}

ServerInv ==
    IInv /\ JP!JiebaInv /\ PoolInv /\ BusyWithQuery /\ BeforeListen /\ Warm

(* main has not begun.                                                     *)
LEMMA ServerInitInv == ServerInit => ServerInv
<1> SUFFICES ASSUME ServerInit PROVE ServerInv
  OBVIOUS
<1> USE ServerAssumption DEF ServerInit
<1>1. IInv /\ JP!JiebaInv
  BY InitIInv, JiebaStart
<1>2. PoolInv
  <2>1. PoolTypeOK
    <3>1. queue \in Seq(Client) /\ serving \in [Worker -> Client \cup {NoClient}]
      OBVIOUS
    <3>2. /\ request \in [Client -> Queries \cup {NoParam, NoRequest}]
          /\ response \in [Client -> [docs : SUBSET Nat] \cup {Hint, NoResponse}]
      OBVIOUS
    <3> QED
      BY <3>1, <3>2 DEF PoolTypeOK
  <2>2. Len(queue) = 0 /\ \A c \in Client : ~Served(c) /\ ~Waiting(c) /\ response[c] = NoResponse
    BY DEF Served, Waiting
  <2>3. 1 .. Len(queue) = {} /\ \A w \in Worker : serving[w] = NoClient
    BY <2>2
  <2>4. OnePlace
    BY <2>2, <2>3 DEF OnePlace, Queued
  <2> QED
    BY <2>1, <2>4 DEF PoolInv
<1>3. \A t \in Thread : jpc[t] = "idle"
  BY DEF Jieba!JiebaInit
<1>4. Main \in Thread /\ Worker \subseteq Thread
  BY DEF Thread
<1>5. BusyWithQuery /\ BeforeListen /\ Warm
  BY <1>3, <1>4 DEF BusyWithQuery, BeforeListen, Warm, Jieba!JiebaInit, Init
<1> QED
  BY <1>1, <1>2, <1>5 DEF ServerInv

(* The main thread builds the index, alone.                                *)
LEMMA MainInv ==
    ASSUME ServerInv, InitSearcher
    PROVE  ServerInv' /\ input' = input
<1> USE ServerAssumption
<1>1. IInv /\ JP!JiebaInv /\ PoolInv /\ BusyWithQuery /\ BeforeListen /\ Warm
  BY DEF ServerInv
<1>2. ~listening /\ UNCHANGED poolvars
  BY DEF InitSearcher
<1>3. Main \in Thread /\ Worker \subseteq Thread /\ Main \notin Worker
  BY DEF Thread
<1>4. PoolInv'
  BY <1>1, <1>2 DEF PoolInv, PoolTypeOK, OnePlace, Waiting, Queued, Served, poolvars
<1>5. ~crashed /\ \A w \in Worker : jpc[w] = "idle"
  BY <1>1, <1>2 DEF BeforeListen
<1>6. CASE bpc # "invert" /\ BuildIndex /\ UNCHANGED jiebavars
  <2>1. IInv' /\ JP!JiebaInv'
    BY <1>1, <1>6, NextIInv, JiebaStep
  <2>2. /\ input' = input
        /\ bpc' = "failed" => input = NoFile
        /\ forward_index' = forward_index \/ bpc' = "invert"
    BY <1>1, <1>6 DEF BuildIndex, OpenInput, BuildForwardIndex, ReadPastFields,
       BuildInvertedIndex, InvertBut, EndOfInput, BeforeListen
  <2>3. BusyWithQuery' /\ BeforeListen' /\ Warm'
    BY <1>1, <1>2, <1>5, <1>6, <2>2
    DEF BusyWithQuery, BeforeListen, Warm, jiebavars, poolvars
  <2> QED
    BY <1>4, <2>1, <2>2, <2>3 DEF ServerInv
<1>7. CASE /\ \/ bpc = "invert" /\ Jieba!Call(Main)
              \/ Jieba!GetInstance(Main)
           /\ UNCHANGED vars
  <2>1. InJieba(Main)
    BY <1>7 DEF InJieba
  <2>2. IInv' /\ JP!JiebaInv'
    BY <1>1, <1>3, <1>7, <2>1, NextIInv, JiebaStep
  <2>3. bpc = "invert"
    BY <1>1, <1>3, <1>7, <2>1, JiebaEffects DEF BeforeListen
  <2>4. crashed' = crashed /\ \A w \in Worker : jpc'[w] = "idle"
    BY <1>1, <1>3, <1>5, <1>7, <2>1, JiebaEffects
  <2>5. BusyWithQuery' /\ BeforeListen' /\ Warm'
    BY <1>1, <1>2, <1>5, <1>7, <2>3, <2>4
    DEF BusyWithQuery, BeforeListen, Warm, vars, poolvars
  <2> QED
    BY <1>4, <1>7, <2>2, <2>5 DEF ServerInv, vars
<1>8. CASE Jieba!CutStringHelper(Main) /\ InvertBut(seen'[Main])
  <2>1. InJieba(Main)
    BY <1>8 DEF InJieba
  <2>2. /\ crashed' = crashed /\ jpc[Main] = "cut" /\ jpc'[Main] = "idle"
        /\ \A w \in Worker : jpc'[w] = "idle"
    BY <1>1, <1>3, <1>5, <1>8, <2>1, JiebaEffects
  <2>3. \A t \in Thread : jpc[t] # "load"
    BY <1>5, <2>2 DEF Thread
  <2>4. seen'[Main] = StopWords
    BY <1>1, <1>3, <1>8, <2>3, CutSeesAll
  <2>5. BuildIndex
    BY <1>8, <2>4 DEF BuildIndex, BuildInvertedIndex
  <2>6. IInv' /\ JP!JiebaInv'
    BY <1>1, <1>3, <2>1, <2>5, NextIInv, JiebaStep
  <2>7. bpc' = "getline" /\ input' = input /\ forward_index' = forward_index
    BY <1>8 DEF InvertBut
  <2>8. instance # 0
    BY <1>1, <1>3, <2>2 DEF JP!JiebaInv, JP!PlacesKnow
  <2>9. instance' # 0
    BY <1>1, <1>3, <2>1, <2>8, JiebaEffects
  <2>10. BusyWithQuery' /\ BeforeListen' /\ Warm'
    BY <1>1, <1>2, <1>5, <2>2, <2>7, <2>9
    DEF BusyWithQuery, BeforeListen, Warm, poolvars
  <2> QED
    BY <1>4, <2>6, <2>7, <2>10 DEF ServerInv
<1> QED
  BY <1>6, <1>7, <1>8 DEF InitSearcher

(* From now on all threads of the pool may run; none of them is in the     *)
(* lock, and none will be if there is a document.                          *)
LEMMA ListenInv ==
    ASSUME ServerInv, Listen
    PROVE  ServerInv' /\ input' = input
<1>1. IInv /\ JP!JiebaInv /\ PoolInv /\ BusyWithQuery /\ BeforeListen /\ Warm
  BY DEF ServerInv
<1>2. /\ ~listening /\ listening' = TRUE /\ bpc \in {"built", "failed"}
      /\ UNCHANGED <<vars, jiebavars, queue, serving, request, response>>
  BY DEF Listen, Initialised
<1>3. IInv' /\ JP!JiebaInv'
  BY <1>1, <1>2, NextIInv, JiebaStep
<1>4. PoolInv'
  BY <1>1, <1>2 DEF PoolInv, PoolTypeOK, OnePlace, Waiting, Queued, Served
<1>5. BusyWithQuery' /\ BeforeListen'
  BY <1>1, <1>2 DEF BusyWithQuery, BeforeListen, Initialised, vars, jiebavars
<1>6. \A t \in Thread : jpc[t] = "idle"
  BY <1>1, <1>2 DEF BeforeListen, Thread
<1>7. Warm'
  BY <1>1, <1>2, <1>6 DEF Warm, BeforeListen, vars, jiebavars
<1> QED
  BY <1>2, <1>3, <1>4, <1>5, <1>7 DEF ServerInv, vars

(* Steps of the clients, and of a thread that takes one from the queue.    *)
LEMMA ClientInv ==
    ASSUME ServerInv,
           \/ \E c \in Client : Send(c) \/ Receive(c)
           \/ \E w \in Worker : Take(w)
    PROVE  ServerInv' /\ input' = input
<1> USE ServerAssumption
<1>1. IInv /\ JP!JiebaInv /\ PoolInv /\ BusyWithQuery /\ BeforeListen /\ Warm
  BY DEF ServerInv
<1>2. UNCHANGED <<vars, jiebavars, listening>>
  BY DEF Send, Receive, Take
<1>3. IInv' /\ JP!JiebaInv'
  BY <1>1, <1>2, NextIInv, JiebaStep
<1>4. PoolInv'
  BY <1>1, SendPool, ReceivePool, TakePool
<1>5. Warm'
  BY <1>1, <1>2 DEF Warm, vars, jiebavars
<1>6. listening \/ (queue' = queue /\ serving' = serving)
  BY <1>1 DEF Send, Receive, Take, BeforeListen
<1>7. BeforeListen'
  BY <1>1, <1>2, <1>6 DEF BeforeListen, Initialised, vars, jiebavars
<1>8. BusyWithQuery'
  <2> SUFFICES ASSUME NEW w \in Worker, jpc[w] # "idle"
               PROVE  serving'[w] # NoClient /\ request'[serving'[w]] \in Queries
    BY <1>2 DEF BusyWithQuery, jiebavars
  <2> DEFINE d == serving[w]
  <2>1. d # NoClient /\ request[d] \in Queries
    BY <1>1 DEF BusyWithQuery
  <2>2. /\ serving \in [Worker -> Client \cup {NoClient}]
        /\ request \in [Client -> Queries \cup {NoParam, NoRequest}]
    BY <1>1 DEF PoolInv, PoolTypeOK
  <2>3. d \in Client /\ Waiting(d)
    BY <1>1, <2>1, <2>2 DEF PoolInv, OnePlace, Served
  <2>4. ASSUME NEW c \in Client, Send(c) \/ Receive(c)
        PROVE  serving'[w] = d /\ request'[d] = request[d]
    <3>1. serving' = serving /\ \E q : request' = [request EXCEPT ![c] = q]
      BY <2>4 DEF Send, Receive
    <3>2. c # d
      BY <2>3, <2>4 DEF Send, Receive, Waiting
    <3> QED
      BY <2>2, <2>3, <3>1, <3>2
  <2>5. ASSUME NEW v \in Worker, Take(v)
        PROVE  serving'[w] = d /\ request'[d] = request[d]
    <3>1. v # w
      BY <2>1, <2>5 DEF Take
    <3> QED
      BY <2>2, <2>5, <3>1 DEF Take
  <2> QED
    BY <2>1, <2>4, <2>5
<1> QED
  BY <1>2, <1>3, <1>4, <1>5, <1>7, <1>8 DEF ServerInv, vars

(* A thread of the pool in its handler.                                    *)
LEMMA HandlerInv ==
    ASSUME ServerInv, NEW w \in Worker, Handle(w) \/ Die(w)
    PROVE  ServerInv' /\ input' = input
<1> USE ServerAssumption
<1>1. IInv /\ JP!JiebaInv /\ PoolInv /\ BusyWithQuery /\ BeforeListen /\ Warm
  BY DEF ServerInv
<1>2. /\ UNCHANGED <<vars, listening, queue, request>>
      /\ \/ AskForWord(w) \/ BeginSearch(w) \/ GetJieba(w) \/ SearchAndRespond(w) \/ Die(w)
  BY DEF Handle, AskForWord, BeginSearch, GetJieba, SearchAndRespond, Die, Respond, poolvars
<1>3. w \in Thread /\ Main \in Thread /\ w # Main
  BY DEF Thread
<1>4. /\ BeginSearch(w) \/ GetJieba(w) \/ SearchAndRespond(w) \/ Die(w) => InJieba(w)
      /\ AskForWord(w) => UNCHANGED jiebavars
  BY DEF BeginSearch, GetJieba, SearchAndRespond, Die, AskForWord, InJieba
<1>5. IInv' /\ JP!JiebaInv'
  BY <1>1, <1>2, <1>3, <1>4, NextIInv, JiebaStep
<1>6. /\ \A u \in Thread : u # w => jpc'[u] = jpc[u]
      /\ instance # 0 => instance' # 0
  BY <1>1, <1>2, <1>3, <1>4, JiebaEffects DEF jiebavars
<1>7. /\ BeginSearch(w) => jpc'[w] = "check" /\ crashed' = crashed
      /\ GetJieba(w) => /\ jpc[w] \notin {"idle", "cut"} /\ crashed' = crashed
                        /\ instance # 0 /\ jpc[w] = "check" => jpc'[w] = "cut"
      /\ SearchAndRespond(w) => jpc[w] = "cut" /\ jpc'[w] = "idle" /\ crashed' = crashed
      /\ Die(w) => jpc[w] = "cut" /\ Jieba!Loading /\ jpc' = jpc
  BY <1>1, <1>3, <1>4, JiebaEffects DEF BeginSearch, GetJieba, SearchAndRespond, Die
<1>8. listening
  <2>1. serving[w] # NoClient \/ jpc[w] # "idle"
    BY <1>2, <1>7 DEF AskForWord, BeginSearch
  <2> QED
    BY <1>1, <2>1 DEF BeforeListen
<1>9. serving[w] # NoClient
  BY <1>1, <1>2, <1>7 DEF AskForWord, BeginSearch, BusyWithQuery
<1>10. /\ serving \in [Worker -> Client \cup {NoClient}]
       /\ request \in [Client -> Queries \cup {NoParam, NoRequest}]
  BY <1>1 DEF PoolInv, PoolTypeOK
<1>11. PoolInv'
  <2>1. CASE AskForWord(w)
    BY <1>1, <1>9, <2>1, RespondPool DEF AskForWord
  <2>2. CASE SearchAndRespond(w)
    <3>1. request[serving[w]] \in Text
      BY <1>1, <1>7, <2>2 DEF BusyWithQuery
    <3>2. bpc # "invert"
      BY <1>1, <1>8 DEF BeforeListen, Initialised
    <3>3. Found(request[serving[w]], seen'[w]) \in SUBSET Nat
      BY <1>1, <3>1, <3>2, FoundIds
    <3>4. Json(Found(request[serving[w]], seen'[w])) \in [docs : SUBSET Nat] \cup {Hint}
      BY <3>3 DEF Json
    <3> QED
      BY <1>1, <1>9, <2>2, <3>4, RespondPool DEF SearchAndRespond
  <2>3. CASE BeginSearch(w) \/ GetJieba(w) \/ Die(w)
    <3>1. UNCHANGED poolvars
      BY <2>3 DEF BeginSearch, GetJieba, Die
    <3> QED
      BY <1>1, <3>1 DEF PoolInv, PoolTypeOK, OnePlace, Waiting, Queued, Served, poolvars
  <2> QED
    BY <1>2, <2>1, <2>2, <2>3
<1>12. BusyWithQuery'
  <2> SUFFICES ASSUME NEW u \in Worker, jpc'[u] # "idle"
               PROVE  serving'[u] # NoClient /\ request[serving'[u]] \in Queries
    BY <1>2 DEF BusyWithQuery
  <2>1. CASE u # w
    <3>1. jpc[u] # "idle"
      BY <1>6, <2>1 DEF Thread
    <3>2. serving'[u] = serving[u]
      BY <1>2, <1>10, <2>1
      DEF AskForWord, BeginSearch, GetJieba, SearchAndRespond, Die, Respond, poolvars
    <3> QED
      BY <1>1, <3>1, <3>2 DEF BusyWithQuery
  <2>2. CASE u = w
    <3>1. ~SearchAndRespond(w)
      BY <1>7, <2>2
    <3>2. ~AskForWord(w)
      <4>1. AskForWord(w) => jpc[w] # "idle" /\ request[serving[w]] = NoParam
        BY <2>2 DEF AskForWord, jiebavars
      <4> QED
        BY <1>1, <4>1 DEF BusyWithQuery
    <3>3. serving' = serving
      BY <1>2, <3>1, <3>2 DEF BeginSearch, GetJieba, Die, poolvars
    <3>4. CASE BeginSearch(w)
      <4>1. serving[w] \in Client /\ request[serving[w]] # NoParam
        BY <1>9, <1>10, <3>4 DEF BeginSearch
      <4>2. request[serving[w]] # NoRequest
        BY <1>1, <4>1 DEF PoolInv, OnePlace, Served, Waiting
      <4> QED
        BY <1>9, <1>10, <2>2, <3>3, <4>1, <4>2
    <3>5. CASE GetJieba(w) \/ Die(w)
      BY <1>1, <1>7, <2>2, <3>3, <3>5 DEF BusyWithQuery
    <3> QED
      BY <1>2, <3>1, <3>2, <3>4, <3>5
  <2> QED
    BY <2>1, <2>2
<1>13. BeforeListen'
  BY <1>1, <1>2, <1>3, <1>6, <1>8 DEF BeforeListen, Initialised, vars
<1>14. Warm'
  <2> SUFFICES ASSUME forward_index # <<>>
               PROVE  /\ instance' # 0 /\ ~crashed'
                      /\ \A t \in Thread : jpc'[t] \in {"idle", "check", "cut"}
    BY <1>2, <1>8 DEF Warm, vars
  <2>1. /\ instance # 0 /\ ~crashed
        /\ \A t \in Thread : jpc[t] \in {"idle", "check", "cut"}
    BY <1>1, <1>8 DEF Warm, BeforeListen, Initialised
  <2>2. ~Die(w)
    BY <1>7, <2>1 DEF Jieba!Loading
  <2>3. jpc'[w] \in {"idle", "check", "cut"} /\ ~crashed'
    BY <1>2, <1>3, <1>4, <1>7, <2>1, <2>2 DEF jiebavars
  <2> QED
    BY <1>6, <2>1, <2>3
<1> QED
  BY <1>2, <1>5, <1>11, <1>12, <1>13, <1>14 DEF ServerInv, vars

(* Every step of the server.                                               *)
LEMMA ServerNextInv ==
    ServerInv /\ [ServerNext]_servervars => ServerInv' /\ input' = input
<1> SUFFICES ASSUME ServerInv, [ServerNext]_servervars PROVE ServerInv' /\ input' = input
  OBVIOUS
<1>1. CASE ServerNext
  BY <1>1, MainInv, ListenInv, ClientInv, HandlerInv DEF ServerNext
<1>2. CASE UNCHANGED servervars
  <2>1. IInv' /\ JP!JiebaInv'
    BY <1>2, NextIInv, JiebaStep DEF ServerInv, servervars
  <2>2. PoolInv'
    BY <1>2 DEF ServerInv, servervars, PoolInv, PoolTypeOK, OnePlace, Waiting, Queued,
       Served, poolvars
  <2>3. BusyWithQuery' /\ BeforeListen' /\ Warm'
    BY <1>2 DEF ServerInv, servervars, BusyWithQuery, BeforeListen, Warm, Initialised,
       vars, jiebavars, poolvars
  <2> QED
    BY <1>2, <2>1, <2>2, <2>3 DEF ServerInv, servervars, vars
<1> QED
  BY <1>1, <1>2

(* ServerInv holds throughout.                                             *)
LEMMA ServerInvariant == ServerSpec => []ServerInv
<1>1. ServerInv /\ [ServerNext]_servervars => ServerInv'
  BY ServerNextInv
<1> QED
  BY <1>1, ServerInitInv, PTL DEF ServerSpec

(* No thread reads the stop words before they are complete, or there is no *)
(* document to be found with them.                                         *)
LEMMA RightAnswer ==
    ASSUME ServerInv, ThreeFields, NEW w \in Worker, SearchAndRespond(w)
    PROVE  Found(request[serving[w]], seen'[w])
             = IF input = NoFile THEN {} ELSE Wanted(request[serving[w]])
<1> USE ServerAssumption
<1>1. IInv /\ JP!JiebaInv /\ BusyWithQuery /\ BeforeListen /\ Warm
  BY DEF ServerInv
<1>2. w \in Thread /\ Jieba!CutStringHelper(w) /\ InJieba(w)
  BY DEF Thread, SearchAndRespond, InJieba
<1>3. jpc[w] = "cut"
  BY <1>1, <1>2, JiebaEffects
<1>4. /\ request[serving[w]] \in Text /\ listening
      /\ bpc \in {"built", "failed"} /\ (bpc = "failed" => input = NoFile)
  BY <1>1, <1>3 DEF BusyWithQuery, BeforeListen, Initialised
<1>5. forward_index \in Seq(DocInfo) /\ line = Len(forward_index)
  BY <1>1 DEF IInv, TypeOK, Progress
<1>6. CASE forward_index = <<>>
  <2>1. Found(request[serving[w]], seen'[w]) = {} /\ Found(request[serving[w]], StopWords) = {}
    BY <1>1, <1>4, <1>6, FoundIds
  <2>2. bpc = "built" => Wanted(request[serving[w]]) = {}
    BY <1>1, <1>4, <2>1, FoundIsWanted
  <2>3. input # NoFile => Wanted(request[serving[w]]) = {}
    BY <1>4, <2>2
  <2> QED
    BY <2>1, <2>3
<1>7. CASE forward_index # <<>>
  <2>1. \A t \in Thread : jpc[t] # "load"
    BY <1>1, <1>4, <1>7 DEF Warm
  <2>2. seen'[w] = StopWords
    BY <1>1, <1>2, <2>1, CutSeesAll
  <2>3. bpc = "built" /\ input # NoFile
    <3>1. line # 0
      BY <1>5, <1>7
    <3>2. bpc = "built"
      BY <1>1, <1>4, <3>1 DEF IInv, Progress
    <3> QED
      BY <1>1, <3>2, InputAssumption DEF IInv, Progress
  <2> QED
    BY <1>1, <1>4, <2>2, <2>3, FoundIsWanted
<1> QED
  BY <1>6, <1>7

AnswerInv == ThreeFields /\ AnswersAreComplete

(* Only SearchAndRespond writes an answer, and no step alters one.         *)
LEMMA AnswersNext ==
    ASSUME ServerInv, AnswerInv, [ServerNext]_servervars
    PROVE  AnswerInv'
<1> USE ServerAssumption
<1>1. PoolTypeOK /\ OnePlace /\ ThreeFields /\ AnswersAreComplete
  BY DEF ServerInv, PoolInv, AnswerInv
<1>2. input' = input
  BY ServerNextInv
<1>3. ThreeFields'
  BY <1>1, <1>2 DEF ThreeFields
<1> DEFINE Answer(c) == Json(IF input = NoFile THEN {} ELSE Wanted(request[c]))
<1>4. SUFFICES ASSUME NEW c \in Client, response'[c] \notin {NoResponse, Hint}
               PROVE  response'[c] = Json(IF input = NoFile THEN {} ELSE Wanted(request'[c]))
  BY <1>2, <1>3 DEF AnswerInv, AnswersAreComplete, Wanted
<1>5. response[c] \notin {NoResponse, Hint} => response[c] = Answer(c) /\ request[c] # NoRequest
  BY <1>1 DEF AnswersAreComplete, OnePlace
<1>6. /\ response \in [Client -> [docs : SUBSET Nat] \cup {Hint, NoResponse}]
      /\ request \in [Client -> Queries \cup {NoParam, NoRequest}]
      /\ serving \in [Worker -> Client \cup {NoClient}]
  BY <1>1 DEF PoolTypeOK
<1> HIDE DEF Answer
<1>7. CASE response'[c] = response[c] /\ request'[c] = request[c]
  BY <1>4, <1>5, <1>7 DEF Answer
<1>8. ASSUME NEW d \in Client, Send(d) PROVE request'[c] = request[c] /\ response'[c] = response[c]
  <2>1. d # c
    BY <1>4, <1>5, <1>8 DEF Send
  <2> QED
    BY <1>6, <1>8, <2>1 DEF Send
<1>9. ASSUME NEW d \in Client, Receive(d) PROVE request'[c] = request[c] /\ response'[c] = response[c]
  <2>1. d # c
    BY <1>4, <1>6, <1>9 DEF Receive
  <2> QED
    BY <1>6, <1>9, <2>1 DEF Receive
<1>10. ASSUME NEW w \in Worker, AskForWord(w)
       PROVE  request'[c] = request[c] /\ response'[c] = response[c]
  <2>1. request' = request /\ response' = [response EXCEPT ![serving[w]] = Hint]
    BY <1>10 DEF AskForWord, Respond, SetContent
  <2>2. serving[w] # c
    BY <1>4, <1>6, <2>1
  <2> QED
    BY <1>6, <2>1, <2>2
<1>11. ASSUME NEW w \in Worker, SearchAndRespond(w)
       PROVE  response'[c] = Json(IF input = NoFile THEN {} ELSE Wanted(request'[c]))
  <2>1. /\ request' = request
        /\ response' = [response EXCEPT ![serving[w]] =
                          Json(Found(request[serving[w]], seen'[w]))]
    BY <1>11 DEF SearchAndRespond, Respond, SetContent
  <2>2. CASE serving[w] = c
    BY <1>1, <1>6, <1>11, <2>1, <2>2, RightAnswer
  <2>3. CASE serving[w] # c
    BY <1>6, <1>7, <2>1, <2>3
  <2> QED
    BY <2>2, <2>3
<1>12. ASSUME InitSearcher \/ Listen \/ UNCHANGED servervars
              \/ \E w \in Worker : Take(w) \/ BeginSearch(w) \/ GetJieba(w) \/ Die(w)
       PROVE  request' = request /\ response' = response
  BY <1>12 DEF InitSearcher, Listen, servervars, poolvars, Take, BeginSearch, GetJieba, Die
<1> QED
  BY <1>7, <1>8, <1>9, <1>10, <1>11, <1>12 DEF ServerNext, Handle

-----------------------------------------------------------------------------
(* A client waits in the queue or at one thread of the pool, exactly while *)
(* its request is unanswered: no request is lost, served twice or answered *)
(* by two threads.                                                         *)
THEOREM RequestsHaveOnePlace == ServerSpec => []EachRequestHasOnePlace
<1>1. ServerInv => EachRequestHasOnePlace
  BY PlacesCounted DEF ServerInv
<1> QED
  BY <1>1, ServerInvariant, PTL

(* A server with a document cannot meet the race of JiebaUtil: the main    *)
(* thread has made the first call before it listens.                       *)
THEOREM WarmBeforeListen == ServerSpec => []WarmServer
<1>1. ServerInv => WarmServer
  <2> SUFFICES ASSUME ServerInv, forward_index # <<>>
               PROVE  /\ ~crashed
                      /\ listening => /\ instance # 0 /\ mtx = NoThread
                                      /\ stop_words[instance] = StopWords
    BY DEF WarmServer
  <2>1. JP!JiebaInv /\ BeforeListen /\ Warm
    BY DEF ServerInv
  <2>2. ~crashed
    BY <2>1 DEF BeforeListen, Warm
  <2>3. ASSUME listening
        PROVE  /\ instance # 0 /\ mtx = NoThread
               /\ stop_words[instance] = StopWords
    <3>1. instance # 0 /\ \A t \in Thread : jpc[t] \in {"idle", "check", "cut"}
      BY <2>1, <2>3 DEF BeforeListen, Warm, Initialised
    <3>2. mtx = NoThread
      BY <2>1, <3>1, NobodyHolds
    <3>3. stop_words[instance] = StopWords
      BY <2>1, <3>1 DEF JP!JiebaInv, JP!SomeoneLoads
    <3> QED
      BY <3>1, <3>2, <3>3
  <2> QED
    BY <2>2, <2>3
<1> QED
  BY <1>1, ServerInvariant, PTL

(* If every line of raw.txt has its three fields, an answer names exactly  *)
(* the documents that have a word of the query: none comes from a part of  *)
(* the index or from other stop words than the documents were cut with,    *)
(* however the threads interleave.                                         *)
THEOREM CompleteAnswers == ThreeFields /\ ServerSpec => []AnswersAreComplete
<1>1. ThreeFields /\ ServerInit => AnswerInv
  BY DEF AnswerInv, AnswersAreComplete, ServerInit
<1>2. ServerInv /\ AnswerInv /\ [ServerNext]_servervars => AnswerInv'
  BY AnswersNext
<1>3. AnswerInv => AnswersAreComplete
  BY DEF AnswerInv
<1> QED
  BY <1>1, <1>2, <1>3, ServerInvariant, PTL DEF ServerSpec
=============================================================================
