--------------------------- MODULE SearcherProofs ---------------------------
(***************************************************************************)
(* What is proved of Searcher, alone and under the debug console: every    *)
(* document it merges exists, Index and Searcher together answer as a scan *)
(* of the documents would, and the console searches the lines as typed.    *)
(*                                                                         *)
(* The invariant follows Search through its loop: with what is left of the *)
(* list being merged, tokens_map holds for every document what a scan for  *)
(* the words looked up so far would count (Balance), and describes it by   *)
(* the first of these words that the document has (FirstWord).             *)
(***************************************************************************)
EXTENDS DebugConsole, IndexProofs, RawFileProofs

(* What CutString leaves of a text are texts.                              *)
LEMMA CutIs ==
    ASSUME NEW text \in Text
    PROVE  /\ CutForSearch(text) \in Seq(Text)
           /\ Spared(text, StopWords) \in SUBSET (1 .. Len(CutForSearch(text)))
           /\ CutString(text, StopWords) \in Seq(Text)
           /\ Tokens(text, StopWords) \in Seq(Text)
           /\ Len(Tokens(text, StopWords)) = Len(CutString(text, StopWords))
           /\ \A i \in 1 .. Len(Tokens(text, StopWords)) :
                Tokens(text, StopWords)[i] = Lower(CutString(text, StopWords)[i])
<1> DEFINE cut == CutString(text, StopWords)
<1>1. CutForSearch(text) \in Seq(Text)
  BY CutAssumption
<1>2. Spared(text, StopWords) \in SUBSET (1 .. Len(CutForSearch(text)))
  BY <1>1 DEF Spared
<1>3. cut \in Seq(Text)
  BY <1>1, <1>2, SelectedIs DEF CutString
<1> HIDE DEF cut
<1>4. \A i \in 1 .. Len(cut) : cut[i] \in Text /\ Lower(cut[i]) \in Text
  BY <1>3, TextAssumption
<1>5. Tokens(text, StopWords) = [i \in 1 .. Len(cut) |-> Lower(cut[i])]
  BY <1>3 DEF Tokens, cut
<1>6. Tokens(text, StopWords) \in Seq(Text) /\ Len(Tokens(text, StopWords)) = Len(cut)
  BY <1>3, <1>4, <1>5
<1> QED
  BY <1>1, <1>2, <1>3, <1>5, <1>6 DEF cut

(* Where a word stands among the tokens of a text.                         *)
Places(text, word) ==
    {n \in 1 .. Len(Tokens(text, StopWords)) : Tokens(text, StopWords)[n] = word}

(* The counter of word_map counts these places: erasing the stop words     *)
(* first or skipping them when counting comes to the same.                 *)
LEMMA CountIsPlaces ==
    ASSUME NEW text \in Text, NEW word
    PROVE  /\ IsFiniteSet(Places(text, word))
           /\ Count(text, StopWords, word) = Cardinality(Places(text, word))
<1> DEFINE cut == CutForSearch(text)
           spared == Spared(text, StopWords)
           counted == {i \in DOMAIN cut : cut[i] \notin StopWords /\ Lower(cut[i]) = word}
           f == [n \in Places(text, word) |-> Nth(spared, n)]
<1>1. /\ cut \in Seq(Text) /\ spared \in SUBSET (1 .. Len(cut))
      /\ CutString(text, StopWords) = Selected(cut, spared)
      /\ CutString(text, StopWords) \in Seq(Text)
  BY CutIs DEF CutString
<1>2. /\ spared \in SUBSET Nat /\ IsFiniteSet(spared) /\ Cardinality(spared) \in Nat
      /\ Len(CutString(text, StopWords)) = Cardinality(spared)
      /\ \A n \in 1 .. Cardinality(spared) :
           /\ Nth(spared, n) \in spared
           /\ CutString(text, StopWords)[n] = cut[Nth(spared, n)]
  BY <1>1, SelectedIs
<1>3. \A n \in 1 .. Cardinality(spared) :
         n \in Places(text, word) <=> Lower(cut[Nth(spared, n)]) = word
  BY <1>2, CutIs DEF Places
<1>4. Places(text, word) \in SUBSET (1 .. Cardinality(spared))
  BY <1>2, CutIs DEF Places
<1>5. IsFiniteSet(Places(text, word))
  <2>1. IsFiniteSet(1 .. Cardinality(spared))
    BY <1>2, FS_Interval
  <2> QED
    BY <1>4, <2>1, FS_Subset
<1>6. f \in [Places(text, word) -> counted]
  <2>1. ASSUME NEW n \in Places(text, word) PROVE Nth(spared, n) \in counted
    <3>1. Nth(spared, n) \in spared /\ Lower(cut[Nth(spared, n)]) = word
      BY <1>2, <1>3, <1>4
    <3> QED
      BY <3>1 DEF Spared
  <2> QED
    BY <2>1
<1>7. ASSUME NEW m \in Places(text, word), NEW n \in Places(text, word), f[m] = f[n]
      PROVE  m = n
  <2>1. m \in 1 .. Cardinality(spared) /\ n \in 1 .. Cardinality(spared)
    BY <1>4
  <2>2. Nth(spared, m) = Nth(spared, n)
    BY <1>7
  <2>3. Nth(spared, m) \in spared
    BY <1>2, <2>1
  <2>4. ~(Nth(spared, m) < Nth(spared, n)) /\ ~(Nth(spared, n) < Nth(spared, m))
    BY <1>2, <2>2, <2>3
  <2>5. ~(m < n) /\ ~(n < m)
    BY <1>2, <2>1, <2>4, NthAscends
  <2> QED
    BY <2>1, <2>5
<1>8. ASSUME NEW i \in counted PROVE \E n \in Places(text, word) : f[n] = i
  <2>1. i \in spared
    BY DEF Spared
  <2>2. PICK n \in 1 .. Cardinality(spared) : Nth(spared, n) = i
    BY <1>2, <2>1, NthRank
  <2>3. n \in Places(text, word)
    BY <1>3, <2>2
  <2> QED
    BY <2>2, <2>3
<1>9. Cardinality(counted) = Cardinality(Places(text, word))
  <2> HIDE DEF f, counted
  <2> QED
    BY <1>5, <1>6, <1>7, <1>8, SameSize
<1> QED
  BY <1>5, <1>9 DEF Count

-----------------------------------------------------------------------------
(* SearchSpec counts and cuts as Searcher does.                            *)
LEMMA SameCardinality == \A S : Scan!Cardinality(S) = Cardinality(S)
  BY DEF Scan!Cardinality, Cardinality

LEMMA SameTokens == \A text : Scan!Tokens(text, StopWords) = Tokens(text, StopWords)
<1>1. \A set, n : Scan!Nth(set, n) = Nth(set, n)
  BY SameCardinality DEF Scan!Nth, Nth
<1>2. \A seq, places : Scan!Selected(seq, places) = Selected(seq, places)
  BY <1>1, SameCardinality DEF Scan!Selected, Selected
<1>3. \A text : Scan!CutString(text, StopWords) = CutString(text, StopWords)
  BY <1>2 DEF Scan!CutString, CutString, Scan!Spared, Spared
<1> QED
  BY <1>3 DEF Scan!Tokens, Tokens, Scan!Lower, Lower

(* Where the query and a text have the same word.                          *)
LEMMA MatchesAre ==
    ASSUME NEW text \in Text, NEW toks \in Seq(Text)
    PROVE  Scan!Matches(toks, text)
             = {p \in (1 .. Len(toks)) \X (1 .. Len(Tokens(text, StopWords))) :
                  Tokens(text, StopWords)[p[2]] = toks[p[1]]}
<1>1. Scan!Tokens(text, StopWords) = Tokens(text, StopWords)
  BY SameTokens
<1>2. DOMAIN toks = 1 .. Len(toks)
  OBVIOUS
<1>3. DOMAIN Tokens(text, StopWords) = 1 .. Len(Tokens(text, StopWords))
  BY CutIs
<1> QED
  BY <1>1, <1>2, <1>3 DEF Scan!Matches

(* A word more in the query: as many pairs more as places with that word.  *)
LEMMA MatchStep ==
    ASSUME NEW text \in Text, NEW toks \in Seq(Text), NEW n \in 0 .. Len(toks) - 1,
           IsFiniteSet(Scan!Matches(SubSeq(toks, 1, n), text))
    PROVE  /\ IsFiniteSet(Scan!Matches(SubSeq(toks, 1, n + 1), text))
           /\ Cardinality(Scan!Matches(SubSeq(toks, 1, n + 1), text))
                = Cardinality(Scan!Matches(SubSeq(toks, 1, n), text))
                    + Count(text, StopWords, toks[n + 1])
<1> DEFINE old == Scan!Matches(SubSeq(toks, 1, n), text)
           places == Places(text, toks[n + 1])
           new == {n + 1} \X places
           f == [p \in places |-> <<n + 1, p>>]
<1>1. /\ SubSeq(toks, 1, n) \in Seq(Text) /\ Len(SubSeq(toks, 1, n)) = n
      /\ \A i \in 1 .. n : SubSeq(toks, 1, n)[i] = toks[i]
  OBVIOUS
<1>2. /\ SubSeq(toks, 1, n + 1) \in Seq(Text) /\ Len(SubSeq(toks, 1, n + 1)) = n + 1
      /\ \A i \in 1 .. n + 1 : SubSeq(toks, 1, n + 1)[i] = toks[i]
  OBVIOUS
<1> DEFINE len == Len(Tokens(text, StopWords))
           pairs(k) == {p \in (1 .. k) \X (1 .. len) :
                          Tokens(text, StopWords)[p[2]] = toks[p[1]]}
<1>3. old = pairs(n)
  <2>1. old = {p \in (1 .. n) \X (1 .. len) :
                 Tokens(text, StopWords)[p[2]] = SubSeq(toks, 1, n)[p[1]]}
    BY <1>1, MatchesAre
  <2>2. \A p \in (1 .. n) \X (1 .. len) : SubSeq(toks, 1, n)[p[1]] = toks[p[1]]
    BY <1>1
  <2> QED
    BY <2>1, <2>2
<1>4. Scan!Matches(SubSeq(toks, 1, n + 1), text) = pairs(n + 1)
  <2>1. Scan!Matches(SubSeq(toks, 1, n + 1), text)
          = {p \in (1 .. n + 1) \X (1 .. len) :
               Tokens(text, StopWords)[p[2]] = SubSeq(toks, 1, n + 1)[p[1]]}
    BY <1>2, MatchesAre
  <2>2. \A p \in (1 .. n + 1) \X (1 .. len) : SubSeq(toks, 1, n + 1)[p[1]] = toks[p[1]]
    BY <1>2
  <2> QED
    BY <2>1, <2>2
<1>5. pairs(n + 1) = pairs(n) \cup new
  <2>1. \A i : i \in 1 .. n + 1 <=> i \in 1 .. n \/ i = n + 1
    OBVIOUS
  <2>2. new = {p \in {n + 1} \X (1 .. len) : Tokens(text, StopWords)[p[2]] = toks[p[1]]}
    BY DEF Places
  <2>3. (1 .. n + 1) \X (1 .. len) = ((1 .. n) \X (1 .. len)) \cup ({n + 1} \X (1 .. len))
    BY <2>1
  <2> QED
    BY <2>2, <2>3
<1>6. IsFiniteSet(new) /\ Cardinality(new) = Count(text, StopWords, toks[n + 1])
  <2>1. toks[n + 1] \in Text
    OBVIOUS
  <2>2. IsFiniteSet(places) /\ Count(text, StopWords, toks[n + 1]) = Cardinality(places)
    BY <2>1, CountIsPlaces
  <2>3. f \in [places -> new]
    OBVIOUS
  <2>4. \A a, b \in places : f[a] = f[b] => a = b
    OBVIOUS
  <2>5. \A t \in new : \E p \in places : f[p] = t
    OBVIOUS
  <2> HIDE DEF places, new, f
  <2> QED
    BY <2>2, <2>3, <2>4, <2>5, SameSize
<1>7. old \cap new = {}
  <2>1. \A p \in pairs(n) : p[1] \in 1 .. n
    OBVIOUS
  <2>2. \A p \in new : p[1] = n + 1
    OBVIOUS
  <2>3. n + 1 \notin 1 .. n
    OBVIOUS
  <2> QED
    BY <1>3, <2>1, <2>2, <2>3
<1> HIDE DEF old, new
<1>8. IsFiniteSet(old)
  BY DEF old
<1>9. /\ IsFiniteSet(old \cup new)
      /\ Cardinality(old \cup new) = Cardinality(old) + Cardinality(new) - Cardinality({})
  BY <1>6, <1>7, <1>8, FS_Union
<1>10. Cardinality(old) \in Nat /\ Cardinality(new) \in Nat /\ Cardinality({}) = 0
  BY <1>6, <1>8, FS_CardinalityType, FS_EmptySet
<1>11. Cardinality(old \cup new) = Cardinality(old) + Cardinality(new)
  BY <1>9, <1>10
<1>12. Scan!Matches(SubSeq(toks, 1, n + 1), text) = old \cup new
  BY <1>3, <1>4, <1>5
<1> QED
  BY <1>6, <1>9, <1>11, <1>12 DEF old

(* The pairs are finitely many.                                            *)
LEMMA MatchesFinite ==
    ASSUME NEW text \in Text, NEW toks \in Seq(Text)
    PROVE  /\ IsFiniteSet(Scan!Matches(toks, text))
           /\ Cardinality(Scan!Matches(toks, text)) \in Nat
<1> DEFINE all == (1 .. Len(toks)) \X (1 .. Len(Tokens(text, StopWords)))
<1>1. Len(toks) \in Nat /\ Len(Tokens(text, StopWords)) \in Nat
  BY CutIs
<1>2. IsFiniteSet(1 .. Len(toks)) /\ IsFiniteSet(1 .. Len(Tokens(text, StopWords)))
  BY <1>1, FS_Interval
<1>3. IsFiniteSet(all)
  BY <1>2, FS_Product
<1>4. Scan!Matches(toks, text) \in SUBSET all
  BY MatchesAre
<1> QED
  BY <1>3, <1>4, FS_Subset, FS_CardinalityType

(* What a document scores when it is scanned for words.                    *)
DocScore(doc, toks) ==
    10 * Cardinality(Scan!Matches(toks, doc.title))
      + Cardinality(Scan!Matches(toks, doc.content))

(* Each word adds the weight that the inverted index holds for it.         *)
LEMMA ScoreStep ==
    ASSUME NEW doc \in DocInfo, NEW toks \in Seq(Text), NEW n \in 0 .. Len(toks) - 1
    PROVE  /\ DocScore(doc, SubSeq(toks, 1, n)) \in Nat
           /\ Weight(doc, StopWords, toks[n + 1]) \in Nat
           /\ DocScore(doc, SubSeq(toks, 1, n + 1))
                = DocScore(doc, SubSeq(toks, 1, n)) + Weight(doc, StopWords, toks[n + 1])
<1>1. doc.title \in Text /\ doc.content \in Text
  BY DEF DocInfo
<1>2. SubSeq(toks, 1, n) \in Seq(Text) /\ SubSeq(toks, 1, n + 1) \in Seq(Text)
  OBVIOUS
<1> DEFINE m(text, k) == Cardinality(Scan!Matches(SubSeq(toks, 1, k), text))
           c(text) == Count(text, StopWords, toks[n + 1])
<1>3. ASSUME NEW text \in Text
      PROVE  m(text, n + 1) = m(text, n) + c(text) /\ m(text, n) \in Nat /\ c(text) \in Nat
  BY <1>2, MatchStep, MatchesFinite, CountType
<1>4. DocScore(doc, SubSeq(toks, 1, n + 1)) = 10 * m(doc.title, n + 1) + m(doc.content, n + 1)
  BY DEF DocScore
<1>5. DocScore(doc, SubSeq(toks, 1, n)) = 10 * m(doc.title, n) + m(doc.content, n)
  BY DEF DocScore
<1>6. Weight(doc, StopWords, toks[n + 1]) = 10 * c(doc.title) + c(doc.content)
  <2>1. c(doc.content) \in Nat
    BY <1>1, <1>3
  <2> QED
    BY <2>1 DEF Weight, X, Y
<1> DEFINE a == m(doc.title, n)
           b == m(doc.content, n)
           d == c(doc.title)
           e == c(doc.content)
<1>7. /\ a \in Nat /\ b \in Nat /\ d \in Nat /\ e \in Nat
      /\ m(doc.title, n + 1) = a + d /\ m(doc.content, n + 1) = b + e
  BY <1>1, <1>3
<1> HIDE DEF a, b, d, e
<1>8. /\ DocScore(doc, SubSeq(toks, 1, n + 1)) = 10 * (a + d) + (b + e)
      /\ DocScore(doc, SubSeq(toks, 1, n)) = 10 * a + b
      /\ Weight(doc, StopWords, toks[n + 1]) = 10 * d + e
  BY <1>4, <1>5, <1>6, <1>7 DEF a, b, d, e
<1> QED
  BY <1>7, <1>8

(* Nothing is scored without words.                                        *)
LEMMA ScoreOfNone ==
    ASSUME NEW doc \in DocInfo
    PROVE  DocScore(doc, <<>>) = 0
<1>1. doc.title \in Text /\ doc.content \in Text /\ <<>> \in Seq(Text) /\ Len(<<>>) = 0
  BY DEF DocInfo
<1>2. ASSUME NEW text \in Text, NEW toks \in Seq(Text), Len(toks) = 0
      PROVE  Scan!Matches(toks, text) = {}
  <2>1. 1 .. Len(toks) = {}
    BY <1>2
  <2> QED
    BY <2>1, MatchesAre
<1>3. Cardinality({}) = 0
  BY FS_EmptySet
<1>4. /\ Cardinality(Scan!Matches(<<>>, doc.title)) = 0
      /\ Cardinality(Scan!Matches(<<>>, doc.content)) = 0
  BY <1>1, <1>2, <1>3
<1> QED
  BY <1>4 DEF DocScore

(* A document that has a word of the query scores.                         *)
LEMMA ScoreOfSome ==
    ASSUME NEW doc \in DocInfo, NEW toks \in Seq(Text), NEW i \in 1 .. Len(toks),
           Weight(doc, StopWords, toks[i]) > 0
    PROVE  DocScore(doc, toks) > 0
<1>1. doc.title \in Text /\ doc.content \in Text /\ toks[i] \in Text
  BY DEF DocInfo
<1>2. ASSUME NEW text \in Text, Count(text, StopWords, toks[i]) > 0
      PROVE  Cardinality(Scan!Matches(toks, text)) > 0
  <2>1. Places(text, toks[i]) # {}
    BY <1>1, <1>2, CountIsPlaces, FS_EmptySet
  <2>2. PICK n \in Places(text, toks[i]) : TRUE
    BY <2>1
  <2>3. <<i, n>> \in Scan!Matches(toks, text)
    BY <1>1, MatchesAre DEF Places
  <2> QED
    BY <2>3, MatchesFinite, FS_EmptySet
<1>3. /\ Count(doc.title, StopWords, toks[i]) \in Nat
      /\ Count(doc.content, StopWords, toks[i]) \in Nat
      /\ Count(doc.title, StopWords, toks[i]) + Count(doc.content, StopWords, toks[i]) > 0
  BY <1>1, CountType, WeightType
<1>4. /\ Cardinality(Scan!Matches(toks, doc.title)) \in Nat
      /\ Cardinality(Scan!Matches(toks, doc.content)) \in Nat
  BY <1>1, MatchesFinite
<1>5. \/ Cardinality(Scan!Matches(toks, doc.title)) > 0
      \/ Cardinality(Scan!Matches(toks, doc.content)) > 0
  BY <1>1, <1>2, <1>3
<1> QED
  BY <1>4, <1>5 DEF DocScore

-----------------------------------------------------------------------------
(* The words of the query, as searched, and how many are looked up.        *)
Cut == CutString(query, StopWords)
Toks == Tokens(query, StopWords)
Done == Len(Toks) - Len(words)

(* What tokens_map holds for document d, and what the rest of the list     *)
(* that is being merged will add.                                          *)
Held(d) == IF d - 1 \in DOMAIN tokens_map THEN tokens_map[d - 1].weight ELSE 0

Pending(d) ==
    IF \E i \in DOMAIN elems : elems[i].doc_id = d - 1
    THEN Weight(forward_index[d], StopWords, Toks[Done]) ELSE 0

SearchTypeOK ==
    /\ query \in Queries \cup {NoQuery}
    /\ words \in Seq(Text) /\ elems \in Seq(InvertedElem)
    /\ \A id \in DOMAIN tokens_map :
         /\ id \in 0 .. Len(forward_index) - 1
         /\ tokens_map[id].weight \in Nat
         /\ tokens_map[id].words \in Seq(Text)

(* Between searches nothing is left to do, and nothing is found before the *)
(* index is there.                                                         *)
Idle ==
    /\ query = NoQuery => words = <<>> /\ elems = <<>>
    /\ query # NoQuery => Initialised
    /\ ~Initialised => DOMAIN tokens_map = {}
    /\ bpc = "failed" => input = NoFile

(* Each merged document has a word, and each word a weight.                *)
ItemsHaveWords ==
    \A id \in DOMAIN tokens_map :
       /\ Len(tokens_map[id].words) > 0
       /\ tokens_map[id].weight >= Len(tokens_map[id].words)

(* The words to come are the rest of the query.                            *)
Rest == Len(words) <= Len(Toks) /\ words = SubSeq(Cut, Done + 1, Len(Cut))

(* The elements to come are part of the list of the last word.             *)
ElemsMatch ==
    /\ elems # <<>> => Done > 0
    /\ \A i \in 1 .. Len(elems) :
         /\ elems[i].doc_id < Len(forward_index)
         /\ elems[i].word = Toks[Done]
         /\ elems[i].weight = Weight(forward_index[elems[i].doc_id + 1], StopWords, Toks[Done])
         /\ elems[i].weight > 0
    /\ \A i, j \in 1 .. Len(elems) : i < j => elems[i].doc_id < elems[j].doc_id

(* With what is pending, a document has what it scores for the words       *)
(* looked up.                                                              *)
Balance ==
    \A d \in 1 .. Len(forward_index) :
       Held(d) + Pending(d) = DocScore(forward_index[d], SubSeq(Toks, 1, Done))

(* The first word merged is the first of the query that the document has.  *)
FirstWord ==
    \A id \in DOMAIN tokens_map :
       \E j \in 1 .. Done :
          /\ tokens_map[id].words[1] = Toks[j]
          /\ Weight(forward_index[id + 1], StopWords, Toks[j]) > 0
          /\ \A i \in 1 .. j - 1 : Weight(forward_index[id + 1], StopWords, Toks[i]) = 0

Searching == query # NoQuery => Rest /\ ElemsMatch /\ Balance /\ FirstWord

SearchInv == IInv /\ SearchTypeOK /\ Idle /\ ItemsHaveWords /\ Searching

(* The invariant holds before the index is built.                          *)
LEMMA SearcherInitInv == SearcherInit => SearchInv
<1> SUFFICES ASSUME SearcherInit PROVE SearchInv
  OBVIOUS
<1>1. /\ Init /\ query = NoQuery /\ words = <<>> /\ elems = <<>> /\ tokens_map = <<>>
      /\ bpc = "open"
  BY DEF SearcherInit, Init
<1>2. IInv
  BY <1>1, InitIInv
<1>3. DOMAIN tokens_map = {}
  BY <1>1
<1>4. SearchTypeOK
  BY <1>1, <1>3 DEF SearchTypeOK
<1>5. Idle
  BY <1>1, <1>3 DEF Idle, Initialised
<1>6. ItemsHaveWords /\ Searching
  BY <1>1, <1>3 DEF ItemsHaveWords, Searching
<1> QED
  BY <1>2, <1>4, <1>5, <1>6 DEF SearchInv

(* While the index is built nobody searches.                               *)
LEMMA BuildSearchInv ==
    ASSUME SearchInv, InitSearcher
    PROVE  SearchInv' /\ input' = input
<1>1. /\ IInv /\ SearchTypeOK /\ Idle
      /\ BuildIndex /\ UNCHANGED <<query, words, elems, tokens_map>>
  BY DEF SearchInv, InitSearcher, searchvars
<1>2. ~Initialised /\ input' = input
  BY <1>1 DEF BuildIndex, OpenInput, BuildForwardIndex, ReadPastFields, BuildInvertedIndex,
              InvertBut, EndOfInput, Initialised
<1>3. query = NoQuery /\ words = <<>> /\ elems = <<>> /\ DOMAIN tokens_map = {}
  BY <1>1, <1>2 DEF Idle
<1>4. IInv'
  BY <1>1, NextIInv
<1>5. bpc' = "failed" => input' = NoFile
  BY <1>1, <1>2 DEF BuildIndex, OpenInput, BuildForwardIndex, ReadPastFields,
                    BuildInvertedIndex, InvertBut, EndOfInput
<1>6. SearchTypeOK'
  BY <1>1, <1>3 DEF SearchTypeOK
<1>7. Idle'
  BY <1>1, <1>3, <1>5 DEF Idle
<1>8. ItemsHaveWords' /\ Searching'
  BY <1>1, <1>3 DEF ItemsHaveWords, Searching
<1> QED
  BY <1>2, <1>4, <1>6, <1>7, <1>8 DEF SearchInv

(* The rest of a sequence: its first element and the rest after it.        *)
LEMMA SuffixIs ==
    ASSUME NEW S, NEW seq \in Seq(S), NEW n \in 1 .. Len(seq), NEW rest,
           rest = SubSeq(seq, n, Len(seq))
    PROVE  /\ Head(rest) = seq[n] /\ Tail(rest) = SubSeq(seq, n + 1, Len(seq))
           /\ Len(Tail(rest)) = Len(rest) - 1
<1>1. /\ Head(rest) = seq[n] /\ Tail(rest) = SubSeq(seq, n + 1, Len(seq))
  <2>1. Len(seq) \in n .. Len(seq)
    OBVIOUS
  <2> QED
    BY <2>1, HeadTailOfSubSeq
<1>2. Len(rest) = Len(seq) - n + 1 /\ Len(seq) \in Nat
  <2>1. \A i \in n .. Len(seq) : seq[i] \in S
    OBVIOUS
  <2>2. Len(rest) = IF n <= Len(seq) THEN Len(seq) - n + 1 ELSE 0
    BY <2>1, SubSeqProperties
  <2> QED
    BY <2>2
<1>3. Len(SubSeq(seq, n + 1, Len(seq))) = Len(seq) - n
  <2>1. \A i \in n + 1 .. Len(seq) : seq[i] \in S
    OBVIOUS
  <2>2. Len(SubSeq(seq, n + 1, Len(seq)))
          = IF n + 1 <= Len(seq) THEN Len(seq) - (n + 1) + 1 ELSE 0
    BY <2>1, SubSeqProperties
  <2> QED
    BY <1>2, <2>2
<1>4. Len(Tail(rest)) = Len(seq) - n
  BY <1>1, <1>3, Zenon
<1>5. Len(Tail(rest)) = Len(rest) - 1
  BY <1>2, <1>4
<1> QED
  BY <1>1, <1>5

(* What is known of a search in progress.                                  *)
LEMMA InSearch ==
    ASSUME SearchInv, query # NoQuery
    PROVE  /\ query \in Text /\ Cut \in Seq(Text) /\ Toks \in Seq(Text)
           /\ Len(Cut) = Len(Toks) /\ Len(Toks) \in Nat
           /\ \A i \in 1 .. Len(Toks) : Toks[i] = Lower(Cut[i])
           /\ words \in Seq(Text) /\ elems \in Seq(InvertedElem)
           /\ Len(words) \in Nat /\ Done \in 0 .. Len(Toks)
           /\ words = SubSeq(Cut, Done + 1, Len(Cut))
           /\ forward_index \in Seq(DocInfo) /\ Len(forward_index) \in Nat
           /\ Indexed = Len(forward_index)
           /\ Rest /\ ElemsMatch /\ Balance /\ FirstWord
<1>1. SearchTypeOK /\ Idle /\ Rest /\ ElemsMatch /\ Balance /\ FirstWord
  BY DEF SearchInv, Searching
<1>2. query \in Text
  BY <1>1, QueryAssumption DEF SearchTypeOK
<1>3. /\ Cut \in Seq(Text) /\ Toks \in Seq(Text) /\ Len(Cut) = Len(Toks)
      /\ \A i \in 1 .. Len(Toks) : Toks[i] = Lower(Cut[i])
  BY <1>2, CutIs DEF Cut, Toks
<1>4. words \in Seq(Text) /\ elems \in Seq(InvertedElem)
  BY <1>1 DEF SearchTypeOK
<1>5. Len(words) \in Nat /\ Len(Toks) \in Nat /\ Done \in 0 .. Len(Toks)
  BY <1>1, <1>3, <1>4 DEF Rest, Done
<1>6. forward_index \in Seq(DocInfo) /\ Len(forward_index) \in Nat
  BY DEF SearchInv, IInv, TypeOK
<1>7. Indexed = Len(forward_index)
  BY <1>1 DEF Idle, Initialised, Indexed
<1> QED
  BY <1>1, <1>2, <1>3, <1>4, <1>5, <1>6, <1>7 DEF Rest

(* A query is cut, and nothing of it is found yet.                         *)
LEMMA CutQueryInv ==
    ASSUME SearchInv, NEW text \in Queries, CutQuery(text)
    PROVE  SearchInv'
<1>1. /\ IInv /\ SearchTypeOK /\ Idle
      /\ Initialised /\ query = NoQuery /\ query' = text
      /\ words' = CutString(text, StopWords) /\ tokens_map' = <<>>
      /\ UNCHANGED vars /\ elems' = elems /\ elems = <<>>
  BY DEF SearchInv, CutQuery, Idle
<1>2. text \in Text
  BY QueryAssumption
<1>3. /\ words' \in Seq(Text) /\ Toks' \in Seq(Text) /\ Cut' = words'
      /\ Len(words') = Len(Toks') /\ Len(Toks') \in Nat
  BY <1>1, <1>2, CutIs DEF Toks, Cut
<1>4. Done' = 0
  BY <1>3 DEF Done
<1>5. IInv'
  BY <1>1, NextIInv
<1>6. DOMAIN tokens_map' = {}
  BY <1>1
<1>7. SearchTypeOK'
  BY <1>1, <1>3, <1>6 DEF SearchTypeOK
<1>8. Idle'
  BY <1>1, <1>2, <1>6, QueryAssumption DEF Idle, Initialised, vars
<1>9. ItemsHaveWords' /\ FirstWord'
  BY <1>6 DEF ItemsHaveWords, FirstWord
<1>10. Rest'
  <2>1. SubSeq(words', 1, Len(words')) = words'
    BY <1>3
  <2> QED
    BY <1>3, <1>4, <2>1 DEF Rest
<1>11. ElemsMatch'
  BY <1>1 DEF ElemsMatch
<1>12. Balance'
  <2>1. forward_index' \in Seq(DocInfo)
    BY <1>5 DEF IInv, TypeOK
  <2>2. ASSUME NEW d \in 1 .. Len(forward_index')
        PROVE  Held(d)' = 0 /\ Pending(d)' = 0 /\ DocScore(forward_index'[d], <<>>) = 0
    <3>1. Held(d)' = 0 /\ Pending(d)' = 0
      BY <1>1, <1>6 DEF Held, Pending
    <3>2. forward_index'[d] \in DocInfo
      BY <2>1
    <3> QED
      BY <3>1, <3>2, ScoreOfNone
  <2>3. SubSeq(Toks, 1, Done)' = <<>>
    BY <1>3, <1>4
  <2>4. \A d \in 1 .. Len(forward_index') :
           DocScore(forward_index[d], SubSeq(Toks, 1, Done))'
             = DocScore(forward_index'[d], <<>>)
    BY <2>3 DEF DocScore
  <2> QED
    BY <2>2, <2>4 DEF Balance
<1> QED
  BY <1>5, <1>7, <1>8, <1>9, <1>10, <1>11, <1>12 DEF SearchInv, Searching

(* The list of the next word is fetched.                                   *)
LEMMA LookUpInv ==
    ASSUME SearchInv, LookUpWord
    PROVE  SearchInv'
<1> DEFINE w == Toks[Done + 1]
           list == inverted_index[w]
<1>1. /\ query # NoQuery /\ elems = <<>> /\ words # <<>>
      /\ elems' = inverted_index[Lower(Head(words))] /\ words' = Tail(words)
      /\ UNCHANGED vars /\ query' = query /\ tokens_map' = tokens_map
  BY DEF LookUpWord, GetInvertedList
<1>2. /\ IInv /\ SearchTypeOK /\ Idle /\ ItemsHaveWords
      /\ UNCHANGED <<input, forward_index, inverted_index, bpc>>
  BY <1>1 DEF SearchInv, vars
<1>3. /\ query \in Text /\ Cut \in Seq(Text) /\ Toks \in Seq(Text)
      /\ Len(Cut) = Len(Toks) /\ Len(Toks) \in Nat
      /\ \A i \in 1 .. Len(Toks) : Toks[i] = Lower(Cut[i])
      /\ words \in Seq(Text) /\ Len(words) \in Nat /\ Done \in 0 .. Len(Toks)
      /\ words = SubSeq(Cut, Done + 1, Len(Cut))
      /\ forward_index \in Seq(DocInfo) /\ Len(forward_index) \in Nat
      /\ Indexed = Len(forward_index)
      /\ Rest /\ Balance /\ FirstWord
  BY <1>1, InSearch
<1>4. Len(words) > 0 /\ Done = Len(Toks) - Len(words) /\ Done + 1 \in 1 .. Len(Toks)
  BY <1>1, <1>3 DEF Done
<1>5. /\ w \in Text /\ w = Lower(Head(words))
      /\ Tail(words) = SubSeq(Cut, (Done + 1) + 1, Len(Cut))
      /\ Len(Tail(words)) = Len(words) - 1
  <2>1. /\ Head(words) = Cut[Done + 1]
        /\ Tail(words) = SubSeq(Cut, (Done + 1) + 1, Len(Cut))
        /\ Len(Tail(words)) = Len(words) - 1
    BY <1>3, <1>4, SuffixIs
  <2>2. w \in Text
    <3>1. Toks \in Seq(Text) /\ Done + 1 \in 1 .. Len(Toks)
      BY <1>3, <1>4
    <3> QED
      BY <3>1, ElementOfSeq
  <2>3. w = Lower(Cut[Done + 1])
    BY <1>3, <1>4
  <2> QED
    BY <2>1, <2>2, <2>3
<1>6. Toks' = Toks /\ Cut' = Cut /\ Done' = Done + 1
  <2>1. Toks' = Toks /\ Cut' = Cut
    BY <1>1 DEF Toks, Cut
  <2> QED
    BY <1>1, <1>3, <1>5, <2>1 DEF Done
<1>7. IInv'
  BY <1>1, <1>2, NextIInv
<1>8. /\ list \in Seq(InvertedElem) /\ elems' = list /\ Len(list) \in Nat
      /\ \A i \in 1 .. Len(list) : list[i] \in InvertedElem
  BY <1>1, <1>2, <1>5 DEF IInv, TypeOK
<1>9. /\ \A i \in 1 .. Len(list) :
            /\ list[i].doc_id < Len(forward_index)
            /\ list[i].word = w
            /\ list[i].weight = Weight(forward_index[list[i].doc_id + 1], StopWords, w)
            /\ list[i].weight > 0
      /\ \A d \in 1 .. Len(forward_index) :
            Weight(forward_index[d], StopWords, w) > 0 =>
              \E i \in 1 .. Len(list) : list[i].doc_id = d - 1
      /\ \A i, j \in 1 .. Len(list) : i < j => list[i].doc_id < list[j].doc_id
  <2>1. DOMAIN inverted_index[w] = 1 .. Len(list)
    BY <1>8
  <2>2. IndexIsInverse /\ ListsAscend
    BY <1>2 DEF IInv
  <2> HIDE DEF w
  <2>3. \A i, j \in 1 .. Len(list) : i < j => list[i].doc_id < list[j].doc_id
    BY <1>5, <2>1, <2>2 DEF ListsAscend
  <2>4. ASSUME NEW i \in 1 .. Len(list)
        PROVE  /\ list[i].doc_id < Len(forward_index)
               /\ list[i].word = w
               /\ list[i].weight = Weight(forward_index[list[i].doc_id + 1], StopWords, w)
               /\ list[i].weight > 0
    <3>1. i \in DOMAIN inverted_index[w]
      BY <2>1
    <3> QED
      BY <1>3, <1>5, <2>2, <3>1 DEF IndexIsInverse
  <2>5. ASSUME NEW d \in 1 .. Len(forward_index),
               Weight(forward_index[d], StopWords, w) > 0
        PROVE  \E i \in 1 .. Len(list) : list[i].doc_id = d - 1
    <3>1. \E i \in DOMAIN inverted_index[w] : inverted_index[w][i].doc_id = d - 1
      BY <1>3, <1>5, <2>2, <2>5 DEF IndexIsInverse
    <3> QED
      BY <2>1, <3>1
  <2> QED
    BY <2>3, <2>4, <2>5
<1> HIDE DEF w, list
<1>10. SearchTypeOK'
  <2>1. words' \in Seq(Text)
    BY <1>1, <1>3
  <2> QED
    BY <1>1, <1>2, <1>8, <2>1 DEF SearchTypeOK
<1>11. Idle' /\ ItemsHaveWords'
  BY <1>1, <1>2 DEF Idle, Initialised, ItemsHaveWords
<1>12. Rest'
  <2>1. Len(words') <= Len(Toks)
    BY <1>1, <1>3, <1>4, <1>5
  <2> QED
    BY <1>1, <1>5, <1>6, <2>1 DEF Rest
<1>13. ElemsMatch'
  <2>1. Toks'[Done'] = w /\ Done' > 0
    BY <1>3, <1>6 DEF w
  <2> QED
    BY <1>2, <1>8, <1>9, <2>1 DEF ElemsMatch
<1>14. Balance'
  <2> SUFFICES ASSUME NEW d \in 1 .. Len(forward_index)
               PROVE  Held(d)' + Pending(d)'
                        = DocScore(forward_index[d], SubSeq(Toks, 1, Done + 1))
    BY <1>2, <1>6 DEF Balance, DocScore
  <2>1. forward_index[d] \in DocInfo
    BY <1>3
  <2>2. /\ DocScore(forward_index[d], SubSeq(Toks, 1, Done)) \in Nat
        /\ Weight(forward_index[d], StopWords, w) \in Nat
        /\ DocScore(forward_index[d], SubSeq(Toks, 1, Done + 1))
             = DocScore(forward_index[d], SubSeq(Toks, 1, Done))
                 + Weight(forward_index[d], StopWords, w)
    <3>1. Done \in 0 .. Len(Toks) - 1
      BY <1>3, <1>4
    <3> QED
      BY <1>3, <2>1, <3>1, ScoreStep DEF w
  <2>3. Pending(d) = 0
    BY <1>1 DEF Pending
  <2>4. Held(d) \in Nat
    BY <1>2 DEF Held, SearchTypeOK
  <2>5. Held(d) = DocScore(forward_index[d], SubSeq(Toks, 1, Done))
    BY <1>3, <2>3, <2>4 DEF Balance
  <2>6. Held(d)' = Held(d)
    BY <1>1 DEF Held
  <2>7. Pending(d)' = Weight(forward_index[d], StopWords, w)
    <3>1. Pending(d)' = IF \E i \in 1 .. Len(list) : list[i].doc_id = d - 1
                        THEN Weight(forward_index[d], StopWords, w) ELSE 0
      BY <1>2, <1>6, <1>8 DEF Pending, w
    <3> QED
      BY <1>9, <2>2, <3>1
  <2> QED
    BY <2>2, <2>5, <2>6, <2>7
<1>15. FirstWord'
  <2>1. \A j \in 1 .. Done : j \in 1 .. Done + 1
    BY <1>3
  <2> QED
    BY <1>1, <1>2, <1>3, <1>6, <2>1 DEF FirstWord
<1> QED
  BY <1>7, <1>10, <1>11, <1>12, <1>13, <1>14, <1>15 DEF SearchInv, Searching

(* The item of a document, created or not: what is held of the document.   *)
LEMMA ItemIs ==
    ASSUME SearchInv, NEW id \in 0 .. Len(forward_index) - 1
    PROVE  /\ Item(tokens_map, id).weight = Held(id + 1) /\ Held(id + 1) \in Nat
           /\ Item(tokens_map, id).words \in Seq(Text)
           /\ Held(id + 1) >= Len(Item(tokens_map, id).words)
<1>1. SearchTypeOK /\ ItemsHaveWords /\ Len(forward_index) \in Nat
  BY DEF SearchInv, IInv, TypeOK
<1>2. (id + 1) - 1 = id
  BY <1>1
<1>3. CASE id \in DOMAIN tokens_map
  BY <1>1, <1>2, <1>3 DEF Item, Held, SearchTypeOK, ItemsHaveWords
<1>4. CASE id \notin DOMAIN tokens_map
  BY <1>2, <1>4 DEF Item, Held
<1> QED
  BY <1>3, <1>4

(* An element of a list is merged: what was pending for its document is    *)
(* held now.                                                               *)
LEMMA MergeInv ==
    ASSUME SearchInv, MergeElem
    PROVE  SearchInv'
<1> DEFINE elem == Head(elems)
           id == elem.doc_id
           item == Item(tokens_map, id)
           new == [weight |-> item.weight + elem.weight,
                   words  |-> Append(item.words, elem.word)]
           w == Toks[Done]
<1>1. /\ elems # <<>> /\ elems' = Tail(elems)
      /\ UNCHANGED vars /\ query' = query /\ words' = words
      /\ tokens_map' = [d \in DOMAIN tokens_map \cup {id} |->
                           IF d = id THEN new ELSE tokens_map[d]]
  BY DEF MergeElem, AddElem, WordsWith
<1>2. /\ IInv /\ SearchTypeOK /\ Idle /\ ItemsHaveWords /\ query # NoQuery
      /\ UNCHANGED <<input, forward_index, inverted_index, bpc>>
  BY <1>1 DEF SearchInv, vars, Idle
<1>3. /\ Toks \in Seq(Text) /\ Len(Toks) \in Nat
      /\ elems \in Seq(InvertedElem) /\ Done \in 0 .. Len(Toks)
      /\ forward_index \in Seq(DocInfo) /\ Len(forward_index) \in Nat
      /\ Rest /\ ElemsMatch /\ Balance /\ FirstWord
  BY <1>2, InSearch
<1>4. Toks' = Toks /\ Cut' = Cut /\ Done' = Done
  BY <1>1 DEF Toks, Cut, Done
<1>5. IInv'
  BY <1>1, <1>2, NextIInv
<1>6. /\ Len(elems) \in Nat /\ Len(elems) >= 1 /\ elem = elems[1] /\ elem \in InvertedElem
      /\ elems' \in Seq(InvertedElem) /\ Len(elems') = Len(elems) - 1
      /\ \A i \in 1 .. Len(elems) - 1 : elems'[i] = elems[i + 1] /\ i + 1 \in 1 .. Len(elems)
      /\ \A i \in 1 .. Len(elems) : elems[i] \in InvertedElem
  BY <1>1, <1>3
<1>7. /\ id \in 0 .. Len(forward_index) - 1 /\ elem.word = w /\ elem.word \in Text
      /\ elem.weight = Weight(forward_index[id + 1], StopWords, w)
      /\ elem.weight > 0 /\ elem.weight \in Nat /\ Done \in 1 .. Len(Toks)
      /\ id + 1 \in 1 .. Len(forward_index)
  <2>1. elem.doc_id \in Nat /\ elem.weight \in Nat /\ elem.word \in Text
    BY <1>6 DEF InvertedElem
  <2>2. /\ elem.doc_id < Len(forward_index) /\ elem.word = w /\ elem.weight > 0
        /\ elem.weight = Weight(forward_index[elem.doc_id + 1], StopWords, w)
        /\ Done > 0
    BY <1>1, <1>3, <1>6 DEF ElemsMatch
  <2> QED
    BY <1>3, <2>1, <2>2
<1> HIDE DEF elem, id, item, w
<1>8. /\ item.weight = Held(id + 1) /\ Held(id + 1) \in Nat
      /\ item.words \in Seq(Text) /\ Held(id + 1) >= Len(item.words)
  BY <1>7, ItemIs DEF item
<1>9. /\ new.weight \in Nat /\ new.words \in Seq(Text)
      /\ new.words = Append(item.words, w)
      /\ new.weight = Held(id + 1) + elem.weight
      /\ Len(new.words) = Len(item.words) + 1 /\ Len(item.words) \in Nat
      /\ new.weight >= Len(new.words)
  BY <1>7, <1>8
<1> HIDE DEF new
<1>10. /\ DOMAIN tokens_map' = DOMAIN tokens_map \cup {id} /\ tokens_map'[id] = new
       /\ \A d \in DOMAIN tokens_map : d # id => tokens_map'[d] = tokens_map[d]
  BY <1>1
<1>11. SearchTypeOK'
  BY <1>1, <1>2, <1>6, <1>7, <1>9, <1>10 DEF SearchTypeOK
<1>12. Idle'
  BY <1>1, <1>2 DEF Idle, Initialised
<1>13. ItemsHaveWords'
  BY <1>2, <1>9, <1>10 DEF ItemsHaveWords
<1>14. Rest'
  BY <1>1, <1>3, <1>4 DEF Rest
<1>15. ElemsMatch'
  <2>1. Toks'[Done'] = w /\ Done' > 0
    BY <1>3, <1>4, <1>7 DEF w
  <2>2. \A i \in 1 .. Len(elems) :
         /\ elems[i].doc_id < Len(forward_index)
         /\ elems[i].word = w
         /\ elems[i].weight = Weight(forward_index[elems[i].doc_id + 1], StopWords, w)
         /\ elems[i].weight > 0
    BY <1>3 DEF ElemsMatch, w
  <2>3. ASSUME NEW i \in 1 .. Len(elems) - 1, NEW j \in 1 .. Len(elems) - 1, i < j
        PROVE  elems'[i].doc_id < elems'[j].doc_id
    <3>1. /\ i + 1 \in 1 .. Len(elems) /\ j + 1 \in 1 .. Len(elems) /\ i + 1 < j + 1
          /\ elems'[i] = elems[i + 1] /\ elems'[j] = elems[j + 1]
      BY <1>6, <2>3
    <3>2. elems[i + 1].doc_id < elems[j + 1].doc_id
      BY <1>3, <3>1 DEF ElemsMatch
    <3> QED
      BY <3>1, <3>2
  <2>4. \A i \in 1 .. Len(elems) - 1 :
         /\ elems'[i].doc_id < Len(forward_index)
         /\ elems'[i].word = w
         /\ elems'[i].weight = Weight(forward_index[elems'[i].doc_id + 1], StopWords, w)
         /\ elems'[i].weight > 0
    BY <1>6, <2>2
  <2>5. forward_index' = forward_index /\ Len(elems') = Len(elems) - 1
    BY <1>2, <1>6
  <2> HIDE DEF w
  <2> QED
    BY <2>1, <2>3, <2>4, <2>5 DEF ElemsMatch
<1>16. Balance'
  <2> SUFFICES ASSUME NEW d \in 1 .. Len(forward_index)
               PROVE  Held(d)' + Pending(d)' = Held(d) + Pending(d)
    BY <1>2, <1>3, <1>4 DEF Balance, DocScore
  <2>1. \A i \in 1 .. Len(elems) : elems[i].doc_id \in Nat
    BY <1>6 DEF InvertedElem
  <2>2. DOMAIN elems = 1 .. Len(elems) /\ DOMAIN elems' = 1 .. Len(elems) - 1
    BY <1>3, <1>6
  <2>3. CASE d = id + 1
    <3>1. d - 1 = id
      BY <1>3, <1>7, <2>3
    <3>2. Held(d)' = Held(d) + elem.weight
      BY <1>9, <1>10, <2>3, <3>1 DEF Held
    <3>3. Pending(d) = elem.weight
      <4>1. elems[1].doc_id = d - 1 /\ 1 \in 1 .. Len(elems)
        BY <1>6, <3>1 DEF id
      <4> QED
        BY <1>7, <2>2, <2>3, <4>1 DEF Pending, w
    <3>4. Pending(d)' = 0
      <4>1. \A i \in 1 .. Len(elems) - 1 : elems'[i].doc_id # d - 1
        <5>1. \A i \in 1 .. Len(elems) - 1 : elems[1].doc_id < elems[i + 1].doc_id
          BY <1>3, <1>6 DEF ElemsMatch
        <5> QED
          BY <1>6, <2>1, <3>1, <5>1 DEF id
      <4> QED
        BY <2>2, <4>1 DEF Pending
    <3>5. Held(d) \in Nat
      BY <1>8, <2>3
    <3> QED
      BY <1>7, <3>2, <3>3, <3>4, <3>5
  <2>4. CASE d # id + 1
    <3>1. d - 1 # id
      BY <1>3, <1>7, <2>4
    <3>2. Held(d)' = Held(d)
      BY <1>10, <3>1 DEF Held
    <3>3. (\E i \in 1 .. Len(elems) - 1 : elems'[i].doc_id = d - 1)
            <=> (\E i \in 1 .. Len(elems) : elems[i].doc_id = d - 1)
      <4>1. ASSUME NEW i \in 1 .. Len(elems), elems[i].doc_id = d - 1
            PROVE  \E j \in 1 .. Len(elems) - 1 : elems'[j].doc_id = d - 1
        <5>1. i # 1
          BY <1>6, <3>1, <4>1 DEF id
        <5>2. i - 1 \in 1 .. Len(elems) - 1 /\ (i - 1) + 1 = i
          BY <1>6, <5>1
        <5> QED
          BY <1>6, <4>1, <5>2
      <4> QED
        BY <1>6, <4>1
    <3>4. Pending(d)' = Pending(d)
      BY <1>2, <1>4, <2>2, <3>3 DEF Pending
    <3> QED
      BY <3>2, <3>4
  <2> QED
    BY <2>3, <2>4
<1>17. FirstWord'
  <2> SUFFICES ASSUME NEW x \in DOMAIN tokens_map'
               PROVE  \E j \in 1 .. Done :
                         /\ tokens_map'[x].words[1] = Toks[j]
                         /\ Weight(forward_index[x + 1], StopWords, Toks[j]) > 0
                         /\ \A i \in 1 .. j - 1 :
                              Weight(forward_index[x + 1], StopWords, Toks[i]) = 0
    BY <1>2, <1>4 DEF FirstWord
  <2>1. CASE x # id
    BY <1>3, <1>10, <2>1 DEF FirstWord
  <2>2. CASE x = id /\ id \in DOMAIN tokens_map
    <3>1. item = tokens_map[id]
      BY <2>2 DEF item, Item
    <3>2. Len(item.words) > 0
      BY <1>2, <2>2, <3>1 DEF ItemsHaveWords
    <3>3. new.words[1] = item.words[1]
      BY <1>7, <1>8, <1>9, <3>2
    <3> QED
      BY <1>3, <1>10, <2>2, <3>1, <3>3 DEF FirstWord
  <2>3. CASE x = id /\ id \notin DOMAIN tokens_map
    <3> DEFINE doc == forward_index[id + 1]
               s == SubSeq(Toks, 1, Done - 1)
    <3>1. doc \in DocInfo /\ Done - 1 \in 0 .. Len(Toks) - 1 /\ (Done - 1) + 1 = Done
      BY <1>3, <1>7
    <3>2. Held(id + 1) = 0 /\ item.words = <<>>
      <4>1. (id + 1) - 1 = id
        BY <1>7
      <4> QED
        BY <2>3, <4>1 DEF Held, item, Item
    <3>3. Pending(id + 1) = elem.weight
      <4>1. elems[1].doc_id = (id + 1) - 1 /\ 1 \in DOMAIN elems
        BY <1>3, <1>6, <1>7 DEF id
      <4> QED
        BY <1>7, <4>1 DEF Pending, w
    <3>4. DocScore(doc, SubSeq(Toks, 1, Done)) = elem.weight
      BY <1>3, <1>7, <3>2, <3>3 DEF Balance
    <3>5. /\ DocScore(doc, s) \in Nat
          /\ DocScore(doc, SubSeq(Toks, 1, Done)) = DocScore(doc, s) + elem.weight
      <4>1. /\ DocScore(doc, s) \in Nat
            /\ DocScore(doc, SubSeq(Toks, 1, (Done - 1) + 1))
                 = DocScore(doc, s) + Weight(doc, StopWords, Toks[(Done - 1) + 1])
        BY <1>3, <3>1, ScoreStep
      <4> QED
        BY <1>7, <3>1, <4>1 DEF w
    <3>6. DocScore(doc, s) = 0
      BY <1>7, <3>4, <3>5
    <3> HIDE DEF doc
    <3>7. /\ s \in Seq(Text) /\ Len(s) = Done - 1
          /\ \A i \in 1 .. Done - 1 : s[i] = Toks[i] /\ Toks[i] \in Text
      BY <1>3, <3>1
    <3> HIDE DEF s
    <3>8. ASSUME NEW i \in 1 .. Done - 1 PROVE Weight(doc, StopWords, Toks[i]) = 0
      <4>1. i \in 1 .. Len(s) /\ s[i] = Toks[i]
        BY <3>7
      <4>2. ~(Weight(doc, StopWords, s[i]) > 0)
        <5>1. ASSUME Weight(doc, StopWords, s[i]) > 0 PROVE DocScore(doc, s) > 0
          BY <3>1, <3>7, <4>1, <5>1, ScoreOfSome
        <5> QED
          BY <3>6, <5>1
      <4>3. Weight(doc, StopWords, s[i]) \in Nat
        BY <3>1, WeightType
      <4> QED
        BY <4>1, <4>2, <4>3
    <3>9. new.words[1] = w
      BY <1>7, <1>9, <3>2
    <3> QED
      BY <1>7, <1>10, <2>3, <3>8, <3>9 DEF doc, w
  <2> QED
    BY <2>1, <2>2, <2>3
<1> QED
  BY <1>5, <1>11, <1>12, <1>13, <1>14, <1>15, <1>16, <1>17 DEF SearchInv, Searching

(* The answer is written: the search is over.                              *)
LEMMA BuildJsonInv ==
    ASSUME SearchInv, BuildJson
    PROVE  SearchInv'
<1>1. /\ IInv /\ SearchTypeOK /\ Idle /\ ItemsHaveWords
      /\ words = <<>> /\ elems = <<>> /\ query # NoQuery /\ query' = NoQuery
      /\ UNCHANGED vars /\ words' = words /\ elems' = elems /\ tokens_map' = tokens_map
  BY DEF SearchInv, BuildJson
<1>2. IInv'
  BY <1>1, NextIInv
<1>3. SearchTypeOK' /\ Idle' /\ ItemsHaveWords' /\ Searching'
  BY <1>1 DEF SearchTypeOK, Idle, Initialised, ItemsHaveWords, Searching, vars
<1> QED
  BY <1>2, <1>3 DEF SearchInv

(* Every step of Searcher keeps the invariant.                             *)
LEMMA SearcherNextInv == SearchInv /\ [SearcherNext]_allvars => SearchInv'
<1> SUFFICES ASSUME SearchInv, [SearcherNext]_allvars PROVE SearchInv'
  OBVIOUS
<1>1. CASE InitSearcher
  BY <1>1, BuildSearchInv
<1>2. CASE \E text \in Queries : CutQuery(text)
  BY <1>2, CutQueryInv
<1>3. CASE LookUpWord
  BY <1>3, LookUpInv
<1>4. CASE MergeElem
  BY <1>4, MergeInv
<1>5. CASE BuildJson
  BY <1>5, BuildJsonInv
<1>6. CASE UNCHANGED allvars
  <2>1. /\ IInv /\ UNCHANGED vars
        /\ UNCHANGED <<query, words, elems, tokens_map, input, forward_index, bpc>>
    BY <1>6 DEF SearchInv, allvars, vars
  <2>2. IInv'
    BY <2>1, NextIInv
  <2>3. SearchTypeOK' /\ Idle' /\ ItemsHaveWords'
    BY <2>1 DEF SearchInv, SearchTypeOK, Idle, Initialised, ItemsHaveWords
  <2>4. Toks' = Toks /\ Cut' = Cut /\ Done' = Done
    BY <2>1 DEF Toks, Cut, Done
  <2>5. Searching'
    BY <2>1, <2>4 DEF SearchInv, Searching, Rest, ElemsMatch, Balance, FirstWord, Held,
                      Pending, DocScore
  <2> QED
    BY <2>2, <2>3, <2>5 DEF SearchInv
<1> QED
  BY <1>1, <1>2, <1>3, <1>4, <1>5, <1>6 DEF SearcherNext, Search, SearchOn

(* The invariant of Searcher.                                              *)
LEMMA SearchInvariant == SearcherInit /\ [][SearcherNext]_allvars => []SearchInv
  BY SearcherInitInv, SearcherNextInv, PTL

(* What the invariant says of the merged documents.                        *)
LEMMA InvMergedDocs == SearchInv => MergedDocsExist
<1> SUFFICES ASSUME SearchInv, NEW id \in DOMAIN tokens_map
             PROVE  /\ InForwardIndex(id) /\ tokens_map[id].words # <<>>
                    /\ tokens_map[id].weight >= Len(tokens_map[id].words)
  BY DEF SearchInv, SearchTypeOK, MergedDocsExist
<1>1. SearchTypeOK /\ ItemsHaveWords /\ forward_index \in Seq(DocInfo)
  BY DEF SearchInv, IInv, TypeOK
<1>2. id \in 0 .. Len(forward_index) - 1 /\ Len(forward_index) \in Nat
  BY <1>1 DEF SearchTypeOK
<1>3. Len(tokens_map[id].words) > 0 /\ tokens_map[id].weight >= Len(tokens_map[id].words)
  BY <1>1 DEF ItemsHaveWords
<1> QED
  BY <1>2, <1>3 DEF InForwardIndex

(* Every document that Search merges exists and has a word that was looked *)
(* up, so JsonElem reads neither a nullptr nor an empty vector             *)
(* (searcher.hpp:101-120), whatever is searched and whether or not the     *)
(* index could be built.                                                   *)
THEOREM MergedDocs == SearcherSpec => []MergedDocsExist
  BY SearchInvariant, InvMergedDocs, PTL DEF SearcherSpec

-----------------------------------------------------------------------------
(* SearchSpec's least number is Searcher's.                                *)
LEMMA SameMin == \A S : Scan!Min(S) = Min(S)
  BY DEF Scan!Min, Min

(* GetDesc returns what SearchSpec calls a description: the cut begins at  *)
(* or before the first occurrence of the word and ends at or after it, so  *)
(* the test `start > end' of the code never comes true.                    *)
LEMMA DescribesIs ==
    ASSUME NEW content \in Text, NEW word \in Text
    PROVE  /\ Scan!Describes(GetDesc(content, word), content, word)
           /\ GetDesc(content, word) \in Seq(Sym) \cup {NoDesc}
<1> DEFINE places == Occurrences(content, word)
           pos == FirstOccurrence(content, word)
           start == WindowStart(pos)
           end == WindowEnd(content, pos)
<1>1. content \in Seq(Sym) /\ Len(content) \in Nat /\ PrevStep \in Nat /\ NextStep \in Nat
  BY TextAssumption, StepAssumption
<1>2. {p \in 0 .. Len(content) - 1 : Scan!Holds(content, word, p)} = places
  BY DEF Scan!Holds, Occurrences
<1>3. places \in SUBSET (0 .. Len(content) - 1)
  BY DEF Occurrences
<1>4. Scan!Min(places) = pos
  BY SameMin DEF FirstOccurrence, Min
<1>5. CASE places = {}
  <2>1. GetDesc(content, word) = NoDesc
    BY <1>5 DEF GetDesc
  <2> QED
    BY <1>2, <1>5, <2>1 DEF Scan!Describes
<1>6. CASE places # {}
  <2>1. pos \in 0 .. Len(content) - 1
    <3>1. places \in SUBSET Nat
      BY <1>1, <1>3
    <3> QED
      BY <1>3, <1>4, <1>6, <3>1, MinIs, SameMin
  <2>2. start \in 0 .. pos /\ pos - start <= PrevStep
    BY <1>1, <2>1 DEF WindowStart
  <2>3. end \in pos .. Len(content) - 1 /\ end - pos <= NextStep
    BY <1>1, <2>1 DEF WindowEnd
  <2> HIDE DEF start, end, pos, places
  <2>4. ~(start > end)
    BY <1>1, <2>1, <2>2, <2>3
  <2>5. GetDesc(content, word) = SubSeq(content, start + 1, end)
    BY <1>6, <2>4 DEF GetDesc, start, end, pos, places
  <2>6. SubSeq(content, start + 1, end) \in Seq(Sym)
    BY <1>1, <2>1, <2>2, <2>3
  <2>7. \E from \in 0 .. pos, to \in pos .. Len(content) - 1 :
           /\ pos - from <= PrevStep /\ to - pos <= NextStep
           /\ GetDesc(content, word) = SubSeq(content, from + 1, to)
    BY <2>2, <2>3, <2>5
  <2>8. Scan!Describes(GetDesc(content, word), content, word)
    BY <1>2, <1>4, <1>6, <2>7 DEF Scan!Describes
  <2> QED
    BY <2>5, <2>6, <2>8
<1> QED
  BY <1>5, <1>6

(* A document scanned for one word scores the weight of the word.          *)
LEMMA ScoreOfOne ==
    ASSUME NEW doc \in DocInfo, NEW word \in Text
    PROVE  DocScore(doc, <<word>>) = Weight(doc, StopWords, word)
<1> DEFINE s == <<word>>
<1>0. s \in Seq(Text) /\ Len(s) = 1 /\ s[1] = word
  OBVIOUS
<1> HIDE DEF s
<1>1. /\ s \in Seq(Text) /\ 0 \in 0 .. Len(s) - 1 /\ s[0 + 1] = word
      /\ SubSeq(s, 1, 0) = <<>> /\ SubSeq(s, 1, 0 + 1) = s
  BY <1>0
<1>2. /\ Weight(doc, StopWords, s[0 + 1]) \in Nat
      /\ DocScore(doc, SubSeq(s, 1, 0 + 1))
           = DocScore(doc, SubSeq(s, 1, 0)) + Weight(doc, StopWords, s[0 + 1])
  BY <1>1, ScoreStep
<1>3. DocScore(doc, <<>>) = 0
  BY ScoreOfNone
<1>4. DocScore(doc, s) = 0 + Weight(doc, StopWords, s[0 + 1])
  BY <1>1, <1>2, <1>3, Zenon
<1>5. DocScore(doc, s) = Weight(doc, StopWords, s[0 + 1])
  BY <1>2, <1>4
<1> QED
  BY <1>1, <1>5, Zenon DEF s

(* While a search runs, the forward index holds the documents of raw.txt,  *)
(* each with its fields.                                                   *)
LEMMA ScanIs ==
    ASSUME SearchInv, ThreeFields, query # NoQuery
    PROVE  /\ Scan!Documents = 1 .. Len(forward_index)
           /\ \A d \in 1 .. Len(forward_index) :
                /\ forward_index[d] \in DocInfo
                /\ Scan!Title(d) = forward_index[d].title
                /\ Scan!Content(d) = forward_index[d].content
                /\ Scan!Url(d) = forward_index[d].url
                /\ \A toks : Scan!Score(d, toks) = DocScore(forward_index[d], toks)
<1>1. /\ IInv /\ Idle /\ Initialised
      /\ forward_index \in Seq(DocInfo) /\ Len(forward_index) \in Nat
  BY DEF SearchInv, Idle, IInv, TypeOK
<1>2. CASE bpc = "failed"
  <2>1. input = NoFile /\ Len(forward_index) = 0
    BY <1>1, <1>2 DEF Idle, IInv, Progress
  <2>2. Scan!Documents = {} /\ 1 .. Len(forward_index) = {}
    BY <1>1, <2>1 DEF Scan!Documents
  <2> QED
    BY <2>2
<1>3. CASE bpc = "built"
  <2>1. input \in Seq(Seq(Text)) /\ Len(forward_index) = Len(input)
    BY <1>1, <1>3 DEF IInv, Progress
  <2>2. input # NoFile
    BY <2>1, InputAssumption
  <2>3. Scan!Documents = 1 .. Len(forward_index)
    BY <2>1, <2>2 DEF Scan!Documents
  <2>4. ASSUME NEW d \in 1 .. Len(forward_index)
        PROVE  /\ forward_index[d] \in DocInfo
               /\ Scan!Title(d) = forward_index[d].title
               /\ Scan!Content(d) = forward_index[d].content
               /\ Scan!Url(d) = forward_index[d].url
    <3>1. d \in DOMAIN input /\ d \in DOMAIN forward_index
      BY <1>1, <2>1
    <3>2. Len(input[d]) >= 3
      BY <2>2, <3>1 DEF ThreeFields
    <3> QED
      BY <1>1, <3>1, <3>2 DEF IInv, FieldsKept, Scan!Title, Scan!Content, Scan!Url
  <2>5. ASSUME NEW d \in 1 .. Len(forward_index), NEW toks
        PROVE  Scan!Score(d, toks) = DocScore(forward_index[d], toks)
    BY <2>4, SameCardinality DEF Scan!Score, DocScore
  <2> QED
    BY <2>3, <2>4, <2>5
<1> QED
  BY <1>1, <1>2, <1>3 DEF Initialised

(* When the last word is merged, tokens_map is the scan's result: what it  *)
(* holds are the hits, with their scores and the words to describe them.   *)
LEMMA MapIsScan ==
    ASSUME SearchInv, ThreeFields, BuildJson
    PROVE  /\ DOMAIN tokens_map \in SUBSET (0 .. Len(forward_index) - 1)
           /\ Scan!Hits(Toks) = {id + 1 : id \in DOMAIN tokens_map}
           /\ \A id \in DOMAIN tokens_map :
                /\ tokens_map[id].weight = Scan!Score(id + 1, Toks)
                /\ tokens_map[id].weight \in Nat
                /\ tokens_map[id].words[1] = Scan!Subject(id + 1, Toks)
                /\ tokens_map[id].words[1] \in Text
<1>1. /\ query # NoQuery /\ words = <<>> /\ elems = <<>>
      /\ SearchTypeOK /\ ItemsHaveWords
  BY DEF BuildJson, SearchInv
<1>2. /\ Toks \in Seq(Text) /\ Len(Toks) \in Nat
      /\ forward_index \in Seq(DocInfo) /\ Len(forward_index) \in Nat
      /\ Balance /\ FirstWord
  BY <1>1, InSearch
<1>3. Done = Len(Toks) /\ SubSeq(Toks, 1, Done) = Toks
  BY <1>1, <1>2 DEF Done
<1>4. /\ Scan!Documents = 1 .. Len(forward_index)
      /\ \A d \in 1 .. Len(forward_index) :
           /\ forward_index[d] \in DocInfo
           /\ \A toks : Scan!Score(d, toks) = DocScore(forward_index[d], toks)
  BY <1>1, ScanIs
<1>5. DOMAIN tokens_map \in SUBSET (0 .. Len(forward_index) - 1)
  BY <1>1 DEF SearchTypeOK
<1>6. ASSUME NEW d \in 1 .. Len(forward_index)
      PROVE  Held(d) = Scan!Score(d, Toks)
  <2>1. Pending(d) = 0
    BY <1>1 DEF Pending
  <2>2. Held(d) \in Nat
    BY <1>1 DEF Held, SearchTypeOK
  <2>3. Held(d) + Pending(d) = DocScore(forward_index[d], SubSeq(Toks, 1, Done))
    BY <1>2 DEF Balance
  <2>4. Held(d) + 0 = DocScore(forward_index[d], Toks)
    BY <1>3, <2>1, <2>3, Zenon
  <2>5. Held(d) = DocScore(forward_index[d], Toks)
    BY <2>2, <2>4
  <2> QED
    BY <1>4, <2>5
<1>7. ASSUME NEW id \in DOMAIN tokens_map
      PROVE  /\ id + 1 \in 1 .. Len(forward_index)
             /\ tokens_map[id].weight = Scan!Score(id + 1, Toks)
             /\ tokens_map[id].weight > 0 /\ tokens_map[id].weight \in Nat
             /\ tokens_map[id].words[1] \in Text
  <2>1. id \in 0 .. Len(forward_index) - 1 /\ tokens_map[id].weight \in Nat
        /\ tokens_map[id].words \in Seq(Text) /\ Len(tokens_map[id].words) > 0
        /\ tokens_map[id].weight >= Len(tokens_map[id].words)
    BY <1>1 DEF SearchTypeOK, ItemsHaveWords
  <2>2. id + 1 \in 1 .. Len(forward_index) /\ (id + 1) - 1 = id
    BY <1>2, <2>1
  <2>3. Held(id + 1) = tokens_map[id].weight
    BY <2>2 DEF Held
  <2>4. tokens_map[id].weight > 0 /\ tokens_map[id].words[1] \in Text
    BY <2>1
  <2> QED
    BY <1>6, <2>1, <2>2, <2>3, <2>4
<1>8. Scan!Hits(Toks) = {id + 1 : id \in DOMAIN tokens_map}
  <2>1. ASSUME NEW d \in Scan!Hits(Toks) PROVE d \in {id + 1 : id \in DOMAIN tokens_map}
    <3>1. d \in 1 .. Len(forward_index) /\ Scan!Score(d, Toks) > 0
      BY <1>4 DEF Scan!Hits
    <3>2. Held(d) > 0
      BY <1>6, <3>1
    <3>3. d - 1 \in DOMAIN tokens_map
      BY <3>2 DEF Held
    <3>4. d = (d - 1) + 1
      BY <3>1
    <3> QED
      BY <3>3, <3>4
  <2>2. ASSUME NEW id \in DOMAIN tokens_map PROVE id + 1 \in Scan!Hits(Toks)
    <3>1. id + 1 \in 1 .. Len(forward_index) /\ Scan!Score(id + 1, Toks) > 0
      BY <1>7
    <3> QED
      BY <1>4, <3>1 DEF Scan!Hits
  <2> QED
    BY <2>1, <2>2
<1>9. ASSUME NEW id \in DOMAIN tokens_map
      PROVE  tokens_map[id].words[1] = Scan!Subject(id + 1, Toks)
  <2> DEFINE doc == forward_index[id + 1]
             having == {i \in DOMAIN Toks : Scan!Score(id + 1, <<Toks[i]>>) > 0}
  <2>1. PICK j \in 1 .. Done :
          /\ tokens_map[id].words[1] = Toks[j]
          /\ Weight(doc, StopWords, Toks[j]) > 0
          /\ \A i \in 1 .. j - 1 : Weight(doc, StopWords, Toks[i]) = 0
    BY <1>2 DEF FirstWord
  <2>2. doc \in DocInfo /\ \A toks : Scan!Score(id + 1, toks) = DocScore(doc, toks)
    BY <1>4, <1>7
  <2> HIDE DEF doc
  <2>3. \A i \in 1 .. Len(Toks) :
           Scan!Score(id + 1, <<Toks[i]>>) = Weight(doc, StopWords, Toks[i])
    <3>1. \A i \in 1 .. Len(Toks) : Toks[i] \in Text
      BY <1>2
    <3> QED
      BY <2>2, <3>1, ScoreOfOne
  <2>4. DOMAIN Toks = 1 .. Len(Toks) /\ j \in 1 .. Len(Toks)
    BY <1>2, <1>3
  <2>5. j \in having
    BY <2>1, <2>3, <2>4
  <2>6. having \in SUBSET Nat
    BY <2>4
  <2>7. \A i \in having : ~(i < j)
    <3> SUFFICES ASSUME NEW i \in having, i < j PROVE FALSE
      OBVIOUS
    <3>1. i \in 1 .. Len(Toks) /\ i \in 1 .. j - 1
      BY <1>2, <2>4
    <3>2. Weight(doc, StopWords, Toks[i]) = 0
      BY <2>1, <3>1
    <3> QED
      BY <2>3, <3>1, <3>2
  <2>8. Scan!Min(having) = j
    <3>1. Scan!Min(having) \in having /\ Scan!Min(having) <= j
      BY <2>5, <2>6, MinIs, SameMin
    <3>2. ~(Scan!Min(having) < j)
      BY <2>7, <3>1
    <3> HIDE DEF having
    <3>3. Scan!Min(having) \in Nat /\ j \in Nat
      BY <2>5, <2>6, <3>1
    <3> QED
      BY <3>1, <3>2, <3>3
  <2> QED
    BY <2>1, <2>8 DEF Scan!Subject
<1> QED
  BY <1>5, <1>7, <1>8, <1>9

(* What std::sort leaves is an order of all that was merged.               *)
LEMMA SortedIs ==
    ASSUME IsFiniteSet(DOMAIN tokens_map), NEW order \in Sorted(tokens_map)
    PROVE  /\ order \in Seq(DOMAIN tokens_map)
           /\ Len(order) = Cardinality(DOMAIN tokens_map) /\ Len(order) \in Nat
           /\ {order[i] : i \in 1 .. Len(order)} = DOMAIN tokens_map
           /\ \A i, j \in 1 .. Len(order) :
                i < j => tokens_map[order[i]].weight >= tokens_map[order[j]].weight
<1>1. /\ order \in SetToSeqs(DOMAIN tokens_map)
      /\ \A i, j \in DOMAIN order :
           i < j => tokens_map[order[i]].weight >= tokens_map[order[j]].weight
  BY DEF Sorted
<1> HIDE DEF Sorted
<1>2. /\ order \in Seq(DOMAIN tokens_map) /\ DOMAIN order = 1 .. Len(order)
      /\ Len(order) = Cardinality(DOMAIN tokens_map) /\ Len(order) \in Nat
      /\ {order[i] : i \in 1 .. Len(order)} = DOMAIN tokens_map
  BY <1>1, OrderIs
<1> QED
  BY <1>1, <1>2

(* The answer is written in one step, and it is right.                     *)
LEMMA BuildJsonReplies ==
    ASSUME SearchInv, ThreeFields, BuildJson
    PROVE  Scan!Reply
<1> DEFINE S == DOMAIN tokens_map
<1>1. PICK order \in Sorted(tokens_map) :
         json_string' =
           [i \in DOMAIN Selected(order, {i \in DOMAIN order : InForwardIndex(order[i])}) |->
              JsonElem(Selected(order, {k \in DOMAIN order : InForwardIndex(order[k])})[i])]
  BY DEF BuildJson
<1>2. /\ query # NoQuery /\ query' = NoQuery /\ input' = input
      /\ forward_index \in Seq(DocInfo) /\ Len(forward_index) \in Nat
  BY DEF BuildJson, vars, SearchInv, IInv, TypeOK
<1>3. /\ S \in SUBSET (0 .. Len(forward_index) - 1)
      /\ Scan!Hits(Toks) = {id + 1 : id \in S}
      /\ \A id \in S :
           /\ tokens_map[id].weight = Scan!Score(id + 1, Toks)
           /\ tokens_map[id].weight \in Nat
           /\ tokens_map[id].words[1] = Scan!Subject(id + 1, Toks)
           /\ tokens_map[id].words[1] \in Text
  BY MapIsScan
<1>4. IsFiniteSet(S)
  <2>1. IsFiniteSet(0 .. Len(forward_index) - 1)
    BY <1>2, FS_Interval
  <2> QED
    BY <1>3, <2>1, FS_Subset
<1>5. /\ order \in Seq(S) /\ Len(order) = Cardinality(S) /\ Len(order) \in Nat
      /\ {order[i] : i \in 1 .. Len(order)} = S
      /\ \A i, j \in 1 .. Len(order) :
           i < j => tokens_map[order[i]].weight >= tokens_map[order[j]].weight
      /\ \A i \in 1 .. Len(order) : order[i] \in S
  BY <1>4, SortedIs
<1> HIDE DEF S
<1>6. Selected(order, {i \in DOMAIN order : InForwardIndex(order[i])}) = order
  <2>1. {i \in DOMAIN order : InForwardIndex(order[i])} = 1 .. Len(order)
    <3>1. ASSUME NEW i \in 1 .. Len(order) PROVE InForwardIndex(order[i])
      <4>1. order[i] \in 0 .. Len(forward_index) - 1
        BY <1>3, <1>5
      <4> QED
        BY <1>2, <4>1 DEF InForwardIndex
    <3> QED
      BY <1>5, <3>1
  <2>2. Selected(order, 1 .. Len(order)) = SubSeq(order, 1, Len(order))
    <3>1. 1 \in 1 .. Len(order) + 1 /\ Len(order) \in 0 .. Len(order) /\ 1 <= Len(order) + 1
      BY <1>5
    <3> QED
      BY <1>5, <3>1, SelectedInterval
  <2>3. SubSeq(order, 1, Len(order)) = order
    BY <1>5
  <2> QED
    BY <2>1, <2>2, <2>3
<1>7. json_string' = [i \in 1 .. Len(order) |-> JsonElem(order[i])]
  <2>1. json_string' = [i \in DOMAIN order |-> JsonElem(order[i])]
    BY <1>1, <1>6
  <2> QED
    BY <1>5, <2>1
<1>8. ASSUME NEW id \in S
      PROVE  /\ id + 1 \in 1 .. Len(forward_index)
             /\ JsonElem(id) \in JsonElems
             /\ JsonElem(id).id = id
             /\ JsonElem(id).title = Scan!Title(id + 1)
             /\ JsonElem(id).url = Scan!Url(id + 1)
             /\ JsonElem(id).weight = Scan!Score(id + 1, Toks)
             /\ JsonElem(id).weight = tokens_map[id].weight
             /\ Scan!Describes(JsonElem(id).desc, Scan!Content(id + 1),
                               Scan!Subject(id + 1, Toks))
  <2> DEFINE doc == forward_index[id + 1]
             desc == GetDesc(doc.content, tokens_map[id].words[1])
  <2>1. id \in Nat /\ id + 1 \in 1 .. Len(forward_index)
    BY <1>2, <1>3
  <2>2. /\ doc \in DocInfo
        /\ Scan!Title(id + 1) = doc.title /\ Scan!Content(id + 1) = doc.content
        /\ Scan!Url(id + 1) = doc.url
    BY <1>2, <2>1, ScanIs
  <2>3. /\ doc.title \in Text /\ doc.content \in Text /\ doc.url \in Text
        /\ tokens_map[id].words[1] \in Text /\ tokens_map[id].weight \in Nat
    BY <1>3, <2>2 DEF DocInfo
  <2>4. /\ Scan!Describes(desc, doc.content, tokens_map[id].words[1])
        /\ desc \in Seq(Sym) \cup {NoDesc}
    BY <2>3, DescribesIs
  <2>5. JsonElem(id) = [title |-> doc.title, desc |-> desc, url |-> doc.url,
                        weight |-> tokens_map[id].weight, id |-> id]
    BY DEF JsonElem, GetForwardIndex
  <2> HIDE DEF doc, desc
  <2>6. JsonElem(id) \in JsonElems
    BY <2>1, <2>3, <2>4, <2>5 DEF JsonElems
  <2> QED
    BY <1>3, <2>1, <2>2, <2>4, <2>5, <2>6
<1>9. /\ Len(json_string') = Len(order) /\ DOMAIN json_string' = 1 .. Len(order)
      /\ \A i \in 1 .. Len(order) : json_string'[i] = JsonElem(order[i]) /\ order[i] \in S
      /\ json_string' \in Seq(JsonElems)
  BY <1>5, <1>7, <1>8
<1>10. json_string' # NoAnswer
  BY <1>9, QueryAssumption
<1>11. Len(json_string') = Scan!Cardinality(Scan!Hits(Toks))
  <2> DEFINE f == [id \in S |-> id + 1]
  <2>1. f \in [S -> Scan!Hits(Toks)] /\ \A t \in Scan!Hits(Toks) : \E id \in S : f[id] = t
    BY <1>3
  <2>2. \A id \in S : id \in Nat
    BY <1>2, <1>3
  <2>3. \A a, b \in S : f[a] = f[b] => a = b
    BY <2>2
  <2>4. IsFiniteSet(S)
    BY <1>4 DEF S
  <2> HIDE DEF f
  <2>5. Cardinality(Scan!Hits(Toks)) = Cardinality(S)
    BY <2>1, <2>3, <2>4, SameSize
  <2> QED
    BY <1>5, <1>9, <2>5, SameCardinality DEF S
<1>12. {json_string'[i].id : i \in DOMAIN json_string'} = {d - 1 : d \in Scan!Hits(Toks)}
  <2>1. {json_string'[i].id : i \in DOMAIN json_string'} = {order[i] : i \in 1 .. Len(order)}
    BY <1>8, <1>9
  <2>2. {d - 1 : d \in Scan!Hits(Toks)} = S
    <3>1. \A id \in S : (id + 1) - 1 = id /\ id + 1 \in Scan!Hits(Toks)
      BY <1>2, <1>3
    <3>2. \A d \in Scan!Hits(Toks) : \E id \in S : d = id + 1
      BY <1>3
    <3>3. \A d \in Scan!Hits(Toks) : d - 1 \in S
      BY <3>1, <3>2
    <3> QED
      BY <3>1, <3>3
  <2> QED
    BY <1>5, <2>1, <2>2 DEF S
<1>13. ASSUME NEW i \in DOMAIN json_string'
       PROVE  /\ json_string'[i].title = Scan!Title(json_string'[i].id + 1)
              /\ json_string'[i].url = Scan!Url(json_string'[i].id + 1)
              /\ json_string'[i].weight = Scan!Score(json_string'[i].id + 1, Toks)
              /\ Scan!Describes(json_string'[i].desc, Scan!Content(json_string'[i].id + 1),
                                Scan!Subject(json_string'[i].id + 1, Toks))
  <2>1. json_string'[i] = JsonElem(order[i]) /\ order[i] \in S
    BY <1>9
  <2> QED
    BY <1>8, <2>1
<1>14. \A i, j \in DOMAIN json_string' :
          i < j => json_string'[i].weight >= json_string'[j].weight
  <2>1. \A i \in DOMAIN json_string' :
           /\ i \in 1 .. Len(order)
           /\ json_string'[i].weight = tokens_map[order[i]].weight
    BY <1>8, <1>9
  <2> QED
    BY <1>5, <2>1
<1>15. Scan!Tokens(query, StopWords) = Toks
  BY SameTokens DEF Toks
<1>16. Scan!IsAnswer(json_string', Toks)
  BY <1>11, <1>12, <1>13, <1>14 DEF Scan!IsAnswer
<1> QED
  BY <1>2, <1>10, <1>15, <1>16 DEF Scan!Reply

(* Every step of Searcher is a step of SearchSpec: a question, an answer,  *)
(* or nothing that shows.                                                  *)
LEMMA StepIsScan ==
    ASSUME SearchInv, ThreeFields, [SearcherNext]_allvars
    PROVE  [Scan!Ask \/ Scan!Reply]_Scan!specvars /\ ThreeFields'
<1>1. CASE InitSearcher
  <2>1. input' = input /\ UNCHANGED searchvars
    BY <1>1, BuildSearchInv DEF InitSearcher
  <2> QED
    BY <2>1 DEF searchvars, Scan!specvars, ThreeFields
<1>2. CASE \E text \in Queries : CutQuery(text)
  <2>1. Scan!Ask /\ input' = input
    BY <1>2 DEF CutQuery, vars, Scan!Ask
  <2> QED
    BY <2>1 DEF ThreeFields
<1>3. CASE LookUpWord \/ MergeElem
  BY <1>3 DEF LookUpWord, MergeElem, vars, Scan!specvars, ThreeFields
<1>4. CASE BuildJson
  <2>1. Scan!Reply /\ input' = input
    BY <1>4, BuildJsonReplies DEF BuildJson, vars
  <2> QED
    BY <2>1 DEF ThreeFields
<1>5. CASE UNCHANGED allvars
  BY <1>5 DEF allvars, Scan!specvars, ThreeFields
<1> QED
  BY <1>1, <1>2, <1>3, <1>4, <1>5 DEF SearcherNext, Search, SearchOn

(* With a raw.txt as the parser writes it, or without one, Search answers  *)
(* as a scan of every document would (searcher.hpp:60-140): every document *)
(* with a word of the query once, its weight counted from its text, the    *)
(* best first, described by the first word that it has.  This is the       *)
(* safety of ImplementsScan; that an answer comes is left to TLC.          *)
THEOREM SearchIsScan == ThreeFields /\ SearcherSpec => Scan!Safety
<1>1. SearcherInit => Scan!Init
  BY DEF SearcherInit, Scan!Init
<1> QED
  BY <1>1, SearchInvariant, StepIsScan, PTL DEF SearcherSpec, Scan!Safety

-----------------------------------------------------------------------------
(* The characters of the queries made of what was typed, and one more for  *)
(* each.                                                                   *)
Spent(texts) == UNION {{n} \X (0 .. Len(texts[n])) : n \in DOMAIN texts}

Chars == Sym \cup {Nl}

(* The buffer holds what was read, and what is searched when its end is    *)
(* cut off is a query.                                                     *)
BufferInv ==
    /\ typed \in Sessions /\ at \in 0 .. Len(typed)
    /\ fresh \in BOOLEAN /\ dpc \in {"fgets", "strip", "dead"}
    /\ asked \in Seq(Seq(Chars))
    /\ buffer # NoEnd =>
         /\ buffer \in Seq(Chars)
         /\ \A n \in 0 .. Len(buffer) - 1 : SubSeq(buffer, 1, n) \in Queries
    /\ dpc = "strip" /\ fresh => buffer # NoEnd /\ Len(buffer) > 0
    /\ dpc = "strip" /\ ~fresh => at = Len(typed)
    /\ dpc = "dead" => at = Len(typed) /\ ~fresh
    /\ IsFiniteSet(Spent(asked))
    /\ at = Cardinality(Spent(asked)) + (IF fresh /\ dpc = "strip" THEN Len(buffer) ELSE 0)

(* How many lines have been read, and what of them is where.               *)
LinesRead == Len(asked) + (IF fresh /\ dpc = "strip" THEN 1 ELSE 0)

TypedInv ==
    LinesFit =>
      /\ LinesRead <= Len(Lines(typed))
      /\ at + 1 = LineBegin(typed, LinesRead + 1)
      /\ \A n \in 1 .. Len(asked) : asked[n] = Lines(typed)[n]
      /\ fresh /\ dpc = "strip" => buffer = Append(Lines(typed)[LinesRead], Nl)

(* A session is a sequence of characters.                                  *)
LEMMA TypedIs ==
    ASSUME BufferInv
    PROVE  /\ typed \in Seq(Chars) /\ Len(typed) \in Nat /\ at \in 0 .. Len(typed)
           /\ asked \in Seq(Seq(Chars)) /\ Len(asked) \in Nat
           /\ MostRead \in Nat /\ MostRead > 1
  BY ConsoleAssumption DEF BufferInv, Chars, MostRead

(* Where fgets stops: after a '\n' or with a full buffer or at the end of  *)
(* the input, whichever comes first.                                       *)
LEMMA ReadUpToIs ==
    ASSUME BufferInv, at < Len(typed)
    PROVE  /\ ReadUpTo \in at + 1 .. Len(typed) /\ ReadUpTo <= at + MostRead
           /\ \A i \in at + 1 .. ReadUpTo - 1 : typed[i] # Nl
           /\ \/ typed[ReadUpTo] = Nl
              \/ ReadUpTo = at + MostRead
              \/ ReadUpTo = Len(typed)
<1> DEFINE ends == {i \in at + 1 .. Len(typed) : typed[i] = Nl}
           stops == ends \cup {at + MostRead, Len(typed)}
<1>1. /\ Len(typed) \in Nat /\ at \in Nat /\ MostRead \in Nat /\ MostRead > 1
  BY TypedIs
<1>2. stops \in SUBSET Nat /\ Len(typed) \in stops /\ at + MostRead \in stops
  BY <1>1
<1>3. \A s \in stops : s >= at + 1
  BY <1>1
<1>4. ReadUpTo = Min(stops)
  BY DEF ReadUpTo
<1> HIDE DEF stops
<1>5. ReadUpTo \in stops /\ \A s \in stops : ReadUpTo <= s
  BY <1>2, <1>4, MinIs
<1>6. /\ ReadUpTo \in at + 1 .. Len(typed) /\ ReadUpTo <= at + MostRead
  BY <1>1, <1>2, <1>3, <1>5
<1>7. ASSUME NEW i \in at + 1 .. ReadUpTo - 1 PROVE typed[i] # Nl
  <2>1. i \in at + 1 .. Len(typed) /\ i < ReadUpTo
    BY <1>1, <1>6
  <2>2. i \notin stops
    BY <1>1, <1>5, <1>6, <2>1
  <2> QED
    BY <2>1, <2>2 DEF stops
<1> QED
  BY <1>5, <1>6, <1>7 DEF stops

(* A query more: its characters and one.                                   *)
LEMMA SpentStep ==
    ASSUME NEW texts \in Seq(Seq(Chars)), NEW text \in Seq(Chars), IsFiniteSet(Spent(texts))
    PROVE  /\ IsFiniteSet(Spent(Append(texts, text)))
           /\ Cardinality(Spent(Append(texts, text)))
                = Cardinality(Spent(texts)) + Len(text) + 1
<1> DEFINE k == Len(texts) + 1
           new == {k} \X (0 .. Len(text))
           f == [n \in 0 .. Len(text) |-> <<k, n>>]
           more == Append(texts, text)
<1>1. /\ Len(texts) \in Nat /\ Len(text) \in Nat
      /\ DOMAIN texts = 1 .. Len(texts) /\ DOMAIN more = 1 .. k
      /\ more[k] = text /\ \A n \in 1 .. Len(texts) : more[n] = texts[n]
      /\ k \in 1 .. k
      /\ \A n : n \in 1 .. k <=> n \in 1 .. Len(texts) \/ n = k
      /\ k \notin 1 .. Len(texts)
  OBVIOUS
<1> HIDE DEF more, k
<1>2. Spent(more) = Spent(texts) \cup new
  <2>1. \A p : p \in Spent(more) <=> \E n \in 1 .. k : p \in {n} \X (0 .. Len(more[n]))
    BY <1>1 DEF Spent
  <2>2. \A p : p \in Spent(texts)
                 <=> \E n \in 1 .. Len(texts) : p \in {n} \X (0 .. Len(texts[n]))
    BY <1>1 DEF Spent
  <2>3. ASSUME NEW p PROVE p \in Spent(more) <=> p \in Spent(texts) \cup new
    BY <1>1, <2>1, <2>2
  <2> QED
    BY <2>3
<1>3. IsFiniteSet(0 .. Len(text)) /\ Cardinality(0 .. Len(text)) = Len(text) + 1
  BY <1>1, FS_Interval
<1>4. IsFiniteSet(new) /\ Cardinality(new) = Len(text) + 1
  <2>1. f \in [0 .. Len(text) -> new]
    OBVIOUS
  <2>2. \A a, b \in 0 .. Len(text) : f[a] = f[b] => a = b
    OBVIOUS
  <2>3. \A t \in new : \E n \in 0 .. Len(text) : f[n] = t
    OBVIOUS
  <2> HIDE DEF f, new
  <2> QED
    BY <1>3, <2>1, <2>2, <2>3, SameSize
<1>5. Spent(texts) \cap new = {}
  <2>1. \A p \in Spent(texts) : p[1] \in 1 .. Len(texts)
    BY <1>1 DEF Spent
  <2>2. \A p \in new : p[1] = k
    OBVIOUS
  <2> QED
    BY <1>1, <2>1, <2>2
<1> DEFINE old == Spent(texts)
<1>6. IsFiniteSet(old) /\ old \cap new = {}
  BY <1>5
<1> HIDE DEF new, old, f
<1>7. /\ IsFiniteSet(old \cup new)
      /\ Cardinality(old \cup new)
           = Cardinality(old) + Cardinality(new) - Cardinality(old \cap new)
  BY <1>4, <1>6, FS_Union
<1>8. Cardinality(old) \in Nat /\ Cardinality(old \cap new) = 0
  BY <1>6, FS_CardinalityType, FS_EmptySet
<1>9. Cardinality(old \cup new) = Cardinality(old) + Len(text) + 1
  BY <1>1, <1>4, <1>6, <1>7, <1>8
<1> QED
  BY <1>2, <1>7, <1>9 DEF more, old

(* Nothing is read and nothing asked at first.                             *)
LEMMA ConsoleInitInv == ConsoleInit => SearchInv /\ BufferInv /\ TypedInv
<1> SUFFICES ASSUME ConsoleInit PROVE SearchInv /\ BufferInv /\ TypedInv
  OBVIOUS
<1>1. /\ SearcherInit /\ typed \in Sessions /\ at = 0 /\ buffer \in Leftovers
      /\ fresh = FALSE /\ dpc = "fgets" /\ asked = <<>>
  BY DEF ConsoleInit
<1>2. SearchInv
  BY <1>1, SearcherInitInv
<1>3. typed \in Seq(Chars) /\ Len(typed) \in Nat
  BY <1>1, ConsoleAssumption DEF Chars
<1>4. Spent(asked) = {} /\ IsFiniteSet({}) /\ Cardinality({}) = 0
  BY <1>1, FS_EmptySet DEF Spent
<1>5. ASSUME buffer # NoEnd
      PROVE  /\ buffer \in Seq(Chars)
             /\ \A n \in 0 .. Len(buffer) - 1 : SubSeq(buffer, 1, n) \in Queries
  <2>1. /\ buffer \in Seq(Sym) /\ <<>> \in Queries
        /\ \A n \in 1 .. Len(buffer) - 1 : SubSeq(buffer, 1, n) \in Queries
    BY <1>1, <1>5, ConsoleAssumption
  <2>2. buffer \in Seq(Chars) /\ Len(buffer) \in Nat /\ SubSeq(buffer, 1, 0) = <<>>
    BY <2>1 DEF Chars
  <2>3. \A n \in 0 .. Len(buffer) - 1 : n = 0 \/ n \in 1 .. Len(buffer) - 1
    BY <2>2
  <2> QED
    BY <2>1, <2>2, <2>3
<1>6. BufferInv
  <2>1. at \in 0 .. Len(typed) /\ asked \in Seq(Seq(Chars))
    BY <1>1, <1>3
  <2>2. /\ IsFiniteSet(Spent(asked))
        /\ at = Cardinality(Spent(asked)) + (IF fresh /\ dpc = "strip" THEN Len(buffer) ELSE 0)
    BY <1>1, <1>4
  <2>3. dpc # "strip" /\ dpc # "dead"
    BY <1>1
  <2> QED
    BY <1>1, <1>5, <2>1, <2>2, <2>3 DEF BufferInv
<1>7. TypedInv
  <2>1. LinesRead = 0 /\ Len(asked) = 0
    BY <1>1 DEF LinesRead
  <2>2. LineBegin(typed, 1) = 1 /\ Len(Lines(typed)) \in Nat
    BY <1>3, FirstLine, LineStartsAre
  <2> QED
    BY <1>1, <2>1, <2>2 DEF TypedInv
<1> QED
  BY <1>2, <1>6, <1>7

(* A step of the search leaves the console alone.                          *)
LEMMA SameConsole ==
    ASSUME BufferInv, TypedInv, UNCHANGED consolevars
    PROVE  BufferInv' /\ TypedInv'
<1>1. UNCHANGED <<typed, at, buffer, fresh, dpc, asked>>
  BY DEF consolevars
<1>2. BufferInv'
  BY <1>1 DEF BufferInv, Spent
<1>3. TypedInv'
  BY <1>1 DEF TypedInv, LinesFit, LinesRead, Lines, LineBegin, LineStarts, NoLine
<1> QED
  BY <1>2, <1>3

(* What fgets reads becomes a query when its last character is cut off.    *)
LEMMA FgetsBuffer ==
    ASSUME BufferInv, Fgets
    PROVE  BufferInv'
<1>1. /\ dpc = "fgets" /\ at < Len(typed) /\ buffer' = SubSeq(typed, at + 1, ReadUpTo)
      /\ at' = ReadUpTo /\ fresh' = TRUE /\ dpc' = "strip"
      /\ typed' = typed /\ asked' = asked
  BY DEF Fgets, Stored
<1>2. /\ typed \in Seq(Chars) /\ Len(typed) \in Nat /\ at \in 0 .. Len(typed)
      /\ MostRead \in Nat
  BY TypedIs
<1>3. /\ ReadUpTo \in at + 1 .. Len(typed) /\ ReadUpTo <= at + MostRead
      /\ \A i \in at + 1 .. ReadUpTo - 1 : typed[i] # Nl
  BY <1>1, ReadUpToIs
<1> DEFINE e == ReadUpTo
<1> HIDE DEF e
<1>4. /\ buffer' \in Seq(Chars) /\ Len(buffer') = e - at
      /\ \A n \in 1 .. e - at : buffer'[n] = typed[at + n]
  BY <1>1, <1>2, <1>3 DEF e
<1>5. ASSUME NEW n \in 0 .. Len(buffer') - 1 PROVE SubSeq(buffer', 1, n) \in Queries
  <2>1. CASE n = 0
    <3>1. SubSeq(buffer', 1, n) = <<>>
      BY <1>4, <2>1
    <3> QED
      BY <3>1, ConsoleAssumption
  <2>2. CASE n # 0
    <3>1. /\ n \in 1 .. e - at - 1 /\ at + 1 \in 1 .. Len(typed) /\ at + n \in 1 .. Len(typed)
          /\ (at + n) - (at + 1) < MostRead - 1 /\ at + n <= e - 1
      BY <1>2, <1>3, <1>4, <2>2 DEF e
    <3>2. Nl \notin {typed[k] : k \in at + 1 .. at + n}
      <4>1. \A k \in at + 1 .. at + n : k \in at + 1 .. e - 1
        BY <1>2, <1>3, <3>1 DEF e
      <4> QED
        BY <1>3, <4>1 DEF e
    <3>3. SubSeq(typed, at + 1, at + n) \in Queries
      BY <3>1, <3>2, ConsoleAssumption DEF BufferInv
    <3>4. SubSeq(buffer', 1, n) = SubSeq(typed, at + 1, at + n)
      <4>1. /\ SubSeq(buffer', 1, n) \in Seq(Chars) /\ Len(SubSeq(buffer', 1, n)) = n
            /\ \A i \in 1 .. n : SubSeq(buffer', 1, n)[i] = typed[at + i]
        BY <1>2, <1>3, <1>4, <3>1
      <4>2. /\ SubSeq(typed, at + 1, at + n) \in Seq(Chars)
            /\ Len(SubSeq(typed, at + 1, at + n)) = n
            /\ \A i \in 1 .. n : SubSeq(typed, at + 1, at + n)[i] = typed[at + i]
        BY <1>2, <3>1
      <4> QED
        BY <3>1, <4>1, <4>2, SeqEqual
    <3> QED
      BY <3>3, <3>4
  <2> QED
    BY <2>1, <2>2
<1>6. buffer' # NoEnd
  BY <1>4, ConsoleAssumption DEF Chars
<1>7. Spent(asked') = Spent(asked)
  BY <1>1
<1>8. /\ IsFiniteSet(Spent(asked)) /\ at = Cardinality(Spent(asked)) + 0
      /\ Cardinality(Spent(asked)) \in Nat
  BY <1>1, FS_CardinalityType DEF BufferInv
<1>9. /\ at' \in 0 .. Len(typed) /\ Len(buffer') > 0
      /\ at' = Cardinality(Spent(asked)) + Len(buffer')
  BY <1>1, <1>2, <1>3, <1>4, <1>8 DEF e
<1> QED
  BY <1>1, <1>4, <1>5, <1>6, <1>7, <1>8, <1>9 DEF BufferInv

(* When the lines fit, fgets reads the next one with its '\n'.             *)
LEMMA FgetsLine ==
    ASSUME BufferInv, TypedInv, Fgets
    PROVE  TypedInv'
<1> SUFFICES ASSUME LinesFit' PROVE TypedInv'
  BY DEF TypedInv
<1> DEFINE n == Len(asked) + 1
           b == LineBegin(typed, n)
<1>1. /\ dpc = "fgets" /\ at < Len(typed) /\ buffer' = SubSeq(typed, at + 1, ReadUpTo)
      /\ at' = ReadUpTo /\ fresh' = TRUE /\ dpc' = "strip"
      /\ typed' = typed /\ asked' = asked
  BY DEF Fgets, Stored
<1>2. /\ typed \in Seq(Chars) /\ Len(typed) \in Nat /\ at \in 0 .. Len(typed)
      /\ MostRead \in Nat /\ Len(asked) \in Nat
  BY TypedIs
<1>3. Lines(typed') = Lines(typed) /\ \A k : LineBegin(typed', k) = LineBegin(typed, k)
  BY <1>1
<1>4. LinesFit
  BY <1>1 DEF LinesFit
<1>5. LinesRead = Len(asked) /\ LinesRead' = n
  BY <1>1, <1>2 DEF LinesRead
<1>6. /\ at + 1 = b /\ Len(asked) <= Len(Lines(typed))
      /\ \A k \in 1 .. Len(asked) : asked[k] = Lines(typed)[k]
  BY <1>4, <1>5 DEF TypedInv
<1>7. Len(Lines(typed)) = Cardinality(LineStarts(typed)) /\ Len(Lines(typed)) \in Nat
  BY <1>2, LineStartsAre
<1>8. n \in 1 .. Len(Lines(typed))
  <2>1. CASE n <= Len(Lines(typed))
    BY <1>2, <1>7, <2>1
  <2>2. CASE ~(n <= Len(Lines(typed)))
    <3>1. b = Len(typed) + 1
      BY <1>7, <2>2 DEF LineBegin
    <3> QED
      BY <1>1, <1>2, <1>6, <3>1
  <2> QED
    BY <2>1, <2>2
<1>9. PICK e \in b .. Len(typed) + 1 :
         /\ b \in 1 .. Len(typed)
         /\ Lines(typed)[n] = SubSeq(typed, b, e - 1)
         /\ \A i \in b .. e - 1 : typed[i] # Nl
         /\ \/ e = Len(typed) + 1 /\ LineBegin(typed, n + 1) = e
            \/ e <= Len(typed) /\ typed[e] = Nl /\ LineBegin(typed, n + 1) = e + 1
  BY <1>2, <1>8, LineIs
<1> HIDE DEF n, b
<1>10. e <= Len(typed) /\ typed[e] = Nl /\ LineBegin(typed, n + 1) = e + 1
  <2>1. typed # <<>> /\ Last(typed) = typed[Len(typed)]
    BY <1>1, <1>2 DEF Last
  <2>2. typed[Len(typed)] = Nl
    BY <1>4, <2>1 DEF LinesFit
  <2>3. ASSUME e = Len(typed) + 1 PROVE FALSE
    <3>1. Len(typed) \in b .. e - 1
      BY <1>2, <1>9, <2>3
    <3> QED
      BY <1>9, <2>2, <3>1
  <2> QED
    BY <1>9, <2>3
<1>11. Len(Lines(typed)[n]) = e - b /\ e - b < MostRead
  <2>1. Len(Lines(typed)[n]) = e - b
    BY <1>2, <1>9
  <2>2. n \in DOMAIN Lines(typed)
    BY <1>7, <1>8 DEF Lines, Pieces, LineStarts
  <2> QED
    BY <1>4, <2>1, <2>2 DEF LinesFit
<1>12. ReadUpTo = e
  <2>1. /\ ReadUpTo \in at + 1 .. Len(typed) /\ ReadUpTo <= at + MostRead
        /\ \A i \in at + 1 .. ReadUpTo - 1 : typed[i] # Nl
        /\ \/ typed[ReadUpTo] = Nl \/ ReadUpTo = at + MostRead \/ ReadUpTo = Len(typed)
    BY <1>1, ReadUpToIs
  <2> DEFINE r == ReadUpTo
  <2> HIDE DEF r
  <2>2. r \in b .. Len(typed) /\ e \in b .. Len(typed) /\ b \in Nat /\ at = b - 1
    BY <1>2, <1>6, <1>9, <1>10, <2>1 DEF r
  <2>3. ~(e < r)
    <3>1. ASSUME e < r PROVE e \in at + 1 .. r - 1
      BY <1>2, <2>2, <3>1
    <3> QED
      BY <1>10, <2>1, <3>1 DEF r
  <2>4. ~(r < e)
    <3> SUFFICES ASSUME r < e PROVE FALSE
      OBVIOUS
    <3>1. r \in b .. e - 1
      BY <1>2, <2>2
    <3>2. typed[r] # Nl /\ r # Len(typed)
      BY <1>2, <1>9, <1>10, <2>2, <3>1
    <3>3. r = at + MostRead
      BY <2>1, <3>2 DEF r
    <3> QED
      BY <1>2, <1>11, <2>2, <3>1, <3>3
  <2> QED
    BY <1>2, <2>2, <2>3, <2>4 DEF r
<1>13. buffer' = Append(Lines(typed)[n], Nl)
  <2>1. SubSeq(typed, b, e) = Append(SubSeq(typed, b, e - 1), typed[e])
    <3>1. /\ b \in 1 .. Len(typed) /\ e \in b .. Len(typed)
          /\ \A i \in b .. e : typed[i] \in Chars
      BY <1>2, <1>9, <1>10
    <3>2. /\ SubSeq(typed, b, e) \in Seq(Chars) /\ Len(SubSeq(typed, b, e)) = e - b + 1
          /\ \A i \in 1 .. e - b + 1 : SubSeq(typed, b, e)[i] = typed[b + i - 1]
      BY <1>2, <3>1
    <3>3. /\ SubSeq(typed, b, e - 1) \in Seq(Chars) /\ Len(SubSeq(typed, b, e - 1)) = e - b
          /\ \A i \in 1 .. e - b : SubSeq(typed, b, e - 1)[i] = typed[b + i - 1]
      BY <1>2, <3>1
    <3> DEFINE s == SubSeq(typed, b, e - 1)
               t == Append(s, typed[e])
    <3>4. typed[e] \in Chars /\ b + (e - b + 1) - 1 = e /\ e - b \in Nat
      BY <1>2, <3>1
    <3> HIDE DEF s
    <3>5. /\ t \in Seq(Chars) /\ Len(t) = e - b + 1
          /\ \A i \in 1 .. e - b : t[i] = s[i]
          /\ t[e - b + 1] = typed[e]
      BY <3>3, <3>4 DEF s
    <3> HIDE DEF t
    <3>6. \A i \in 1 .. e - b + 1 : t[i] = typed[b + i - 1]
      <4>1. \A i \in 1 .. e - b + 1 : i \in 1 .. e - b \/ i = e - b + 1
        BY <3>4
      <4> QED
        BY <3>3, <3>4, <3>5, <4>1 DEF s
    <3>7. SubSeq(typed, b, e) = t
      BY <3>2, <3>5, <3>6, SeqEqual
    <3> QED
      BY <3>7 DEF s, t
  <2> QED
    BY <1>1, <1>6, <1>9, <1>10, <1>12, <2>1
<1>14. LinesRead' = n /\ at' + 1 = LineBegin(typed, n + 1)
  BY <1>1, <1>5, <1>10, <1>12
<1>15. /\ LinesRead' <= Len(Lines(typed'))
       /\ at' + 1 = LineBegin(typed', LinesRead' + 1)
       /\ buffer' = Append(Lines(typed')[LinesRead'], Nl)
  BY <1>3, <1>7, <1>8, <1>13, <1>14
<1>16. \A k \in 1 .. Len(asked') : asked'[k] = Lines(typed')[k]
  BY <1>1, <1>3, <1>6
<1> QED
  BY <1>15, <1>16 DEF TypedInv

(* What is cut and searched.                                               *)
LEMMA StrippedIs ==
    ASSUME BufferInv, buffer \notin {NoEnd, <<>>}
    PROVE  /\ buffer \in Seq(Chars) /\ Len(buffer) \in Nat /\ Len(buffer) > 0
           /\ Stripped(buffer) = SubSeq(buffer, 1, Len(buffer) - 1)
           /\ Stripped(buffer) \in Queries /\ Stripped(buffer) \in Seq(Chars)
           /\ Len(Stripped(buffer)) = Len(buffer) - 1
           /\ \A n \in 0 .. Len(Stripped(buffer)) - 1 :
                SubSeq(Stripped(buffer), 1, n) \in Queries
           /\ \A text \in Seq(Chars) : buffer = Append(text, Nl) => Stripped(buffer) = text
<1>1. /\ buffer \in Seq(Chars)
      /\ \A n \in 0 .. Len(buffer) - 1 : SubSeq(buffer, 1, n) \in Queries
  BY DEF BufferInv
<1>2. Len(buffer) \in Nat /\ Len(buffer) > 0
  BY <1>1
<1>3. Stripped(buffer) = SubSeq(buffer, 1, Len(buffer) - 1)
  BY DEF Stripped, Front
<1>4. /\ Stripped(buffer) \in Seq(Chars) /\ Len(Stripped(buffer)) = Len(buffer) - 1
      /\ \A i \in 1 .. Len(buffer) - 1 : Stripped(buffer)[i] = buffer[i]
  <2> DEFINE m == Len(buffer) - 1
             s == SubSeq(buffer, 1, m)
  <2>1. m \in 0 .. Len(buffer)
    BY <1>2
  <2> HIDE DEF m
  <2>2. s \in Seq(Chars) /\ Len(s) = m /\ \A i \in 1 .. m : s[i] = buffer[i]
    BY <1>1, <1>2, <2>1
  <2>3. Stripped(buffer) = s
    BY <1>3 DEF m
  <2> QED
    BY <2>2, <2>3 DEF m
<1>5. Len(buffer) - 1 \in 0 .. Len(buffer) - 1
  BY <1>2
<1>6. ASSUME NEW n \in 0 .. Len(Stripped(buffer)) - 1
      PROVE  SubSeq(Stripped(buffer), 1, n) \in Queries
  <2>1. n \in 0 .. Len(buffer) - 2
    BY <1>2, <1>4
  <2>2. /\ SubSeq(Stripped(buffer), 1, n) \in Seq(Chars)
        /\ Len(SubSeq(Stripped(buffer), 1, n)) = n
        /\ \A i \in 1 .. n : SubSeq(Stripped(buffer), 1, n)[i] = buffer[i]
    BY <1>2, <1>4, <2>1
  <2>3. /\ SubSeq(buffer, 1, n) \in Seq(Chars) /\ Len(SubSeq(buffer, 1, n)) = n
        /\ \A i \in 1 .. n : SubSeq(buffer, 1, n)[i] = buffer[i]
    BY <1>1, <1>2, <2>1
  <2>4. SubSeq(Stripped(buffer), 1, n) = SubSeq(buffer, 1, n)
    BY <2>2, <2>3, SeqEqual
  <2>5. n \in 0 .. Len(buffer) - 1
    BY <1>2, <2>1
  <2>6. SubSeq(buffer, 1, n) \in Queries
    BY <1>1, <2>5
  <2> QED
    BY <2>4, <2>6
<1>7. ASSUME NEW text \in Seq(Chars), buffer = Append(text, Nl) PROVE Stripped(buffer) = text
  <2>1. Len(buffer) = Len(text) + 1 /\ \A i \in 1 .. Len(text) : buffer[i] = text[i]
    BY <1>7
  <2>2. Len(Stripped(buffer)) = Len(text) /\ Len(text) \in Nat
    BY <1>4, <2>1
  <2>3. \A i \in 1 .. Len(text) : Stripped(buffer)[i] = text[i]
    BY <1>4, <2>1, <2>2
  <2> QED
    BY <1>4, <2>2, <2>3, SeqEqual
<1> QED
  BY <1>1, <1>2, <1>3, <1>4, <1>5, <1>6, <1>7

(* The last character is cut off: one is lost of what was read.            *)
LEMMA StripInv ==
    ASSUME BufferInv, TypedInv, Strip
    PROVE  BufferInv' /\ TypedInv' /\ \E text \in Queries : CutQuery(text)
<1> DEFINE text == Stripped(buffer)
<1>1. /\ dpc = "strip" /\ buffer \notin {NoEnd, <<>>} /\ buffer' = text
      /\ CutQuery(text) /\ dpc' = "fgets" /\ UNCHANGED <<typed, at, fresh>>
      /\ asked' = IF fresh THEN Append(asked, text) ELSE asked
  BY DEF Strip
<1>2. /\ buffer \in Seq(Chars) /\ Len(buffer) \in Nat /\ Len(buffer) > 0
      /\ text \in Queries /\ text \in Seq(Chars) /\ Len(text) = Len(buffer) - 1
      /\ \A n \in 0 .. Len(text) - 1 : SubSeq(text, 1, n) \in Queries
      /\ \A t \in Seq(Chars) : buffer = Append(t, Nl) => text = t
  BY <1>1, StrippedIs
<1> HIDE DEF text
<1>3. /\ typed \in Seq(Chars) /\ Len(typed) \in Nat /\ at \in 0 .. Len(typed)
      /\ asked \in Seq(Seq(Chars)) /\ Len(asked) \in Nat
  BY TypedIs
<1>4. text # NoEnd
  BY <1>2, ConsoleAssumption DEF Chars
<1>5. /\ IsFiniteSet(Spent(asked)) /\ Cardinality(Spent(asked)) \in Nat
      /\ fresh \in BOOLEAN
      /\ at = Cardinality(Spent(asked)) + (IF fresh THEN Len(buffer) ELSE 0)
  BY <1>1, FS_CardinalityType DEF BufferInv
<1>6. /\ IsFiniteSet(Spent(asked')) /\ at = Cardinality(Spent(asked')) + 0
      /\ asked' \in Seq(Seq(Chars))
  <2>1. CASE fresh
    <3>1. asked' = Append(asked, text)
      BY <1>1, <2>1
    <3>2. /\ IsFiniteSet(Spent(asked'))
          /\ Cardinality(Spent(asked')) = Cardinality(Spent(asked)) + Len(text) + 1
      BY <1>2, <1>3, <1>5, <3>1, SpentStep
    <3> QED
      BY <1>2, <1>3, <1>5, <2>1, <3>1, <3>2
  <2>2. CASE ~fresh
    <3>1. asked' = asked
      BY <1>1, <2>2
    <3>2. Cardinality(Spent(asked')) = Cardinality(Spent(asked)) /\ IsFiniteSet(Spent(asked'))
      BY <1>5, <3>1
    <3> QED
      BY <1>3, <1>5, <2>2, <3>1, <3>2
  <2> QED
    BY <2>1, <2>2
<1>7. BufferInv'
  <2>1. typed' \in Sessions /\ at' \in 0 .. Len(typed') /\ fresh' \in BOOLEAN
    BY <1>1 DEF BufferInv
  <2> QED
    BY <1>1, <1>2, <1>4, <1>6, <2>1 DEF BufferInv
<1>8. TypedInv'
  <2> SUFFICES ASSUME LinesFit' PROVE TypedInv'
    BY DEF TypedInv
  <2>1. LinesFit /\ Lines(typed') = Lines(typed)
        /\ \A k : LineBegin(typed', k) = LineBegin(typed, k)
    BY <1>1 DEF LinesFit
  <2>2. /\ LinesRead <= Len(Lines(typed)) /\ at + 1 = LineBegin(typed, LinesRead + 1)
        /\ \A n \in 1 .. Len(asked) : asked[n] = Lines(typed)[n]
        /\ fresh => buffer = Append(Lines(typed)[LinesRead], Nl)
    BY <1>1, <2>1 DEF TypedInv
  <2>3. CASE fresh
    <3>1. LinesRead = Len(asked) + 1 /\ asked' = Append(asked, text)
      BY <1>1, <2>3 DEF LinesRead
    <3>2. Lines(typed)[LinesRead] \in Seq(Chars)
      <4>1. Lines(typed) \in Seq(Seq(Chars \ {Nl}))
        BY <1>3, LinesHaveNoNl
      <4>2. LinesRead \in 1 .. Len(Lines(typed))
        BY <1>3, <2>2, <3>1, <4>1
      <4>3. Lines(typed)[LinesRead] \in Seq(Chars \ {Nl})
        BY <4>1, <4>2
      <4> QED
        BY <4>3
    <3>3. text = Lines(typed)[LinesRead]
      BY <1>2, <2>2, <2>3, <3>2
    <3>4. /\ Len(asked') = Len(asked) + 1 /\ asked'[Len(asked) + 1] = text
          /\ \A n \in 1 .. Len(asked) : asked'[n] = asked[n]
      BY <1>2, <1>3, <3>1
    <3>5. \A n \in 1 .. Len(asked) + 1 : n \in 1 .. Len(asked) \/ n = Len(asked) + 1
      BY <1>3
    <3>6. \A n \in 1 .. Len(asked') : asked'[n] = Lines(typed)[n]
      BY <2>2, <3>1, <3>3, <3>4, <3>5
    <3>7. LinesRead' = LinesRead
      BY <1>1, <1>3, <3>1, <3>4 DEF LinesRead
    <3> QED
      BY <1>1, <2>1, <2>2, <3>6, <3>7 DEF TypedInv
  <2>4. CASE ~fresh
    <3>1. asked' = asked /\ LinesRead' = LinesRead
      BY <1>1, <2>4 DEF LinesRead
    <3> QED
      BY <1>1, <2>1, <2>2, <3>1 DEF TypedInv
  <2> QED
    BY <2>3, <2>4
<1> QED
  BY <1>1, <1>2, <1>7, <1>8

ConsoleInv == SearchInv /\ BufferInv /\ TypedInv

(* Every step of the console keeps the three invariants and is a step of   *)
(* Searcher, or none.                                                      *)
LEMMA ConsoleNextInv ==
    ASSUME ConsoleInv, [ConsoleStep]_debugvars
    PROVE  ConsoleInv' /\ [SearcherNext]_allvars
<1>1. SearchInv /\ BufferInv /\ TypedInv
  BY DEF ConsoleInv
<1>2. ASSUME [SearcherNext]_allvars, BufferInv', TypedInv'
      PROVE  ConsoleInv' /\ [SearcherNext]_allvars
  BY <1>1, <1>2, SearcherNextInv DEF ConsoleInv
<1>3. CASE (InitSearcher \/ SearchOn) /\ UNCHANGED consolevars
  BY <1>1, <1>2, <1>3, SameConsole DEF SearcherNext, Search
<1>4. CASE Fgets
  BY <1>1, <1>2, <1>4, FgetsBuffer, FgetsLine DEF Fgets
<1>5. CASE FgetsNothing
  <2>1. /\ dpc = "fgets" /\ at = Len(typed) /\ fresh' = FALSE /\ dpc' = "strip"
        /\ UNCHANGED <<allvars, typed, at, buffer, asked>>
    BY <1>5 DEF FgetsNothing
  <2>2. BufferInv'
    BY <1>1, <2>1 DEF BufferInv, Spent
  <2>3. TypedInv'
    <3>1. LinesRead' = LinesRead /\ LinesFit' = LinesFit
      BY <2>1 DEF LinesRead, LinesFit
    <3> QED
      BY <1>1, <2>1, <3>1 DEF TypedInv, Lines, LineBegin, LineStarts, NoLine
  <2> QED
    BY <1>2, <2>1, <2>2, <2>3
<1>6. CASE Strip
  BY <1>1, <1>2, <1>6, StripInv DEF SearcherNext, Search
<1>7. CASE StripNothing
  <2>1. /\ dpc = "strip" /\ buffer = <<>> /\ CutQuery(<<>>) /\ dpc' = "fgets"
        /\ UNCHANGED <<typed, at, buffer, fresh, asked>>
    BY <1>7 DEF StripNothing
  <2>2. <<>> \in Queries
    BY ConsoleAssumption
  <2>3. ~fresh /\ fresh \in BOOLEAN
    BY <1>1, <2>1 DEF BufferInv
  <2>4. BufferInv'
    BY <1>1, <2>1, <2>3 DEF BufferInv, Spent
  <2>5. TypedInv'
    <3>1. LinesRead' = LinesRead /\ LinesFit' = LinesFit
      BY <2>1, <2>3 DEF LinesRead, LinesFit
    <3> QED
      BY <1>1, <2>1, <3>1 DEF TypedInv, Lines, LineBegin, LineStarts, NoLine
  <2> QED
    BY <1>2, <2>1, <2>2, <2>4, <2>5 DEF SearcherNext, Search
<1>8. CASE Overrun
  <2>1. /\ dpc = "strip" /\ buffer \in {NoEnd, <<>>} /\ dpc' = "dead"
        /\ UNCHANGED <<allvars, typed, at, buffer, fresh, asked>>
    BY <1>8 DEF Overrun
  <2>2. ~fresh /\ fresh \in BOOLEAN
    BY <1>1, <2>1 DEF BufferInv
  <2>3. BufferInv'
    BY <1>1, <2>1, <2>2 DEF BufferInv, Spent
  <2>4. TypedInv'
    <3>1. LinesRead' = LinesRead /\ LinesFit' = LinesFit
      BY <2>1, <2>2 DEF LinesRead, LinesFit
    <3> QED
      BY <1>1, <2>1, <2>2, <3>1 DEF TypedInv, Lines, LineBegin, LineStarts, NoLine
  <2> QED
    BY <1>2, <2>1, <2>3, <2>4
<1>9. CASE UNCHANGED debugvars
  BY <1>1, <1>2, <1>9, SameConsole DEF debugvars
<1> QED
  BY <1>3, <1>4, <1>5, <1>6, <1>7, <1>8, <1>9 DEF ConsoleStep

(* What the console does with the searcher is what a searcher may do, and  *)
(* nothing else.                                                           *)
LEMMA ConsoleInvariant ==
    ConsoleSpec => []ConsoleInv /\ SearcherInit /\ [][SearcherNext]_allvars
<1>1. ConsoleInit => ConsoleInv /\ SearcherInit
  BY ConsoleInitInv DEF ConsoleInv, ConsoleInit
<1> QED
  BY <1>1, ConsoleNextInv, PTL DEF ConsoleSpec

(* The console's searches answer as scans too, and merge only documents    *)
(* that exist: every query is one that Search is made for, those cut from  *)
(* what an uninitialised buffer holds included (debug.cc:20-26).           *)
THEOREM ConsoleIsScan == ThreeFields /\ ConsoleSpec => Scan!Safety /\ []MergedDocsExist
<1>1. SearcherInit => Scan!Init
  BY DEF SearcherInit, Scan!Init
<1>2. ConsoleInv => SearchInv
  BY DEF ConsoleInv
<1> QED
  BY <1>1, <1>2, ConsoleInvariant, StepIsScan, InvMergedDocs, PTL DEF Scan!Safety

(* The lines are searched as typed, in order, each once, as long as each   *)
(* ends and fits into the buffer, for every size of the buffer and every   *)
(* text that is typed (debug.cc:20-24).                                    *)
THEOREM LinesAskedAsTyped == ConsoleSpec => []AskedAsTyped
<1>1. ConsoleInv => AskedAsTyped
  <2> SUFFICES ASSUME ConsoleInv, LinesFit
               PROVE  /\ Len(asked) <= Len(Lines(typed))
                      /\ \A n \in DOMAIN asked : asked[n] = Lines(typed)[n]
    BY DEF AskedAsTyped
  <2>1. /\ LinesRead <= Len(Lines(typed))
        /\ \A n \in 1 .. Len(asked) : asked[n] = Lines(typed)[n]
    BY DEF ConsoleInv, TypedInv
  <2>2. /\ typed \in Seq(Chars) /\ Len(asked) \in Nat /\ DOMAIN asked = 1 .. Len(asked)
        /\ fresh \in BOOLEAN
    BY TypedIs DEF ConsoleInv, BufferInv
  <2>3. Len(Lines(typed)) \in Nat
    BY <2>2, LineStartsAre
  <2>4. Len(asked) <= LinesRead /\ LinesRead \in Nat
    BY <2>2 DEF LinesRead
  <2> QED
    BY <2>1, <2>2, <2>3, <2>4
<1> QED
  BY <1>1, ConsoleInvariant, PTL

(* However long the lines are, each call of fgets costs one character, and *)
(* the write before the buffer's begin waits for the end of the input      *)
(* (debug.cc:22-23).                                                       *)
THEOREM OneCharacterPerRead == ConsoleSpec => []OneLostPerRead
<1>1. ConsoleInv => OneLostPerRead
  BY DEF ConsoleInv, BufferInv, OneLostPerRead, Spent
<1> QED
  BY <1>1, ConsoleInvariant, PTL
=============================================================================
