----------------------------- MODULE IndexProofs -----------------------------
(* The invariants of Index, for every set of texts, every segmenter, every *)
(* list of stop words and every raw.txt.                                   *)
EXTENDS Index, FiniteSetTheorems, SequenceTheorems, TLAPS

(* Counting yields a natural number: the segmenter emits a sequence. *)
LEMMA CountType ==
    ASSUME NEW text \in Text, NEW stops, NEW word
    PROVE  Count(text, stops, word) \in Nat
<1> DEFINE cut == CutForSearch(text)
           found == {i \in DOMAIN cut : cut[i] \notin stops /\ Lower(cut[i]) = word}
<1>1. cut \in Seq(Text)
  BY CutAssumption
<1>2. IsFiniteSet(1 .. Len(cut))
  BY <1>1, FS_Interval
<1>3. found \in SUBSET (1 .. Len(cut))
  BY <1>1
<1>4. IsFiniteSet(found)
  BY <1>2, <1>3, FS_Subset
<1>5. Cardinality(found) \in Nat
  BY <1>4, FS_CardinalityType
<1> QED
  BY <1>5 DEF Count

(* A weight is a natural number, positive exactly for the words that occur. *)
LEMMA WeightType ==
    ASSUME NEW doc \in DocInfo, NEW stops, NEW word
    PROVE  /\ Weight(doc, stops, word) \in Nat
           /\ Weight(doc, stops, word) > 0 <=>
                Count(doc.title, stops, word) + Count(doc.content, stops, word) > 0
<1>1. doc.title \in Text /\ doc.content \in Text
  BY DEF DocInfo
<1>2. Count(doc.title, stops, word) \in Nat /\ Count(doc.content, stops, word) \in Nat
  BY <1>1, CountType
<1> QED
  BY <1>2 DEF Weight, X, Y

(* What links the program counter, the lines read and the documents held. *)
Progress ==
    /\ bpc \in {"getline", "invert", "built", "crashed"} => input \in Seq(Seq(Text))
    /\ bpc \in {"open", "failed"} => line = 0
    /\ line = Len(forward_index)
    /\ bpc = "invert" => line > 0
    /\ line > 0 => line <= Len(input)
    /\ bpc = "built" => line = Len(input)
    /\ bpc = "crashed" => \E i \in DOMAIN input : Len(input[i]) < 3

FieldsKept ==
    \A d \in DOMAIN forward_index :
       LET doc == forward_index[d] IN
         Len(input[d]) >= 3 =>
           doc.title = input[d][1] /\ doc.content = input[d][2] /\ doc.url = input[d][3]

IInv == TypeOK /\ DocIdIsPosition /\ ListsAscend /\ IndexIsInverse /\ Progress /\ FieldsKept

(* raw.txt, as the parser writes it, has three fields on every line.       *)
ThreeFields == input # NoFile => \A d \in DOMAIN input : Len(input[d]) >= 3

(* An Index as constructed, both lists empty (index.hpp:170-177).           *)
LEMMA InitIInv == Init => IInv
<1> SUFFICES ASSUME Init PROVE IInv
  OBVIOUS
<1>1. TypeOK
  BY DEF Init, TypeOK
<1>2. DocIdIsPosition /\ FieldsKept
  BY DEF Init, DocIdIsPosition, FieldsKept
<1>3. ListsAscend /\ IndexIsInverse
  BY DEF Init, ListsAscend, IndexIsInverse, Indexed
<1>4. Progress
  BY DEF Init, Progress
<1> QED
  BY <1>1, <1>2, <1>3, <1>4 DEF IInv

(* The steps that leave both indexes alone. *)
LEMMA SameIndexIInv ==
    ASSUME IInv, UNCHANGED <<input, line, forward_index, inverted_index>>,
           OpenInput \/ ReadPastFields \/ EndOfInput \/ UNCHANGED vars
    PROVE  IInv'
<1>1. Indexed' = Indexed
  BY DEF IInv, Progress, Indexed, OpenInput, ReadPastFields, EndOfInput, vars
<1>2. DocIdIsPosition' /\ ListsAscend' /\ FieldsKept'
  BY DEF IInv, DocIdIsPosition, ListsAscend, FieldsKept
<1>3. IndexIsInverse'
  BY <1>1 DEF IInv, IndexIsInverse
<1>4. TypeOK'
  BY DEF IInv, TypeOK, OpenInput, ReadPastFields, EndOfInput, vars
<1>5. Progress'
  <2>1. CASE OpenInput
    BY <2>1, InputAssumption DEF IInv, TypeOK, Progress, OpenInput
  <2>2. CASE ReadPastFields
    <3>1. line + 1 \in DOMAIN input
      BY <2>2 DEF IInv, TypeOK, Progress, ReadPastFields
    <3> QED
      BY <2>2, <3>1 DEF IInv, TypeOK, Progress, ReadPastFields
  <2>3. CASE EndOfInput
    BY <2>3 DEF IInv, TypeOK, Progress, EndOfInput, NoLineLeft
  <2>4. CASE UNCHANGED vars
    BY <2>4 DEF IInv, Progress, vars
  <2> QED
    BY <2>1, <2>2, <2>3, <2>4
<1> QED
  BY <1>2, <1>3, <1>4, <1>5 DEF IInv

(* A new document is typed, stands at the place its doc_id says, and       *)
(* disturbs no list: it is not indexed yet.                                *)
LEMMA ForwardIInv ==
    ASSUME IInv, BuildForwardIndex
    PROVE  IInv'
<1> USE DEF IInv
<1>1. /\ input \in Seq(Seq(Text)) /\ line + 1 \in DOMAIN input
      /\ input[line + 1] \in Seq(Text)
      /\ line = Len(forward_index) /\ forward_index \in Seq(DocInfo)
  BY DEF BuildForwardIndex, Progress, TypeOK
<1> DEFINE results == input[line + 1]
<1>2. PICK title \in Field(results, 1), content \in Field(results, 2),
           url \in Field(results, 3) :
        forward_index' = Append(forward_index,
          [title |-> title, content |-> content, url |-> url, doc_id |-> Len(forward_index)])
  BY DEF BuildForwardIndex, NextDocId
<1>3. \A i : Field(results, i) \subseteq Text
  BY <1>1, InputAssumption DEF Field
<1> DEFINE doc == [title |-> title, content |-> content, url |-> url,
                   doc_id |-> Len(forward_index)]
<1>4. doc \in DocInfo
  BY <1>1, <1>3 DEF DocInfo
<1>5. /\ forward_index' \in Seq(DocInfo)
      /\ Len(forward_index') = Len(forward_index) + 1
      /\ \A d \in DOMAIN forward_index : forward_index'[d] = forward_index[d]
      /\ forward_index'[Len(forward_index')] = doc
      /\ DOMAIN forward_index' = DOMAIN forward_index \cup {Len(forward_index')}
  BY <1>1, <1>2, <1>4
<1>6. TypeOK'
  BY <1>1, <1>5 DEF TypeOK, BuildForwardIndex
<1>7. DocIdIsPosition'
  <2> SUFFICES ASSUME NEW d \in DOMAIN forward_index'
               PROVE  forward_index'[d].doc_id = d - 1
    BY DEF DocIdIsPosition
  <2>1. CASE d \in DOMAIN forward_index
    BY <2>1, <1>5 DEF DocIdIsPosition
  <2>2. CASE d = Len(forward_index')
    BY <2>2, <1>1, <1>5
  <2> QED
    BY <2>1, <2>2, <1>5
<1>8. ListsAscend'
  BY DEF ListsAscend, BuildForwardIndex
<1>9. IndexIsInverse'
  <2>1. Indexed' = Indexed /\ Indexed = Len(forward_index)
    BY <1>1, <1>5 DEF Indexed, BuildForwardIndex
  <2>2. \A d \in 1 .. Indexed : forward_index'[d] = forward_index[d]
    <3>1. DOMAIN forward_index = 1 .. Indexed
      BY <1>1, <2>1
    <3> QED
      BY <1>5, <3>1
  <2>3. inverted_index' = inverted_index
    BY DEF BuildForwardIndex
  <2> SUFFICES ASSUME NEW word \in Text
               PROVE  /\ \A i \in DOMAIN inverted_index[word] :
                           LET elem == inverted_index[word][i] IN
                             /\ elem.doc_id < Indexed
                             /\ elem.word = word
                             /\ elem.weight =
                                  Weight(forward_index'[elem.doc_id + 1], StopWords, word)
                             /\ elem.weight > 0
                      /\ \A d \in 1 .. Indexed :
                           Weight(forward_index'[d], StopWords, word) > 0 =>
                             \E i \in DOMAIN inverted_index[word] :
                                inverted_index[word][i].doc_id = d - 1
    BY <2>1, <2>3 DEF IndexIsInverse
  <2>4. ASSUME NEW i \in DOMAIN inverted_index[word]
        PROVE  forward_index'[inverted_index[word][i].doc_id + 1]
                 = forward_index[inverted_index[word][i].doc_id + 1]
    <3>1. inverted_index[word] \in Seq(InvertedElem)
      BY DEF TypeOK
    <3>2. inverted_index[word][i] \in InvertedElem
      BY <3>1
    <3>3. inverted_index[word][i].doc_id \in Nat
      BY <3>2 DEF InvertedElem
    <3>4. inverted_index[word][i].doc_id < Indexed
      BY DEF IndexIsInverse
    <3>5. inverted_index[word][i].doc_id + 1 \in 1 .. Indexed
      BY <3>3, <3>4, <2>1, <1>1
    <3> QED
      BY <3>5, <2>2
  <2> QED
    BY <2>2, <2>4 DEF IndexIsInverse
<1>10. Progress'
  BY <1>1, <1>5 DEF Progress, TypeOK, BuildForwardIndex
<1>11. FieldsKept'
  <2> SUFFICES ASSUME NEW d \in DOMAIN forward_index', Len(input[d]) >= 3
               PROVE  LET new == forward_index'[d] IN
                        /\ new.title = input[d][1]
                        /\ new.content = input[d][2]
                        /\ new.url = input[d][3]
    BY DEF FieldsKept, BuildForwardIndex
  <2>1. CASE d \in DOMAIN forward_index
    BY <2>1, <1>5 DEF FieldsKept
  <2>2. CASE d = Len(forward_index')
    <3>1. Len(results) >= 3 /\ d = line + 1
      BY <2>2, <1>1, <1>5
    <3>2. title = results[1] /\ content = results[2] /\ url = results[3]
      BY <3>1, <1>1 DEF Field
    <3> QED
      BY <3>1, <3>2, <2>2, <1>5
  <2> QED
    BY <2>1, <2>2, <1>5
<1> QED
  BY <1>6, <1>7, <1>8, <1>9, <1>10, <1>11

(* The elements pushed for the last document come after all others in      *)
(* their lists and are the only ones that name it.                         *)
LEMMA InvertIInv ==
    ASSUME IInv, BuildInvertedIndex
    PROVE  IInv'
<1> DEFINE n == Len(forward_index)
           doc == forward_index[n]
           occurs(word) == Count(doc.title, StopWords, word)
                             + Count(doc.content, StopWords, word) > 0
           elem(word) == [doc_id |-> doc.doc_id, word |-> word,
                          weight |-> Weight(doc, StopWords, word)]
<1>1. /\ bpc = "invert" /\ bpc' = "getline"
      /\ UNCHANGED <<input, line, forward_index>>
      /\ inverted_index' = PushElems(doc, StopWords)
  BY DEF BuildInvertedIndex, InvertBut
<1>2. /\ forward_index \in Seq(DocInfo) /\ n \in Nat \ {0}
      /\ doc \in DocInfo /\ doc.doc_id = n - 1
  BY <1>1 DEF IInv, TypeOK, Progress, DocIdIsPosition
<1>3. Indexed = n - 1 /\ Indexed' = n
  BY <1>1, <1>2 DEF Indexed
<1>4. ASSUME NEW word \in Text
      PROVE  /\ inverted_index[word] \in Seq(InvertedElem)
             /\ elem(word) \in InvertedElem
             /\ elem(word).doc_id = n - 1
             /\ occurs(word) <=> Weight(doc, StopWords, word) > 0
             /\ occurs(word) => inverted_index'[word] = Append(inverted_index[word], elem(word))
             /\ ~occurs(word) => inverted_index'[word] = inverted_index[word]
  <2>1. inverted_index[word] \in Seq(InvertedElem)
    BY DEF IInv, TypeOK
  <2>2. /\ Weight(doc, StopWords, word) \in Nat
        /\ occurs(word) <=> Weight(doc, StopWords, word) > 0
    BY <1>2, WeightType
  <2>3. elem(word) \in InvertedElem /\ elem(word).doc_id = n - 1
    BY <1>2, <2>2 DEF InvertedElem
  <2>4. /\ occurs(word) => inverted_index'[word] = Append(inverted_index[word], elem(word))
        /\ ~occurs(word) => inverted_index'[word] = inverted_index[word]
    BY <1>1 DEF PushElems, InWordMap, Push
  <2> QED
    BY <2>1, <2>2, <2>3, <2>4
<1>5. TypeOK'
  <2>1. ASSUME NEW word \in Text
        PROVE  inverted_index'[word] \in Seq(InvertedElem)
    <3> HIDE DEF occurs, elem
    <3>1. Append(inverted_index[word], elem(word)) \in Seq(InvertedElem)
      BY <1>4, AppendProperties
    <3> QED
      BY <1>4, <3>1
  <2>2. inverted_index' \in [Text -> Seq(InvertedElem)]
    BY <1>1, <2>1 DEF PushElems
  <2> QED
    BY <1>1, <2>2 DEF IInv, TypeOK
<1>6. DocIdIsPosition' /\ FieldsKept' /\ Progress'
  BY <1>1, <1>2 DEF IInv, DocIdIsPosition, FieldsKept, Progress
<1>7. ASSUME NEW word \in Text, NEW i \in DOMAIN inverted_index[word]
      PROVE  LET old == inverted_index[word][i] IN
               /\ old \in InvertedElem /\ old.doc_id \in Nat /\ old.doc_id < n - 1
               /\ old.word = word /\ old.weight > 0
               /\ old.weight = Weight(forward_index[old.doc_id + 1], StopWords, word)
  <2>1. inverted_index[word][i] \in InvertedElem
    <3>1. inverted_index[word] \in Seq(InvertedElem)
      BY <1>4
    <3> QED
      BY <3>1
  <2>2. inverted_index[word][i].doc_id \in Nat
    BY <2>1 DEF InvertedElem
  <2> QED
    BY <2>1, <2>2, <1>3 DEF IInv, IndexIsInverse
<1>8. ASSUME NEW word \in Text, NEW i \in DOMAIN inverted_index'[word]
      PROVE  \/ /\ i \in DOMAIN inverted_index[word]
                /\ inverted_index'[word][i] = inverted_index[word][i]
             \/ /\ occurs(word) /\ i = Len(inverted_index[word]) + 1
                /\ inverted_index'[word][i] = elem(word)
  <2>1. CASE occurs(word)
    <3> DEFINE list == inverted_index[word]
    <3>1. /\ list \in Seq(InvertedElem) /\ elem(word) \in InvertedElem
          /\ inverted_index'[word] = Append(list, elem(word))
      BY <1>4, <2>1
    <3> HIDE DEF list, elem
    <3>2. i \in 1 .. Len(list) + 1
      BY <3>1
    <3>3. CASE i = Len(list) + 1
      BY <3>1, <3>3, <2>1 DEF list
    <3>4. CASE i \in 1 .. Len(list)
      BY <3>1, <3>4 DEF list
    <3> QED
      BY <3>1, <3>2, <3>3, <3>4
  <2>2. CASE ~occurs(word)
    BY <1>4, <2>2
  <2> QED
    BY <2>1, <2>2
<1>9. ListsAscend'
  <2> SUFFICES ASSUME NEW word \in Text, NEW i \in DOMAIN inverted_index'[word],
                      NEW j \in DOMAIN inverted_index'[word], i < j
               PROVE  inverted_index'[word][i].doc_id < inverted_index'[word][j].doc_id
    BY DEF ListsAscend
  <2>1. inverted_index[word] \in Seq(InvertedElem)
    BY <1>4
  <2>2. i \in DOMAIN inverted_index[word]
          /\ inverted_index'[word][i] = inverted_index[word][i]
    <3> HIDE DEF occurs, elem
    <3>1. Len(inverted_index[word]) \in Nat
            /\ DOMAIN inverted_index[word] = 1 .. Len(inverted_index[word])
      BY <2>1, LenProperties
    <3>2. j \in 1 .. Len(inverted_index[word]) + 1 /\ i \in Nat
      BY <1>8, <3>1
    <3>3. i # Len(inverted_index[word]) + 1
      BY <3>1, <3>2
    <3> QED
      BY <3>3, <1>8
  <2>3. CASE /\ j \in DOMAIN inverted_index[word]
             /\ inverted_index'[word][j] = inverted_index[word][j]
    BY <2>2, <2>3 DEF IInv, ListsAscend
  <2>4. CASE inverted_index'[word][j] = elem(word)
    <3>1. inverted_index[word][i].doc_id < n - 1
      BY <2>2, <1>7
    <3>2. inverted_index'[word][j].doc_id = n - 1
      BY <2>4, <1>4
    <3> QED
      BY <3>1, <3>2, <2>2
  <2> QED
    BY <2>3, <2>4, <1>8
<1>10. ASSUME NEW word \in Text, NEW i \in DOMAIN inverted_index'[word]
       PROVE  LET new == inverted_index'[word][i] IN
                /\ new.doc_id < n /\ new.word = word /\ new.weight > 0
                /\ new.weight = Weight(forward_index[new.doc_id + 1], StopWords, word)
  <2>1. CASE /\ i \in DOMAIN inverted_index[word]
             /\ inverted_index'[word][i] = inverted_index[word][i]
    BY <2>1, <1>2, <1>7
  <2>2. CASE occurs(word) /\ inverted_index'[word][i] = elem(word)
    <3>1. elem(word).doc_id = n - 1 /\ Weight(doc, StopWords, word) > 0
      BY <2>2, <1>4
    <3>2. elem(word).doc_id + 1 = n
      BY <3>1, <1>2
    <3> QED
      BY <2>2, <3>1, <3>2, <1>2
  <2> QED
    BY <2>1, <2>2, <1>8
<1>11. ASSUME NEW word \in Text, NEW d \in 1 .. n,
              Weight(forward_index[d], StopWords, word) > 0
       PROVE  \E i \in DOMAIN inverted_index'[word] : inverted_index'[word][i].doc_id = d - 1
  <2> DEFINE list == inverted_index[word]
  <2>1. list \in Seq(InvertedElem) /\ elem(word) \in InvertedElem
    BY <1>4
  <2>2. CASE d = n
    <3>1. inverted_index'[word] = Append(list, elem(word)) /\ elem(word).doc_id = d - 1
      BY <2>2, <1>4, <1>11
    <3> HIDE DEF list, elem
    <3>2. /\ Len(list) + 1 \in DOMAIN Append(list, elem(word))
          /\ Append(list, elem(word))[Len(list) + 1] = elem(word)
      BY <2>1
    <3> QED
      BY <3>1, <3>2
  <2>3. CASE d # n
    <3>1. d \in 1 .. Indexed
      BY <2>3, <1>2, <1>3
    <3>2. PICK i \in DOMAIN list : list[i].doc_id = d - 1
      BY <3>1, <1>11 DEF IInv, IndexIsInverse
    <3>3. i \in DOMAIN inverted_index'[word] /\ inverted_index'[word][i] = list[i]
      <4> HIDE DEF elem
      <4>1. CASE inverted_index'[word] = list
        BY <4>1, <3>2
      <4>2. CASE inverted_index'[word] = Append(list, elem(word))
        BY <4>2, <3>2, <2>1
      <4> QED
        BY <4>1, <4>2, <1>4
    <3> QED
      BY <3>2, <3>3
  <2> QED
    BY <2>2, <2>3
<1>12. IndexIsInverse'
  BY <1>1, <1>3, <1>10, <1>11 DEF IndexIsInverse
<1> QED
  BY <1>5, <1>6, <1>9, <1>12 DEF IInv

(* Every step of BuildIndex (index.hpp:78-107) preserves the invariant.      *)
LEMMA NextIInv == IInv /\ [BuildIndex]_vars => IInv'
<1> SUFFICES ASSUME IInv, [BuildIndex]_vars PROVE IInv'
  OBVIOUS
<1>1. CASE OpenInput
  BY <1>1, SameIndexIInv DEF OpenInput
<1>2. CASE BuildForwardIndex
  BY <1>2, ForwardIInv
<1>3. CASE ReadPastFields
  BY <1>3, SameIndexIInv DEF ReadPastFields
<1>4. CASE BuildInvertedIndex
  BY <1>4, InvertIInv
<1>5. CASE EndOfInput
  BY <1>5, SameIndexIInv DEF EndOfInput
<1>6. CASE UNCHANGED vars
  BY <1>6, SameIndexIInv DEF vars
<1> QED
  BY <1>1, <1>2, <1>3, <1>4, <1>5, <1>6 DEF BuildIndex

(* The inductive invariant holds throughout BuildIndex: the indexes agree   *)
(* with the documents, and the lines read with the documents held.         *)
THEOREM IndexInvariant == Spec => []IInv
  BY InitIInv, NextIInv, PTL DEF Spec

(* The variables of Index keep their types: weights and doc_ids are        *)
(* natural numbers, whatever the segmenter emits (index.hpp:78-168).       *)
THEOREM TypeCorrect == Spec => []TypeOK
<1>1. IInv => TypeOK
  BY DEF IInv
<1> QED
  BY <1>1, IndexInvariant, PTL

(* The doc_id of a document is its position (index.hpp:57-64,120).         *)
THEOREM DocIdsArePositions == Spec => []DocIdIsPosition
<1>1. IInv => DocIdIsPosition
  BY DEF IInv
<1> QED
  BY <1>1, IndexInvariant, PTL

(* No list names a document twice, and each is in document order, so the   *)
(* merge in Search (searcher.hpp:78-84) adds a weight once per query word. *)
THEOREM ListsAreAscending == Spec => []ListsAscend
<1>1. IInv => ListsAscend
  BY DEF IInv
<1> QED
  BY <1>1, IndexInvariant, PTL

(* At every moment of BuildIndex the inverted index holds exactly the      *)
(* words of the documents indexed so far, with exact weights.              *)
THEOREM InverseOfForward == Spec => []IndexIsInverse
<1>1. IInv => IndexIsInverse
  BY DEF IInv
<1> QED
  BY <1>1, IndexInvariant, PTL

(* A line with three fields becomes a document with these fields, and only *)
(* a line with fewer can make BuildIndex die.                              *)
THEOREM LinesAreDocs == Spec => []LinesBecomeDocs
<1>1. IInv => LinesBecomeDocs
  BY DEF IInv, FieldsKept, Progress, LinesBecomeDocs
<1> QED
  BY <1>1, IndexInvariant, PTL
=============================================================================
