---------------------------- MODULE ParserProofs ----------------------------
(***************************************************************************)
(* What is proved of the parser, from the characters of a page to what the *)
(* server makes of raw.txt, for all files, all pages and all failures:     *)
(* first the scanner of a page (Html), then the parser's runs over a       *)
(* directory (Parser), then BuildIndex on the file they leave (Pipeline).  *)
(***************************************************************************)
EXTENDS Html, Pipeline, RawFileProofs

(* The beginnings of a sequence are what can be continued to it.           *)
LEMMA PrefixIs ==
    ASSUME NEW B, NEW a \in Seq(B), NEW c \in Seq(B)
    PROVE  IsPrefix(a, c) <=> \E rest \in Seq(B) : c = a \o rest
<1>1. ASSUME IsPrefix(a, c) PROVE \E rest \in Seq(B) : c = a \o rest
  <2> DEFINE rest == SubSeq(c, Len(a) + 1, Len(c))
  <2>1. Len(a) \in 0 .. Len(c) /\ Len(a) \in Nat /\ Len(c) \in Nat
    BY <1>1 DEF IsPrefix
  <2>2. SubSeq(a, 1, Len(a)) = a
    BY SubSeqFull
  <2>3. SubSeq(c, 1, Len(a)) = a
    BY <1>1, <2>2 DEF IsPrefix
  <2>4. SubSeq(c, 1, Len(a)) \o rest = SubSeq(c, 1, Len(c))
    <3>1. 1 \in 1 .. Len(c) + 1 /\ Len(a) \in 1 - 1 .. Len(c) /\ Len(c) \in Len(a) .. Len(c)
      BY <2>1
    <3> QED
      BY <3>1, ConcatAdjacentSubSeq
  <2>5. rest \in Seq(B)
    BY <2>1
  <2>6. SubSeq(c, 1, Len(c)) = c
    BY SubSeqFull
  <2> QED
    BY <2>3, <2>4, <2>5, <2>6, Zenon
<1>2. ASSUME NEW rest \in Seq(B), c = a \o rest PROVE IsPrefix(a, c)
  <2>1. Len(a \o rest) = Len(a) + Len(rest) /\ Len(a) \in Nat /\ Len(rest) \in Nat
    OBVIOUS
  <2>2. Len(a) <= Len(c)
    BY <1>2, <2>1
  <2>3. SubSeq(a \o rest, 1, Len(a)) = SubSeq(a, 1, Len(a))
    BY <2>1
  <2> QED
    BY <1>2, <2>2, <2>3 DEF IsPrefix
<1> QED
  BY <1>1, <1>2

(* ReadFile yields no '\n'.                                                *)
LEMMA ReadFileIs ==
    ASSUME NEW B, NEW bytes \in Seq(B)
    PROVE  ReadFile(bytes) \in Seq(B \ {Nl})
<1> DEFINE places == {i \in DOMAIN bytes : bytes[i] # Nl}
<1>1. places \in SUBSET (1 .. Len(bytes))
  OBVIOUS
<1>2. /\ places \in SUBSET Nat /\ IsFiniteSet(places) /\ Cardinality(places) \in Nat
      /\ Selected(bytes, places) \in Seq(B) /\ Len(Selected(bytes, places)) = Cardinality(places)
      /\ \A n \in 1 .. Cardinality(places) :
           Selected(bytes, places)[n] = bytes[Nth(places, n)]
  BY <1>1, SelectedIs
<1>3. \A n \in 1 .. Cardinality(places) : bytes[Nth(places, n)] \in B \ {Nl}
  <2>1. ASSUME NEW n \in 1 .. Cardinality(places) PROVE bytes[Nth(places, n)] \in B \ {Nl}
    <3>1. Nth(places, n) \in places
      <4> HIDE DEF places
      <4> QED
        BY <1>2, NthIn
    <3> QED
      BY <3>1
  <2> QED
    BY <2>1
<1> DEFINE sel == Selected(bytes, places)
           m == Cardinality(places)
<1>4. /\ sel \in Seq(B) /\ Len(sel) = m /\ m \in Nat
      /\ \A n \in 1 .. m : sel[n] \in B \ {Nl}
  BY <1>2, <1>3
<1>5. ReadFile(bytes) = sel
  BY DEF ReadFile
<1> HIDE DEF sel, m
<1>6. sel \in [1 .. m -> B \ {Nl}]
  BY <1>4
<1> QED
  BY <1>4, <1>5, <1>6

(* What find finds lies in the text, and so does a title.                  *)
LEMMA TitleIs ==
    ASSUME NEW B, NEW text \in Seq(B), HasTitle(text)
    PROVE  /\ TitleBegin(text) \in 2 .. Len(text) /\ TitleEnd(text) \in 1 .. Len(text)
           /\ text[TitleBegin(text) - 1] = Gt
           /\ Title(text) \in Seq(B)
<1> DEFINE b == Min(Finds(text, OpenTag))
           e == Min(Finds(text, CloseTag))
<1>1. /\ Len(OpenTag) \in Nat /\ Len(OpenTag) > 2 /\ OpenTag[Len(OpenTag)] = Gt
      /\ Len(CloseTag) \in Nat /\ Len(CloseTag) > 2
  <2>1. OpenTag \in Seq(Range(OpenTag)) /\ CloseTag \in Seq(Range(CloseTag))
    BY PageAssumption DEF IsTag
  <2>2. Len(OpenTag) \in Nat /\ Len(CloseTag) \in Nat
    BY <2>1
  <2> QED
    BY <2>2, PageAssumption DEF IsTag
<1>2. Len(text) \in Nat
  OBVIOUS
<1>3. b \in Finds(text, OpenTag) /\ e \in Finds(text, CloseTag)
  <2>1. Finds(text, OpenTag) \in SUBSET Nat /\ Finds(text, CloseTag) \in SUBSET Nat
    BY <1>1, <1>2 DEF Finds
  <2>2. Finds(text, OpenTag) # {} /\ Finds(text, CloseTag) # {}
    BY DEF HasTitle
  <2> QED
    BY <2>1, <2>2, MinIs
<1>4. TitleBegin(text) = b + Len(OpenTag) /\ TitleEnd(text) = e
  BY DEF TitleBegin, TitleEnd
<1> HIDE DEF b, e
<1>5. /\ b \in 1 .. Len(text) - Len(OpenTag) + 1
      /\ SubSeq(text, b, b + Len(OpenTag) - 1) = OpenTag
      /\ e \in 1 .. Len(text) - Len(CloseTag) + 1
  BY <1>3 DEF Finds
<1>6. TitleBegin(text) <= TitleEnd(text)
  BY DEF HasTitle
<1>7. TitleBegin(text) \in 2 .. Len(text) /\ TitleEnd(text) \in 1 .. Len(text)
  BY <1>1, <1>2, <1>4, <1>5, <1>6
<1>8. text[TitleBegin(text) - 1] = Gt
  <2> DEFINE n == Len(OpenTag)
  <2>1. b \in 1 .. Len(text) /\ n \in Nat /\ n > 2 /\ b + n - 1 \in 1 .. Len(text)
    BY <1>1, <1>2, <1>5
  <2>2. SubSeq(text, b, b + n - 1) = OpenTag /\ OpenTag[n] = Gt /\ TitleBegin(text) = b + n
    BY <1>1, <1>4, <1>5
  <2> HIDE DEF n
  <2>3. SubSeq(text, b, b + n - 1)[n] = text[b + n - 1]
    BY <1>2, <2>1
  <2>4. text[b + n - 1] = Gt
    BY <2>2, <2>3
  <2>5. (b + n) - 1 = b + n - 1
    BY <2>1
  <2> QED
    BY <2>2, <2>4, <2>5
<1>9. Title(text) \in Seq(B)
  BY <1>2, <1>7 DEF Title
<1> QED
  BY <1>7, <1>8, <1>9

(* A title without a tag is a run of body positions.                       *)
LEMMA TitleIsPiece ==
    ASSUME NEW B, NEW text \in Seq(B), HasTitle(text), Lt \notin Range(Title(text))
    PROVE  LET body == Content(text)
               piece == Title(text)
           IN \E i \in 0 .. Len(body) - Len(piece) :
                SubSeq(body, i + 1, i + Len(piece)) = piece
<1> DEFINE b == TitleBegin(text)
           e == TitleEnd(text)
           run == b .. e - 1
           before == {i \in Body(text) : i < b}
           after == {i \in Body(text) : i >= e}
<1>1. /\ b \in 2 .. Len(text) /\ e \in 1 .. Len(text) /\ b <= e
      /\ Len(text) \in Nat /\ DOMAIN text = 1 .. Len(text) /\ text[b - 1] = Gt
  BY TitleIs DEF HasTitle
<1>2. Title(text) = SubSeq(text, b, e - 1)
  BY DEF Title
<1> HIDE DEF b, e
<1>3. ASSUME NEW i \in run PROVE text[i] # Lt
  <2>1. i - b + 1 \in 1 .. (e - 1) - b + 1 /\ Len(Title(text)) = (e - 1) - b + 1
    BY <1>1, <1>2
  <2>2. Title(text)[i - b + 1] = text[i]
    BY <1>1, <1>2, <2>1
  <2>3. Title(text) \in Seq(B)
    BY TitleIs
  <2>4. Title(text)[i - b + 1] \in Range(Title(text))
    BY <2>1, <2>3 DEF Range
  <2> QED
    BY <2>2, <2>4
<1>4. run \in SUBSET Body(text)
  <2>1. ASSUME NEW i \in run PROVE i \in Body(text)
    <3>1. i \in 1 .. Len(text) /\ b - 1 \in 1 .. i - 1
      BY <1>1
    <3>2. ASSUME NEW j \in b - 1 .. i - 1 PROVE text[j] # Lt
      <4>1. j = b - 1 \/ j \in run
        BY <1>1
      <4>2. Gt # Lt
        BY PageAssumption
      <4> QED
        BY <1>1, <1>3, <4>1, <4>2
    <3>3. AfterGt(text, i - 1)
      BY <1>1, <3>1, <3>2 DEF AfterGt
    <3> QED
      BY <1>1, <1>3, <3>1, <3>3 DEF Body
  <2> QED
    BY <2>1
<1>5. Body(text) \in SUBSET (1 .. Len(text))
  BY <1>1 DEF Body
<1>6. Body(text) = (before \cup run) \cup after
  <2>1. \A i \in Body(text) : i < b \/ i \in run \/ i >= e
    BY <1>1, <1>5
  <2> QED
    BY <1>4, <2>1
<1> DEFINE x == Selected(text, before)
           y == Selected(text, run)
           z == Selected(text, after)
<1>7. Content(text) = (x \o y) \o z
  <2>1. /\ before \in SUBSET (1 .. Len(text)) /\ run \in SUBSET (1 .. Len(text))
        /\ after \in SUBSET (1 .. Len(text)) /\ before \cup run \in SUBSET (1 .. Len(text))
    BY <1>1, <1>5
  <2>2. \A i \in before, j \in run : i < j
    BY <1>1, <1>5
  <2>3. \A i \in before \cup run, j \in after : i < j
    BY <1>1, <1>5
  <2>4. Selected(text, before \cup run) = x \o y
    BY <2>1, <2>2, SelectedConcat
  <2>5. Selected(text, (before \cup run) \cup after) = Selected(text, before \cup run) \o z
    BY <2>1, <2>3, SelectedConcat
  <2> QED
    BY <1>6, <2>4, <2>5 DEF Content
<1>8. y = Title(text) /\ x \in Seq(B) /\ y \in Seq(B) /\ z \in Seq(B)
  <2>1. b \in 1 .. Len(text) + 1 /\ e - 1 \in 0 .. Len(text) /\ b <= (e - 1) + 1
    BY <1>1
  <2>2. y = Title(text)
    BY <1>2, <2>1, SelectedInterval
  <2>3. before \in SUBSET (1 .. Len(text)) /\ after \in SUBSET (1 .. Len(text))
    BY <1>5
  <2>4. x \in Seq(B) /\ z \in Seq(B)
    BY <2>3, SelectedIs
  <2> QED
    BY <2>2, <2>4, TitleIs
<1> HIDE DEF x, y, z
<1>9. Len((x \o y) \o z) = Len(x) + Len(y) + Len(z)
  BY <1>8
<1>10. SubSeq((x \o y) \o z, Len(x) + 1, Len(x) + Len(y)) = y
  <2> DEFINE w == (x \o y) \o z
  <2>1. \A n \in 1 .. Len(y) : w[Len(x) + n] = y[n]
    BY <1>8
  <2>2. w \in Seq(B) /\ Len(w) = Len(x) + Len(y) + Len(z)
    BY <1>8
  <2> HIDE DEF w
  <2>3. SubSeq(w, Len(x) + 1, Len(x) + Len(y)) = [n \in 1 .. Len(y) |-> w[Len(x) + n]]
    BY <1>8, <2>2
  <2>4. y = [n \in 1 .. Len(y) |-> y[n]]
    BY <1>8
  <2> QED
    BY <2>1, <2>3, <2>4 DEF w
<1>11. Len(x) \in 0 .. Len(Content(text)) - Len(Title(text))
  BY <1>7, <1>8, <1>9
<1>12. SubSeq(Content(text), Len(x) + 1, Len(x) + Len(Title(text))) = Title(text)
  BY <1>7, <1>8, <1>10
<1> QED
  BY <1>11, <1>12

-----------------------------------------------------------------------------
(* ParseHtml for every file: ReadFile joins the lines to the file without  *)
(* its line ends, the status of the scanner is a property of the brackets  *)
(* read so far, what it has pushed is the closed form Content, and a title *)
(* is part of it.  HtmlInv adds to the invariants the types, of which the  *)
(* one of result says that ReadFile leaves no '\n' in it; Joined: what is  *)
(* joined stands before the line that is read next; and Ranked: the n-th   *)
(* character pushed is the one at the n-th position of the body.           *)
PageByte == UNION {Range(f) : f \in Files}
PageChar == PageByte \ {Nl}

HtmlTypeOK ==
    /\ file \in Files
    /\ read \in 0 .. Len(Lines(file))
    /\ result \in Seq(PageChar) /\ title \in Seq(PageChar) /\ content \in Seq(PageChar)
    /\ pos \in 0 .. Len(result)
    /\ s \in {"LABLE", "CONTENT"}
    /\ hpc \in {"read", "title", "content", "skipped", "parsed"}

NotScanned == hpc \in {"read", "title"} => pos = 0

(* The positions up to k that belong to the body.                          *)
BodyTo(k) == {i \in 1 .. k : result[i] # Lt /\ AfterGt(result, i - 1)}

Ranked ==
    /\ Len(content) = Cardinality(BodyTo(pos))
    /\ \A n \in 1 .. Len(content) : content[n] = result[Nth(BodyTo(pos), n)]

(* ReadFile has joined what stands before the line it reads next.          *)
Joined ==
    result = IF hpc = "read" THEN Selected(file, Kept(file, LineBegin(file, read + 1)))
                             ELSE ReadFile(file)

(* What ParseTitle has found, and when the scanner has seen everything.    *)
Titled ==
    /\ hpc \in {"content", "parsed"} => HasTitle(result) /\ title = Title(result)
    /\ hpc = "parsed" => pos = Len(result)

HtmlInv ==
    HtmlTypeOK /\ NotScanned /\ StatusIsLastBracket /\ Ranked /\ Joined /\ Titled

(* Nothing is text before the first character.                             *)
LEMMA NothingYet ==
    ~AfterGt(result, 0) /\ BodyTo(0) = {} /\ Cardinality(BodyTo(0)) = 0
<1>1. ~AfterGt(result, 0)
  BY DEF AfterGt
<1>2. BodyTo(0) = {}
  BY DEF BodyTo
<1> QED
  BY <1>1, <1>2, FS_EmptySet

(* One character more: a '>' begins text, a '<' ends it.                   *)
LEMMA BracketStep ==
    ASSUME NEW k \in Nat
    PROVE  AfterGt(result, k + 1) <=>
             result[k + 1] # Lt /\ (result[k + 1] = Gt \/ AfterGt(result, k))
<1>1. Lt # Gt
  BY PageAssumption
<1>2. ASSUME AfterGt(result, k + 1)
      PROVE  result[k + 1] # Lt /\ (result[k + 1] = Gt \/ AfterGt(result, k))
  <2>1. PICK g \in 1 .. k + 1 : result[g] = Gt /\ \A i \in g .. k + 1 : result[i] # Lt
    BY <1>2 DEF AfterGt
  <2>2. k + 1 \in g .. k + 1
    OBVIOUS
  <2>3. CASE g = k + 1
    BY <2>1, <2>2, <2>3
  <2>4. CASE g \in 1 .. k
    <3>1. \A i \in g .. k : i \in g .. k + 1
      BY <2>4
    <3> QED
      BY <2>1, <2>2, <2>4, <3>1 DEF AfterGt
  <2> QED
    BY <2>3, <2>4
<1>3. ASSUME result[k + 1] # Lt, result[k + 1] = Gt
      PROVE  AfterGt(result, k + 1)
  <2>1. k + 1 \in 1 .. k + 1 /\ \A i \in k + 1 .. k + 1 : i = k + 1
    OBVIOUS
  <2> QED
    BY <1>1, <1>3, <2>1 DEF AfterGt
<1>4. ASSUME result[k + 1] # Lt, AfterGt(result, k)
      PROVE  AfterGt(result, k + 1)
  <2>1. PICK g \in 1 .. k : result[g] = Gt /\ \A i \in g .. k : result[i] # Lt
    BY <1>4 DEF AfterGt
  <2>2. g \in 1 .. k + 1 /\ \A i \in g .. k + 1 : i \in g .. k \/ i = k + 1
    OBVIOUS
  <2> QED
    BY <1>4, <2>1, <2>2 DEF AfterGt
<1> QED
  BY <1>2, <1>3, <1>4

(* The body grows at its end or not at all.                                *)
LEMMA BodyStep ==
    ASSUME NEW k \in Nat
    PROVE  /\ BodyTo(k) \in SUBSET Nat /\ IsFiniteSet(BodyTo(k))
           /\ \A i \in BodyTo(k) : i < k + 1
           /\ BodyTo(k + 1) = IF result[k + 1] # Lt /\ AfterGt(result, k)
                              THEN BodyTo(k) \cup {k + 1} ELSE BodyTo(k)
<1>1. BodyTo(k) \in SUBSET (1 .. k)
  BY DEF BodyTo
<1>2. IsFiniteSet(1 .. k)
  BY FS_Interval
<1>3. IsFiniteSet(BodyTo(k))
  BY <1>1, <1>2, FS_Subset
<1>4. \A i : i \in 1 .. k + 1 <=> i \in 1 .. k \/ i = k + 1
  OBVIOUS
<1>5. (k + 1) - 1 = k
  OBVIOUS
<1>6. BodyTo(k + 1) = IF result[k + 1] # Lt /\ AfterGt(result, k)
                      THEN BodyTo(k) \cup {k + 1} ELSE BodyTo(k)
  BY <1>4, <1>5 DEF BodyTo
<1> QED
  BY <1>1, <1>3, <1>6

(* Nothing stands before the first line, and everything before the end.    *)
LEMMA JoinedEnds ==
    ASSUME NEW f \in Files
    PROVE  /\ f \in Seq(PageByte) /\ Len(f) \in Nat
           /\ Lines(f) \in Seq(Seq(PageChar)) /\ Len(Lines(f)) \in Nat
           /\ Selected(f, Kept(f, LineBegin(f, 1))) = <<>>
           /\ Selected(f, Kept(f, LineBegin(f, Len(Lines(f)) + 1))) = ReadFile(f)
<1>1. f \in Seq(PageByte) /\ Len(f) \in Nat /\ DOMAIN f = 1 .. Len(f)
  BY FileAssumption DEF PageByte
<1>2. Lines(f) \in Seq(Seq(PageChar)) /\ Len(Lines(f)) \in Nat
  <2>1. Lines(f) \in Seq(Seq(PageChar))
    BY <1>1, LinesHaveNoNl DEF PageChar
  <2> QED
    BY <2>1
<1>3. Kept(f, LineBegin(f, 1)) = {}
  BY <1>1, FirstLine DEF Kept
<1>4. Selected(f, {}) = <<>>
  BY FS_EmptySet DEF Selected
<1>5. LineBegin(f, Len(Lines(f)) + 1) = Len(f) + 1
  BY <1>1, LineStartsAre DEF LineBegin
<1>6. Kept(f, Len(f) + 1) = {i \in DOMAIN f : f[i] # Nl}
  BY <1>1 DEF Kept
<1> QED
  BY <1>1, <1>2, <1>3, <1>4, <1>5, <1>6 DEF ReadFile

(* A file is opened.                                                       *)
LEMMA HtmlInitInv == HtmlInit => HtmlInv
<1> SUFFICES ASSUME HtmlInit PROVE HtmlInv
  OBVIOUS
<1> USE DEF HtmlInit
<1>1. Len(Lines(file)) \in Nat
  BY JoinedEnds
<1>2. HtmlTypeOK
  BY <1>1 DEF HtmlTypeOK
<1>3. NotScanned /\ StatusIsLastBracket /\ Ranked
  BY NothingYet DEF NotScanned, StatusIsLastBracket, Ranked
<1>4. Joined /\ Titled
  BY JoinedEnds DEF Joined, Titled
<1> QED
  BY <1>2, <1>3, <1>4 DEF HtmlInv

(* ReadFile appends a line, before anything is scanned.                    *)
LEMMA GetLineInv == HtmlInv /\ GetLine => HtmlInv'
<1> SUFFICES ASSUME HtmlInv, GetLine PROVE HtmlInv'
  OBVIOUS
<1>1. HtmlTypeOK /\ NotScanned /\ StatusIsLastBracket /\ Ranked /\ Joined
  BY DEF HtmlInv
<1>2. /\ read' = read + 1 /\ read < Len(Lines(file)) /\ hpc = "read"
      /\ result' = result \o Lines(file)[read + 1]
      /\ UNCHANGED <<file, title, content, pos, s, hpc>>
  BY DEF GetLine, LineRead
<1>3. Lines(file) \in Seq(Seq(PageChar))
  BY <1>1, JoinedEnds DEF HtmlTypeOK
<1>4. read + 1 \in 1 .. Len(Lines(file))
  BY <1>1, <1>2, <1>3 DEF HtmlTypeOK
<1>5. Lines(file)[read + 1] \in Seq(PageChar)
  BY <1>3, <1>4
<1>6. pos = 0
  BY <1>1, <1>2 DEF NotScanned
<1>7. result' \in Seq(PageChar) /\ Len(result') \in Nat
  BY <1>1, <1>2, <1>5 DEF HtmlTypeOK
<1>8. HtmlTypeOK'
  BY <1>1, <1>2, <1>4, <1>6, <1>7 DEF HtmlTypeOK
<1>9. ~AfterGt(result', 0) /\ ~AfterGt(result, 0)
  BY DEF AfterGt
<1>10. StatusIsLastBracket'
  BY <1>1, <1>2, <1>6, <1>9 DEF StatusIsLastBracket
<1>11. BodyTo(0) = {} /\ BodyTo(0)' = {}
  BY DEF BodyTo
<1>12. Len(content) = 0 /\ Cardinality({}) = 0
  BY <1>1, <1>6, <1>11, FS_EmptySet DEF Ranked
<1>13. BodyTo(pos)' = {}
  BY <1>2, <1>6 DEF BodyTo
<1>14. Ranked'
  BY <1>2, <1>12, <1>13 DEF Ranked
<1>15. NotScanned'
  BY <1>1, <1>2 DEF NotScanned
<1>16. Joined'
  <2>1. file \in Seq(PageByte) /\ file' = file /\ hpc' = "read"
    BY <1>1, <1>2, JoinedEnds DEF HtmlTypeOK
  <2>2. Selected(file, Kept(file, LineBegin(file, (read + 1) + 1)))
          = Selected(file, Kept(file, LineBegin(file, read + 1))) \o Lines(file)[read + 1]
    BY <1>4, <2>1, LineJoins
  <2>3. result' = Selected(file, Kept(file, LineBegin(file, read' + 1)))
    BY <1>1, <1>2, <2>2 DEF Joined
  <2> QED
    BY <2>1, <2>3 DEF Joined
<1>17. Titled'
  BY <1>2 DEF Titled
<1> QED
  BY <1>8, <1>10, <1>14, <1>15, <1>16, <1>17 DEF HtmlInv

(* One character is scanned.                                               *)
LEMMA ScanInv == HtmlInv /\ ParseContent => HtmlInv'
<1> SUFFICES ASSUME HtmlInv, ParseContent PROVE HtmlInv'
  OBVIOUS
<1> DEFINE c == result[pos + 1]
<1>1. HtmlTypeOK /\ NotScanned /\ StatusIsLastBracket /\ Ranked /\ Joined /\ Titled
  BY DEF HtmlInv
<1>2. /\ pos' = pos + 1 /\ pos < Len(result) /\ hpc = "content"
      /\ UNCHANGED <<file, read, result, title, hpc>>
      /\ IF s = "LABLE" THEN s' = InLable(c) /\ content' = content
         ELSE s' = InContent(c) /\ content' = content \o Pushed(c)
  BY DEF ParseContent
<1>3. /\ result \in Seq(PageChar) /\ content \in Seq(PageChar) /\ Len(result) \in Nat
      /\ pos \in Nat /\ pos + 1 \in 1 .. Len(result) /\ s \in {"LABLE", "CONTENT"}
  BY <1>1, <1>2 DEF HtmlTypeOK
<1>4. c \in PageChar /\ c # Nl
  BY <1>3 DEF PageChar
<1>5. Lt # Gt
  BY PageAssumption
<1>6. s = "CONTENT" <=> AfterGt(result, pos)
  BY <1>1 DEF StatusIsLastBracket
<1>7. AfterGt(result, pos + 1) <=> c # Lt /\ (c = Gt \/ AfterGt(result, pos))
  BY <1>3, BracketStep
<1> HIDE DEF c
<1>8. StatusIsLastBracket'
  <2>1. s' = "CONTENT" <=> AfterGt(result, pos + 1)
    BY <1>2, <1>3, <1>5, <1>6, <1>7 DEF InLable, InContent
  <2> QED
    BY <1>2, <2>1 DEF StatusIsLastBracket
<1>9. content' = IF c # Lt /\ AfterGt(result, pos) THEN Append(content, c) ELSE content
  <2>1. content \o <<>> = content /\ content \o <<c>> = Append(content, c)
    BY <1>3, <1>4
  <2>2. Pushed(c) = IF c = Lt THEN <<>> ELSE <<c>>
    BY <1>4 DEF Pushed
  <2> QED
    BY <1>2, <1>3, <1>6, <2>1, <2>2
<1>10. content' \in Seq(PageChar)
  BY <1>3, <1>4, <1>9
<1>11. HtmlTypeOK'
  <2>1. pos' \in 0 .. Len(result) /\ s' \in {"LABLE", "CONTENT"}
    BY <1>2, <1>3 DEF InLable, InContent
  <2> QED
    BY <1>1, <1>2, <1>10, <2>1 DEF HtmlTypeOK
<1>12. /\ BodyTo(pos) \in SUBSET Nat /\ IsFiniteSet(BodyTo(pos))
       /\ \A i \in BodyTo(pos) : i < pos + 1
       /\ BodyTo(pos + 1) = IF c # Lt /\ AfterGt(result, pos)
                            THEN BodyTo(pos) \cup {pos + 1} ELSE BodyTo(pos)
  BY <1>3, BodyStep DEF c
<1>13. BodyTo(pos)' = BodyTo(pos + 1)
  BY <1>2 DEF BodyTo
<1>14. Ranked'
  <2>1. Len(content) = Cardinality(BodyTo(pos)) /\ Len(content) \in Nat
    BY <1>1, <1>3 DEF Ranked
  <2>2. CASE c # Lt /\ AfterGt(result, pos)
    <3>1. BodyTo(pos)' = BodyTo(pos) \cup {pos + 1} /\ content' = Append(content, c)
      BY <1>9, <1>12, <1>13, <2>2
    <3>2. /\ Cardinality(BodyTo(pos) \cup {pos + 1}) = Len(content) + 1
          /\ Nth(BodyTo(pos) \cup {pos + 1}, Len(content) + 1) = pos + 1
          /\ \A n \in 1 .. Len(content) :
               Nth(BodyTo(pos) \cup {pos + 1}, n) = Nth(BodyTo(pos), n)
      <4>1. pos + 1 \in Nat
        BY <1>3
      <4> QED
        BY <1>12, <2>1, <4>1, NthGrows
    <3>3. /\ Len(content') = Len(content) + 1 /\ content'[Len(content) + 1] = c
          /\ \A n \in 1 .. Len(content) : content'[n] = content[n]
      BY <1>3, <1>4, <3>1
    <3>4. ASSUME NEW n \in 1 .. Len(content')
          PROVE  content'[n] = result[Nth(BodyTo(pos) \cup {pos + 1}, n)]
      <4>1. n \in 1 .. Len(content) \/ n = Len(content) + 1
        BY <2>1, <3>3
      <4> QED
        BY <1>1, <3>2, <3>3, <4>1 DEF Ranked, c
    <3> QED
      BY <1>2, <3>1, <3>2, <3>3, <3>4 DEF Ranked
  <2>3. CASE ~(c # Lt /\ AfterGt(result, pos))
    <3>1. BodyTo(pos)' = BodyTo(pos) /\ content' = content
      BY <1>9, <1>12, <1>13, <2>3
    <3> QED
      BY <1>1, <1>2, <3>1 DEF Ranked
  <2> QED
    BY <2>2, <2>3
<1>15. NotScanned'
  BY <1>2 DEF NotScanned
<1>16. Joined' /\ Titled'
  BY <1>1, <1>2 DEF Joined, Titled
<1> QED
  BY <1>8, <1>11, <1>14, <1>15, <1>16 DEF HtmlInv

(* Every step of ParseHtml.                                                *)
LEMMA HtmlNextInv == HtmlInv /\ [HtmlNext]_htmlvars => HtmlInv'
<1> SUFFICES ASSUME HtmlInv, [HtmlNext]_htmlvars PROVE HtmlInv'
  OBVIOUS
<1>1. CASE GetLine
  BY <1>1, GetLineInv
<1>2. CASE ParseContent
  BY <1>2, ScanInv
<1>3. CASE EndOfFile \/ ParseTitle \/ PushBack \/ UNCHANGED htmlvars
  <2>1. /\ UNCHANGED <<file, read, result, content, pos, s>>
        /\ hpc' \in {"read", "title", "content", "skipped", "parsed"}
        /\ hpc' \in {"read", "title"} => hpc \in {"read", "title"}
    BY <1>3 DEF EndOfFile, ParseTitle, PushBack, htmlvars, HtmlInv, HtmlTypeOK
  <2>2. title' \in Seq(PageChar)
    <3>1. CASE ParseTitle
      BY <3>1, TitleIs DEF ParseTitle, HtmlInv, HtmlTypeOK
    <3>2. CASE ~ParseTitle
      BY <1>3, <3>2 DEF EndOfFile, PushBack, htmlvars, HtmlInv, HtmlTypeOK
    <3> QED
      BY <3>1, <3>2
  <2>3. HtmlTypeOK' /\ NotScanned' /\ StatusIsLastBracket'
    BY <2>1, <2>2 DEF HtmlInv, HtmlTypeOK, NotScanned, StatusIsLastBracket
  <2>4. BodyTo(pos)' = BodyTo(pos)
    BY <2>1 DEF BodyTo
  <2>5. Ranked'
    BY <2>1, <2>4 DEF HtmlInv, Ranked
  <2>6. Joined'
    <3>1. CASE EndOfFile
      <4>1. file \in Files /\ read = Len(Lines(file)) /\ hpc = "read" /\ hpc' = "title"
        BY <3>1 DEF EndOfFile, HtmlInv, HtmlTypeOK
      <4>2. result = ReadFile(file)
        BY <4>1, JoinedEnds DEF HtmlInv, Joined
      <4> QED
        BY <2>1, <4>1, <4>2 DEF Joined
    <3>2. CASE ~EndOfFile
      <4>1. hpc' = "read" <=> hpc = "read"
        BY <1>3, <3>2 DEF ParseTitle, PushBack, htmlvars
      <4> QED
        BY <2>1, <4>1 DEF HtmlInv, Joined
    <3> QED
      BY <3>1, <3>2
  <2>7. Titled'
    BY <1>3 DEF EndOfFile, ParseTitle, PushBack, htmlvars, HtmlInv, Titled
  <2> QED
    BY <2>3, <2>5, <2>6, <2>7 DEF HtmlInv
<1> QED
  BY <1>1, <1>2, <1>3 DEF HtmlNext

(* HtmlInv holds throughout.                                               *)
LEMMA HtmlInvariant == HtmlSpec => []HtmlInv
  BY HtmlInitInv, HtmlNextInv, PTL DEF HtmlSpec

(* Ranked, with the text that the scanner has seen cut off.                *)
LEMMA RankedIsContent == HtmlInv => ContentIsBody
<1> SUFFICES ASSUME HtmlInv PROVE ContentIsBody
  OBVIOUS
<1> DEFINE text == SubSeq(result, 1, pos)
<1>1. /\ result \in Seq(PageChar) /\ content \in Seq(PageChar)
      /\ pos \in 0 .. Len(result) /\ Len(result) \in Nat
      /\ Ranked
  BY DEF HtmlInv, HtmlTypeOK
<1>2. /\ Len(text) = pos /\ DOMAIN text = 1 .. pos
      /\ \A i \in 1 .. pos : text[i] = result[i]
  BY <1>1
<1> HIDE DEF text
<1>3. ASSUME NEW i \in 1 .. pos PROVE AfterGt(text, i - 1) <=> AfterGt(result, i - 1)
  <2>1. \A g \in 1 .. i - 1 : g \in 1 .. pos /\ \A j \in g .. i - 1 : j \in 1 .. pos
    BY <1>1
  <2> QED
    BY <1>2, <2>1 DEF AfterGt
<1>4. Body(text) = BodyTo(pos)
  BY <1>2, <1>3 DEF Body, BodyTo
<1>5. BodyTo(pos) \in SUBSET Nat /\ IsFiniteSet(BodyTo(pos))
  <2>1. pos \in Nat
    BY <1>1
  <2> QED
    BY <2>1, BodyStep
<1>6. BodyTo(pos) \in SUBSET (1 .. pos)
  BY DEF BodyTo
<1>7. ASSUME NEW n \in 1 .. Len(content)
      PROVE  content[n] = text[Nth(BodyTo(pos), n)]
  <2>1. n \in 1 .. Cardinality(BodyTo(pos)) /\ content[n] = result[Nth(BodyTo(pos), n)]
    BY <1>1 DEF Ranked
  <2>2. Nth(BodyTo(pos), n) \in BodyTo(pos)
    BY <1>5, <2>1, NthIn
  <2> QED
    BY <1>2, <1>6, <2>1, <2>2
<1>8. content = [n \in 1 .. Len(content) |-> text[Nth(BodyTo(pos), n)]]
  BY <1>1, <1>7
<1>9. Len(content) = Cardinality(Body(text))
  BY <1>1, <1>4 DEF Ranked
<1>10. content = Content(text)
  BY <1>4, <1>8, <1>9 DEF Content, Selected
<1> QED
  BY <1>10 DEF ContentIsBody, text

(* The scanner is in CONTENT exactly if a '>' was read and no '<' since,   *)
(* for every file: unpaired brackets do it no lasting harm                 *)
(* (parser.cc:148-166).                                                    *)
THEOREM StatusTracksBrackets == HtmlSpec => []StatusIsLastBracket
<1>1. HtmlInv => StatusIsLastBracket
  BY DEF HtmlInv
<1> QED
  BY <1>1, HtmlInvariant, PTL

(* At every moment the content is the text between brackets of what was    *)
(* scanned, in order and complete: the two-state scanner computes Content, *)
(* for every file (parser.cc:139-169).                                     *)
THEOREM ScannerIsContent == HtmlSpec => []ContentIsBody
<1>1. HtmlInv => ContentIsBody
  BY RankedIsContent
<1> QED
  BY <1>1, HtmlInvariant, PTL

(* ReadFile returns the file without its line ends, with nothing else lost *)
(* or added, whether or not the last line ends, and no title and no        *)
(* content ever holds a '\n': the branch of ParseContent that turns it     *)
(* into a blank is dead (util.hpp:15-31, parser.cc:160).                   *)
THEOREM LineEndsOnlyLost == HtmlSpec => []OnlyLineEndsLost
<1>1. HtmlInv => OnlyLineEndsLost
  <2> SUFFICES ASSUME HtmlInv PROVE OnlyLineEndsLost
    OBVIOUS
  <2>1. title \in Seq(PageChar) /\ content \in Seq(PageChar) /\ Joined
    BY DEF HtmlInv, HtmlTypeOK
  <2>2. Nl \notin Range(title) \cup Range(content)
    BY <2>1 DEF Range, PageChar
  <2> QED
    BY <2>1, <2>2 DEF OnlyLineEndsLost, Joined
<1> QED
  BY <1>1, HtmlInvariant, PTL

(* A title without a tag in it is a piece of the content, for every file:  *)
(* Index counts its words twice (parser.cc:123-169, index.hpp:140-157).    *)
THEOREM TitleStaysInContent == HtmlSpec => []TitleInContent
<1>1. HtmlInv => TitleInContent
  <2> SUFFICES ASSUME HtmlInv, hpc = "parsed", Lt \notin Range(title)
               PROVE  \E i \in 0 .. Len(content) - Len(title) :
                        SubSeq(content, i + 1, i + Len(title)) = title
    BY DEF TitleInContent
  <2>1. result \in Seq(PageChar) /\ HasTitle(result) /\ title = Title(result) /\ pos = Len(result)
    BY DEF HtmlInv, HtmlTypeOK, Titled
  <2>2. content = Content(SubSeq(result, 1, pos))
    BY RankedIsContent DEF ContentIsBody
  <2>3. SubSeq(result, 1, pos) = result
    BY <2>1
  <2> QED
    BY <2>1, <2>2, <2>3, TitleIsPiece
<1> QED
  BY <1>1, HtmlInvariant, PTL

-----------------------------------------------------------------------------
(* The files that EnumFile collects.                                       *)
Found == IF tree = NoRoot THEN {} ELSE {f \in tree : f.regular /\ f.html}

(* Two files give two documents: their urls differ.                        *)
LEMMA ParseInjective ==
    ASSUME tree \in Trees, NEW f \in Found, NEW g \in Found, Parse(f) = Parse(g)
    PROVE  f = g
<1>1. tree \in Trees \ {NoRoot} /\ f \in tree /\ g \in tree
  BY DEF Found
<1>2. /\ f.path \in Seq(Byte) /\ IsPrefix(RootPath, f.path)
      /\ g.path \in Seq(Byte) /\ IsPrefix(RootPath, g.path)
      /\ RootPath \in Seq(Byte) /\ UrlHead \in Seq(Byte)
      /\ f.path = g.path => f = g
  BY <1>1, TreeAssumption
<1>3. ParseUrl(f.path) = ParseUrl(g.path)
  <2>1. Parse(f).url = ParseUrl(f.path) /\ Parse(g).url = ParseUrl(g.path)
    BY DEF Parse
  <2> QED
    BY <2>1
<1> DEFINE n == Len(RootPath)
<1>4. ASSUME NEW path \in Seq(Byte), IsPrefix(RootPath, path)
      PROVE  /\ SubSeq(path, n + 1, Len(path)) \in Seq(Byte)
             /\ path = RootPath \o SubSeq(path, n + 1, Len(path))
  <2>1. PICK rest \in Seq(Byte) : path = RootPath \o rest
    BY <1>2, <1>4, PrefixIs
  <2>2. SubSeq(RootPath \o rest, n + 1, Len(RootPath \o rest)) = rest
    BY <1>2, <2>1
  <2> QED
    BY <2>1, <2>2
<1> DEFINE x == SubSeq(f.path, n + 1, Len(f.path))
           y == SubSeq(g.path, n + 1, Len(g.path))
<1>5. /\ x \in Seq(Byte) /\ f.path = RootPath \o x
      /\ y \in Seq(Byte) /\ g.path = RootPath \o y
  BY <1>2, <1>4
<1>6. UrlHead \o x = UrlHead \o y
  BY <1>3 DEF ParseUrl
<1> HIDE DEF x, y
<1>7. x = y
  BY <1>2, <1>5, <1>6, ConcatSimplifications
<1> QED
  BY <1>2, <1>5, <1>7

(* What the parser makes of a page.                                        *)
LEMMA ParseIs ==
    ASSUME tree \in Trees, NEW f \in Found, IsPage(f)
    PROVE  /\ Parse(f).title \in Seq(Byte \ {Nl}) /\ Parse(f).content \in Seq(Byte \ {Nl})
           /\ Parse(f).url \in Seq(Byte) /\ Parse(f).url = ParseUrl(f.path)
           /\ Parse(f) = [title |-> Parse(f).title, content |-> Parse(f).content,
                          url |-> Parse(f).url]
           /\ Parse(f) \in Documents
<1> DEFINE text == ReadFile(f.bytes)
<1>1. tree \in Trees \ {NoRoot} /\ f \in tree /\ f.regular /\ f.html
  BY DEF Found
<1>2. f.path \in Seq(Byte) /\ f.bytes \in Seq(Byte) /\ UrlHead \in Seq(Byte)
      /\ RootPath \in Seq(Byte) /\ IsPrefix(RootPath, f.path)
  BY <1>1, TreeAssumption
<1>3. text \in Seq(Byte \ {Nl})
  BY <1>2, ReadFileIs
<1>4. f.readable /\ HasTitle(text)
  BY DEF IsPage
<1>5. Parse(f) = [title |-> Title(text), content |-> Content(text), url |-> ParseUrl(f.path)]
  BY DEF Parse
<1>6. Parse(f) \in Documents
  BY <1>1, <1>4 DEF Documents
<1> HIDE DEF text
<1>7. Title(text) \in Seq(Byte \ {Nl})
  BY <1>3, <1>4, TitleIs
<1>8. Content(text) \in Seq(Byte \ {Nl})
  <2>1. Body(text) \in SUBSET (1 .. Len(text))
    BY <1>3 DEF Body
  <2> QED
    BY <1>3, <2>1, SelectedIs DEF Content
<1>9. ParseUrl(f.path) \in Seq(Byte)
  <2>1. SubSeq(f.path, Len(RootPath) + 1, Len(f.path)) \in Seq(Byte)
    <3>1. Len(RootPath) + 1 \in 1 .. Len(f.path) + 1
      BY <1>2 DEF IsPrefix
    <3> QED
      BY <1>2, <3>1
  <2> QED
    BY <1>2, <2>1, ConcatProperties DEF ParseUrl
<1> QED
  BY <1>5, <1>6, <1>7, <1>8, <1>9

(* The documents to be found are those of the pages among the files.       *)
LEMMA DocumentsAre ==
    ASSUME tree \in Trees
    PROVE  /\ Documents = {Parse(f) : f \in {f \in Found : IsPage(f)}}
           /\ Documents \in SUBSET [title : Seq(Byte), content : Seq(Byte), url : Seq(Byte)]
           /\ IsFiniteSet(Found)
<1>1. Documents = {Parse(f) : f \in {f \in Found : IsPage(f)}}
  <2>1. CASE tree = NoRoot
    BY <2>1 DEF Documents, Found
  <2>2. CASE tree # NoRoot
    <3>1. {f \in tree : f.regular /\ f.html /\ f.readable /\ HasTitle(ReadFile(f.bytes))}
            = {f \in Found : IsPage(f)}
      BY <2>2 DEF Found, IsPage
    <3> QED
      BY <2>2, <3>1 DEF Documents
  <2> QED
    BY <2>1, <2>2
<1>2. ASSUME NEW d \in Documents
      PROVE  d \in [title : Seq(Byte), content : Seq(Byte), url : Seq(Byte)]
  <2>1. PICK f \in Found : IsPage(f) /\ d = Parse(f)
    BY <1>1
  <2>2. /\ d.title \in Seq(Byte \ {Nl}) /\ d.content \in Seq(Byte \ {Nl})
        /\ d.url \in Seq(Byte)
        /\ d = [title |-> d.title, content |-> d.content, url |-> d.url]
    BY <2>1, ParseIs
  <2>3. Seq(Byte \ {Nl}) \in SUBSET Seq(Byte)
    <3>1. Byte \ {Nl} \in SUBSET Byte
      OBVIOUS
    <3> QED
      BY <3>1, SeqMonotonic
  <2> QED
    BY <2>2, <2>3
<1>3. IsFiniteSet(Found)
  <2>1. CASE tree = NoRoot
    BY <2>1, FS_EmptySet DEF Found
  <2>2. CASE tree # NoRoot
    <3>1. tree \in Trees \ {NoRoot} /\ Found \in SUBSET tree
      BY <2>2 DEF Found
    <3>2. IsFiniteSet(tree)
      BY <3>1, TreeAssumption
    <3> QED
      BY <3>1, <3>2, FS_Subset
  <2> QED
    BY <2>1, <2>2
<1> QED
  BY <1>1, <1>2, <1>3

(* Types, of which those of the lists say that every file was found by     *)
(* EnumFile and every document is that of a page.                          *)
ParserTypes ==
    /\ tree \in Trees
    /\ files_list \in Seq(Found) /\ results \in Seq(Documents)
    /\ saved \in 0 .. Len(results)
    /\ buffer \in Seq(Byte) /\ bad \in BOOLEAN
    /\ raw = NoRaw \/ raw \in Seq(Byte)
    /\ ppc \in {"enum", "parse", "write", "exited", "dead"}
    /\ code \in {0, 1, 3}
    /\ runs \in 1 .. MaxRuns

(* What is still empty, and what is already.                               *)
Stages ==
    /\ ppc = "enum" => files_list = <<>> /\ results = <<>>
    /\ ppc \in {"enum", "parse"} => saved = 0 /\ buffer = <<>> /\ ~bad
    /\ ppc = "write" => files_list = <<>> /\ raw # NoRaw

NoneTwice ==
    /\ \A i, j \in 1 .. Len(files_list) : files_list[i] = files_list[j] => i = j
    /\ \A i, j \in 1 .. Len(results) : results[i] = results[j] => i = j

(* Each document is either parsed or still to be.                          *)
Parsed(doc) == \E i \in 1 .. Len(results) : results[i] = doc
ToParse(doc) ==
    \E j \in 1 .. Len(files_list) : IsPage(files_list[j]) /\ Parse(files_list[j]) = doc

Partition ==
    ppc \in {"parse", "write"} => \A doc \in Documents : Parsed(doc) <=> ~ToParse(doc)

(* The file and the buffer hold what was handed to the stream; what does   *)
(* when a write has failed, the file holds the beginning of.               *)
Written ==
    ppc = "write" =>
      /\ ~bad => raw \o buffer = First(results, saved)
      /\ bad => buffer = <<>> /\ IsPrefix(raw, First(results, saved))

ParserInv ==
    ParserTypes /\ Stages /\ NoneTwice /\ Partition /\ Written /\ RawIsPrefix /\ ExitZeroSaved

(* When everything is parsed, the results are the documents in some order. *)
LEMMA AllParsed ==
    ASSUME ParserInv, ppc \in {"parse", "write"}, files_list = <<>>
    PROVE  /\ results \in SetToSeqs(Documents)
           /\ results \in Docs(Byte)
<1>1. /\ tree \in Trees /\ results \in Seq(Documents)
      /\ \A i, j \in 1 .. Len(results) : results[i] = results[j] => i = j
  BY DEF ParserInv, ParserTypes, NoneTwice
<1>2. \A doc \in Documents : \E i \in 1 .. Len(results) : results[i] = doc
  BY DEF ParserInv, Partition, Parsed, ToParse
<1>3. results \in SetToSeqs(Documents)
  BY <1>1, <1>2, IsOrder
<1>4. results \in Docs(Byte)
  BY <1>1, DocumentsAre, SeqMonotonic DEF Docs
<1> QED
  BY <1>3, <1>4

(* The bytes of the first records are the beginning of the file to be.     *)
LEMMA PrefixOfSave ==
    ASSUME NEW docs \in Docs(Byte), NEW k \in 0 .. Len(docs), NEW a \in Seq(Byte),
           IsPrefix(a, First(docs, k))
    PROVE  IsPrefix(a, Save(docs))
<1>1. {Sep, Nl} \subseteq Byte
  BY TreeAssumption
<1>2. First(docs, k) \in Seq(Byte) /\ Save(docs) \in Seq(Byte)
  <2>1. Len(docs) \in 0 .. Len(docs)
    BY DocsAre
  <2> QED
    BY <1>1, <2>1, SaveSteps
<1>3. PICK x \in Seq(Byte) : First(docs, k) = a \o x
  BY <1>2, PrefixIs
<1>4. PICK y \in Seq(Byte) : Save(docs) = First(docs, k) \o y
  BY <1>1, FirstIsPrefix
<1>5. (a \o x) \o y = a \o (x \o y) /\ x \o y \in Seq(Byte)
  BY ConcatAssociative, ConcatProperties
<1>6. Save(docs) = a \o (x \o y)
  BY <1>3, <1>4, <1>5
<1> QED
  BY <1>2, <1>5, <1>6, PrefixIs

(* The files under data/input stay what they are.                          *)
LEMMA SameTree ==
    ASSUME tree' = tree
    PROVE  Documents' = Documents /\ Found' = Found
  BY DEF Documents, Found

(* So does what is said of raw.txt, while nothing is written.              *)
LEMMA RawStays ==
    ASSUME RawIsPrefix, tree' = tree, raw' = raw
    PROVE  RawIsPrefix'
<1>1. Documents' = Documents
  BY SameTree
<1> QED
  BY <1>1 DEF RawIsPrefix

(* main begins.                                                            *)
LEMMA ParserInitInv == ParserInit => ParserInv
<1> SUFFICES ASSUME ParserInit PROVE ParserInv
  OBVIOUS
<1> USE DEF ParserInit
<1>1. ParserTypes
  <2>1. files_list \in Seq(Found) /\ results \in Seq(Documents) /\ buffer \in Seq(Byte)
        /\ saved \in 0 .. Len(results)
    OBVIOUS
  <2>2. runs \in 1 .. MaxRuns
    BY TreeAssumption
  <2> QED
    BY <2>1, <2>2 DEF ParserTypes
<1>2. Stages /\ Written /\ Partition /\ RawIsPrefix /\ ExitZeroSaved
  BY DEF Stages, Written, Partition, RawIsPrefix, ExitZeroSaved
<1>3. NoneTwice
  BY DEF NoneTwice
<1> QED
  BY <1>1, <1>2, <1>3 DEF ParserInv

(* The files are found, each once.                                         *)
LEMMA EnumFileInv == ParserInv /\ EnumFile => ParserInv'
<1> SUFFICES ASSUME ParserInv, EnumFile PROVE ParserInv'
  OBVIOUS
<1>1. /\ ParserTypes /\ Stages /\ NoneTwice /\ RawIsPrefix
      /\ ppc = "enum" /\ files_list = <<>> /\ results = <<>>
      /\ saved = 0 /\ buffer = <<>> /\ ~bad
      /\ UNCHANGED <<tree, results, saved, buffer, bad, raw, runs>>
  BY DEF ParserInv, EnumFile, Stages, stream
<1>2. Documents' = Documents /\ Found' = Found /\ RawIsPrefix'
  BY <1>1, SameTree, RawStays
<1>3. /\ tree' \in Trees /\ results' \in Seq(Documents) /\ saved' \in 0 .. Len(results)
      /\ buffer' \in Seq(Byte) /\ bad' \in BOOLEAN /\ (raw' = NoRaw \/ raw' \in Seq(Byte))
      /\ runs' \in 1 .. MaxRuns
  BY <1>1 DEF ParserTypes
<1>4. CASE tree = NoRoot
  <2>1. files_list' = files_list /\ ppc' = "exited" /\ code' = 1
    BY <1>4 DEF EnumFile, Exit
  <2>2. ParserTypes'
    BY <1>1, <1>2, <1>3, <2>1 DEF ParserTypes
  <2>3. Stages' /\ NoneTwice' /\ Partition' /\ Written' /\ ExitZeroSaved'
    BY <1>1, <2>1 DEF Stages, NoneTwice, Partition, Written, ExitZeroSaved
  <2> QED
    BY <1>2, <2>2, <2>3 DEF ParserInv
<1>5. CASE tree # NoRoot
  <2>1. files_list' \in SetToSeqs(Found) /\ ppc' = "parse" /\ code' = code
    BY <1>5 DEF EnumFile, Found
  <2>2. IsFiniteSet(Found) /\ Documents = {Parse(f) : f \in {f \in Found : IsPage(f)}}
    BY <1>1, DocumentsAre DEF ParserTypes
  <2>3. /\ files_list' \in Seq(Found)
        /\ {files_list'[i] : i \in 1 .. Len(files_list')} = Found
        /\ \A i, j \in 1 .. Len(files_list') : files_list'[i] = files_list'[j] => i = j
    BY <2>1, <2>2, OrderIs
  <2>4. ParserTypes'
    BY <1>1, <1>2, <1>3, <2>1, <2>3 DEF ParserTypes
  <2>5. Stages' /\ Written' /\ ExitZeroSaved'
    BY <1>1, <2>1 DEF Stages, Written, ExitZeroSaved
  <2>6. NoneTwice'
    BY <1>1, <2>3 DEF NoneTwice
  <2>7. Partition'
    <3>1. ASSUME NEW doc \in Documents PROVE ToParse(doc)'
      <4>1. PICK f \in Found : IsPage(f) /\ doc = Parse(f)
        BY <2>2
      <4>2. PICK i \in 1 .. Len(files_list') : files_list'[i] = f
        BY <2>3
      <4> QED
        BY <4>1, <4>2 DEF ToParse
    <3>2. ASSUME NEW doc \in Documents PROVE ~Parsed(doc)'
      BY <1>1 DEF Parsed
    <3> QED
      BY <1>2, <3>1, <3>2 DEF Partition
  <2> QED
    BY <1>2, <2>4, <2>5, <2>6, <2>7 DEF ParserInv
<1> QED
  BY <1>4, <1>5

(* A file is read: its document goes from the ones to be parsed to the     *)
(* parsed ones, or there is none.                                          *)
LEMMA ParseHtmlInv == ParserInv /\ ParseHtml => ParserInv'
<1> SUFFICES ASSUME ParserInv, ParseHtml PROVE ParserInv'
  OBVIOUS
<1> PICK f : f = Head(files_list)
  OBVIOUS
<1> DEFINE n == Len(files_list)
           m == Len(results)
<1>1. /\ ParserTypes /\ Stages /\ NoneTwice /\ Partition /\ RawIsPrefix
      /\ ppc = "parse" /\ files_list # <<>>
      /\ results' = IF IsPage(f) THEN Append(results, Parse(f)) ELSE results
      /\ files_list' = Tail(files_list)
      /\ saved = 0 /\ buffer = <<>> /\ ~bad
      /\ UNCHANGED <<tree, saved, buffer, bad, raw, ppc, code, runs>>
  BY DEF ParserInv, ParseHtml, Remaining, Stages, stream
<1>2. Documents' = Documents /\ Found' = Found /\ RawIsPrefix'
  BY <1>1, SameTree, RawStays
<1>3. tree \in Trees /\ files_list \in Seq(Found) /\ results \in Seq(Documents)
  BY <1>1 DEF ParserTypes
<1>4. /\ n \in Nat /\ n > 0 /\ f \in Found /\ f = files_list[1] /\ m \in Nat
      /\ files_list' \in Seq(Found) /\ Len(files_list') = n - 1
      /\ \A j \in 1 .. n - 1 : files_list'[j] = files_list[j + 1]
      /\ \A j \in 1 .. n : files_list[j] \in Found
      /\ \A i \in 1 .. m : results[i] \in Documents
  BY <1>1, <1>3
<1>5. IsPage(f) => Parse(f) \in Documents
  BY <1>3, <1>4, ParseIs
<1>6. \A i, j \in 1 .. n : files_list[i] = files_list[j] => i = j
  BY <1>1 DEF NoneTwice
<1> HIDE DEF n, m
<1>7. \A j \in 1 .. n - 1 : files_list'[j] # f
  <2>1. \A j \in 1 .. n - 1 : j + 1 \in 1 .. n /\ j + 1 # 1 /\ 1 \in 1 .. n
    BY <1>4
  <2> QED
    BY <1>4, <1>6, <2>1
<1>8. \A doc : ToParse(doc) <=> (IsPage(f) /\ doc = Parse(f)) \/ ToParse(doc)'
  <2>1. ASSUME NEW doc, ToParse(doc)
        PROVE  (IsPage(f) /\ doc = Parse(f)) \/ ToParse(doc)'
    <3>1. PICK j \in 1 .. n : IsPage(files_list[j]) /\ Parse(files_list[j]) = doc
      BY <2>1 DEF ToParse, n
    <3>2. j = 1 \/ (j - 1 \in 1 .. n - 1 /\ j = (j - 1) + 1)
      BY <1>4
    <3>3. j - 1 \in 1 .. n - 1 => files_list'[j - 1] = files_list[j]
      BY <1>4, <3>2
    <3> QED
      BY <1>4, <3>1, <3>2, <3>3 DEF ToParse
  <2>2. ASSUME NEW doc, IsPage(f) /\ doc = Parse(f) PROVE ToParse(doc)
    <3>1. 1 \in 1 .. Len(files_list)
      BY <1>4 DEF n
    <3> QED
      BY <1>4, <2>2, <3>1 DEF ToParse
  <2>3. ASSUME NEW doc, ToParse(doc)' PROVE ToParse(doc)
    <3>1. PICK j \in 1 .. n - 1 : IsPage(files_list'[j]) /\ Parse(files_list'[j]) = doc
      BY <1>4, <2>3 DEF ToParse
    <3>2. j + 1 \in 1 .. Len(files_list) /\ files_list'[j] = files_list[j + 1]
      BY <1>4 DEF n
    <3> QED
      BY <3>1, <3>2 DEF ToParse
  <2> QED
    BY <2>1, <2>2, <2>3
<1>9. IsPage(f) => ~ToParse(Parse(f))'
  <2>1. SUFFICES ASSUME NEW j \in 1 .. n - 1, Parse(files_list'[j]) = Parse(f) PROVE FALSE
    BY <1>4 DEF ToParse
  <2>2. files_list'[j] \in Found
    BY <1>4
  <2> QED
    BY <1>3, <1>4, <1>7, <2>1, <2>2, ParseInjective
<1>10. \A doc : Parsed(doc)' <=> Parsed(doc) \/ (IsPage(f) /\ doc = Parse(f))
  <2>1. CASE IsPage(f)
    <3>1. results' = Append(results, Parse(f))
      BY <1>1, <2>1
    <3>2. Len(results') = m + 1 /\ results'[m + 1] = Parse(f)
          /\ \A i \in 1 .. m : results'[i] = results[i]
      BY <1>3, <1>5, <2>1, <3>1 DEF m
    <3>3. \A i : i \in 1 .. m + 1 <=> i \in 1 .. m \/ i = m + 1
      BY <1>4
    <3> QED
      BY <2>1, <3>2, <3>3 DEF Parsed, m
  <2>2. CASE ~IsPage(f)
    BY <1>1, <2>2 DEF Parsed
  <2> QED
    BY <2>1, <2>2
<1>11. results' \in Seq(Documents) /\ 0 \in 0 .. Len(results')
  BY <1>1, <1>3, <1>5
<1>12. ParserTypes'
  BY <1>1, <1>2, <1>4, <1>11 DEF ParserTypes
<1>13. Stages' /\ Written' /\ ExitZeroSaved'
  BY <1>1 DEF Stages, Written, ExitZeroSaved
<1>14. NoneTwice'
  <2>1. \A i, j \in 1 .. n - 1 : files_list'[i] = files_list'[j] => i = j
    <3>1. \A i \in 1 .. n - 1 : i + 1 \in 1 .. n
      BY <1>4
    <3>2. \A i, j \in 1 .. n - 1 : i + 1 = j + 1 => i = j
      BY <1>4
    <3> QED
      BY <1>4, <1>6, <3>1, <3>2
  <2>2. \A i, j \in 1 .. Len(results') : results'[i] = results'[j] => i = j
    <3>1. \A i, j \in 1 .. m : results[i] = results[j] => i = j
      BY <1>1 DEF NoneTwice, m
    <3>2. CASE IsPage(f)
      <4>1. Len(results') = m + 1 /\ results'[m + 1] = Parse(f)
            /\ \A i \in 1 .. m : results'[i] = results[i]
        BY <1>1, <1>3, <1>5, <3>2 DEF m
      <4>2. \A i \in 1 .. m : results[i] # Parse(f)
        BY <1>1, <1>5, <1>8, <3>2 DEF Partition, Parsed, m
      <4>3. \A i : i \in 1 .. m + 1 <=> i \in 1 .. m \/ i = m + 1
        BY <1>4
      <4> QED
        BY <3>1, <4>1, <4>2, <4>3
    <3>3. CASE ~IsPage(f)
      BY <1>1, <3>1, <3>3 DEF m
    <3> QED
      BY <3>2, <3>3
  <2> QED
    BY <1>4, <2>1, <2>2 DEF NoneTwice
<1>15. Partition'
  <2>1. ASSUME NEW doc \in Documents PROVE Parsed(doc)' <=> ~ToParse(doc)'
    <3>1. Parsed(doc) <=> ~ToParse(doc)
      BY <1>1 DEF Partition
    <3> QED
      BY <1>8, <1>9, <1>10, <3>1
  <2> QED
    BY <1>2, <2>1 DEF Partition
<1> QED
  BY <1>2, <1>12, <1>13, <1>14, <1>15 DEF ParserInv

(* raw.txt is emptied, or main gives up.                                   *)
LEMMA OpenOutputInv == ParserInv /\ OpenOutput => ParserInv'
<1> SUFFICES ASSUME ParserInv, OpenOutput PROVE ParserInv'
  OBVIOUS
<1>1. /\ ParserTypes /\ Stages /\ NoneTwice /\ Partition /\ RawIsPrefix
      /\ ppc = "parse" /\ files_list = <<>> /\ saved = 0 /\ buffer = <<>> /\ ~bad
      /\ UNCHANGED <<tree, files_list, results, saved, buffer, bad, runs>>
  BY DEF ParserInv, OpenOutput, Stages, stream
<1>2. Documents' = Documents /\ Found' = Found
  BY <1>1, SameTree
<1>3. NoneTwice'
  BY <1>1 DEF NoneTwice
<1>4. CASE raw' = Truncated /\ ppc' = "write" /\ code' = code
  <2>1. raw' = <<>> /\ <<>> \in Seq(Byte) /\ <<>> # NoRaw
    <3>1. <<>> \in Seq(Byte)
      OBVIOUS
    <3>2. NoRaw \notin Seq(Byte)
      BY TreeAssumption
    <3>3. raw' = <<>>
      BY <1>4, Zenon DEF Truncated
    <3> QED
      BY <3>1, <3>2, <3>3
  <2>2. ParserTypes' /\ Stages'
    BY <1>1, <1>2, <1>4, <2>1 DEF ParserTypes, Stages
  <2>3. results \in SetToSeqs(Documents) /\ results \in Docs(Byte)
    BY <1>1, AllParsed
  <2>4. First(results, 0) = <<>>
    BY <2>3, SaveSteps, TreeAssumption
  <2>5. Written'
    <3>1. <<>> \o <<>> = <<>>
      OBVIOUS
    <3> QED
      BY <1>1, <2>1, <2>4, <3>1 DEF Written
  <2>6. RawIsPrefix'
    <3>1. 0 \in 0 .. Len(results) /\ IsPrefix(<<>>, First(results, 0))
      <4>1. IsPrefix(<<>>, <<>>)
        BY DEF IsPrefix
      <4> QED
        BY <2>3, <2>4, <4>1, DocsAre
    <3>2. IsPrefix(<<>>, Save(results))
      BY <2>1, <2>3, <3>1, PrefixOfSave
    <3> QED
      BY <1>2, <2>1, <2>3, <3>2 DEF RawIsPrefix
  <2>7. Partition' /\ ExitZeroSaved'
    BY <1>1, <1>2, <1>4 DEF Partition, ExitZeroSaved, Parsed, ToParse
  <2> QED
    BY <1>3, <2>2, <2>5, <2>6, <2>7 DEF ParserInv
<1>5. CASE Exit(3) /\ raw' = raw
  <2>1. ppc' = "exited" /\ code' = 3 /\ raw' = raw
    BY <1>5 DEF Exit
  <2>2. ParserTypes' /\ Stages' /\ Partition' /\ Written' /\ ExitZeroSaved'
    BY <1>1, <1>2, <2>1 DEF ParserTypes, Stages, Partition, Written, ExitZeroSaved
  <2> QED
    BY <1>1, <1>3, <2>1, <2>2, RawStays DEF ParserInv
<1> QED
  BY <1>4, <1>5 DEF OpenOutput

(* While raw.txt is written, the invariant is what is said of the stream.  *)
LEMMA WritingInv ==
    ASSUME ParserInv, ppc = "write", UNCHANGED <<tree, files_list, results, ppc, code, runs>>,
           saved' \in 0 .. Len(results), buffer' \in Seq(Byte), bad' \in BOOLEAN,
           raw' \in Seq(Byte),
           ~bad' => raw' \o buffer' = First(results, saved'),
           bad' => buffer' = <<>> /\ IsPrefix(raw', First(results, saved'))
    PROVE  ParserInv'
<1>1. ParserTypes /\ Stages /\ NoneTwice /\ Partition /\ files_list = <<>>
  BY DEF ParserInv, Stages
<1>2. Documents' = Documents /\ Found' = Found
  BY SameTree
<1>3. raw' # NoRaw
  BY TreeAssumption
<1>4. ParserTypes' /\ Stages' /\ NoneTwice' /\ Partition' /\ Written' /\ ExitZeroSaved'
  <2>1. ParserTypes'
    BY <1>1, <1>2 DEF ParserTypes
  <2>2. Stages' /\ ExitZeroSaved' /\ NoneTwice'
    BY <1>1, <1>3 DEF Stages, ExitZeroSaved, NoneTwice
  <2>3. Partition'
    BY <1>1, <1>2 DEF Partition, Parsed, ToParse
  <2>4. Written'
    BY DEF Written
  <2> QED
    BY <2>1, <2>2, <2>3, <2>4
<1>5. results \in SetToSeqs(Documents) /\ results \in Docs(Byte)
  BY <1>1, AllParsed
<1>6. First(results, saved') \in Seq(Byte)
  BY <1>5, SaveSteps, TreeAssumption
<1>7. IsPrefix(raw', First(results, saved'))
  <2>1. CASE ~bad'
    BY <1>6, <2>1, PrefixIs
  <2> QED
    BY <2>1
<1>8. IsPrefix(raw', Save(results))
  BY <1>5, <1>7, PrefixOfSave
<1>9. RawIsPrefix'
  BY <1>2, <1>5, <1>8 DEF RawIsPrefix
<1> QED
  BY <1>4, <1>9 DEF ParserInv

(* What holds of the stream while raw.txt is written.                      *)
LEMMA StreamIs ==
    ASSUME ParserInv, ppc = "write"
    PROVE  /\ raw \in Seq(Byte) /\ buffer \in Seq(Byte) /\ bad \in BOOLEAN
           /\ saved \in 0 .. Len(results) /\ Len(results) \in Nat
           /\ results \in Docs(Byte) /\ First(results, saved) \in Seq(Byte)
           /\ ~bad => raw \o buffer = First(results, saved)
           /\ bad => buffer = <<>> /\ IsPrefix(raw, First(results, saved))
<1>1. /\ raw \in Seq(Byte) /\ buffer \in Seq(Byte) /\ bad \in BOOLEAN
      /\ saved \in 0 .. Len(results) /\ files_list = <<>>
  BY DEF ParserInv, ParserTypes, Stages
<1>2. results \in Docs(Byte)
  BY <1>1, AllParsed
<1>3. First(results, saved) \in Seq(Byte) /\ Len(results) \in Nat
  BY <1>1, <1>2, DocsAre, SaveSteps, TreeAssumption
<1> QED
  BY <1>1, <1>2, <1>3 DEF ParserInv, Written

(* A record goes into the buffer, or nowhere if a write has failed.        *)
LEMMA WriteRecordInv == ParserInv /\ WriteRecord => ParserInv'
<1> SUFFICES ASSUME ParserInv, WriteRecord PROVE ParserInv'
  OBVIOUS
<1> DEFINE r == Record(results[saved + 1])
           p == First(results, saved)
<1>1. /\ ppc = "write" /\ saved < Len(results) /\ saved' = saved + 1
      /\ buffer' = IF bad THEN <<>> ELSE buffer \o r
      /\ UNCHANGED <<tree, files_list, results, bad, raw, ppc, code, runs>>
  BY DEF WriteRecord
<1>2. /\ raw \in Seq(Byte) /\ buffer \in Seq(Byte) /\ bad \in BOOLEAN
      /\ saved \in 0 .. Len(results) /\ Len(results) \in Nat
      /\ results \in Docs(Byte) /\ p \in Seq(Byte)
      /\ ~bad => raw \o buffer = p
      /\ bad => buffer = <<>> /\ IsPrefix(raw, p)
  BY <1>1, StreamIs
<1>3. saved + 1 \in 1 .. Len(results) /\ (saved + 1) - 1 = saved /\ saved' \in 0 .. Len(results)
  BY <1>1, <1>2
<1>4. First(results, saved + 1) = p \o r
  BY <1>2, <1>3, SaveSteps, TreeAssumption
<1>5. r \in Seq(Byte)
  <2>1. <<Sep>> \in Seq(Byte) /\ <<Nl>> \in Seq(Byte)
    BY TreeAssumption
  <2> QED
    BY <1>2, <1>3, <2>1, DocsAre, ConcatProperties DEF Record
<1> HIDE DEF r, p
<1>6. CASE bad
  <2>1. IsPrefix(raw, p \o r)
    <3>1. PICK x \in Seq(Byte) : p = raw \o x
      BY <1>2, <1>6, PrefixIs
    <3>2. raw \in Seq(Byte) /\ x \in Seq(Byte) /\ r \in Seq(Byte) /\ p \in Seq(Byte)
      BY <1>2, <1>5
    <3>3. (raw \o x) \o r = raw \o (x \o r) /\ x \o r \in Seq(Byte) /\ p \o r \in Seq(Byte)
      BY <3>2
    <3>4. p \o r = raw \o (x \o r)
      BY <3>1, <3>3, Zenon
    <3> QED
      BY <3>2, <3>3, <3>4, PrefixIs
  <2> QED
    BY <1>1, <1>2, <1>3, <1>4, <1>6, <2>1, WritingInv
<1>7. CASE ~bad
  <2>1. raw \o (buffer \o r) = p \o r /\ buffer \o r \in Seq(Byte)
    <3>1. raw \in Seq(Byte) /\ buffer \in Seq(Byte) /\ r \in Seq(Byte)
      BY <1>2, <1>5
    <3>2. (raw \o buffer) \o r = raw \o (buffer \o r) /\ buffer \o r \in Seq(Byte)
      BY <3>1
    <3> QED
      BY <1>2, <1>7, <3>2, Zenon
  <2> QED
    BY <1>1, <1>2, <1>3, <1>4, <1>7, <2>1, WritingInv
<1> QED
  BY <1>6, <1>7

(* The stream's buffer reaches the file, up to a byte or as a whole.       *)
LEMMA FlushInv == ParserInv /\ (Flush \/ FlushFails) => ParserInv'
<1> SUFFICES ASSUME ParserInv, Flush \/ FlushFails PROVE ParserInv'
  OBVIOUS
<1> DEFINE p == First(results, saved)
<1>1. /\ ppc = "write" /\ buffer # <<>>
      /\ UNCHANGED <<tree, files_list, results, saved, ppc, code, runs>>
  BY DEF Flush, FlushFails
<1>2. /\ raw \in Seq(Byte) /\ buffer \in Seq(Byte) /\ ~bad
      /\ saved \in 0 .. Len(results) /\ p \in Seq(Byte) /\ raw \o buffer = p
  BY <1>1, StreamIs
<1>3. ASSUME NEW n \in 0 .. Len(buffer)
      PROVE  LET x == SubSeq(buffer, 1, n)
                 y == SubSeq(buffer, n + 1, Len(buffer))
             IN /\ x \in Seq(Byte) /\ y \in Seq(Byte) /\ raw \o x \in Seq(Byte)
                /\ (raw \o x) \o y = p
                /\ IsPrefix(raw \o x, p)
  <2> DEFINE x == SubSeq(buffer, 1, n)
             y == SubSeq(buffer, n + 1, Len(buffer))
  <2>1. x \in Seq(Byte) /\ y \in Seq(Byte)
    BY <1>2
  <2>2. x \o y = buffer
    <3>1. /\ 1 \in 1 .. Len(buffer) + 1 /\ n \in 1 - 1 .. Len(buffer)
          /\ Len(buffer) \in n .. Len(buffer)
      BY <1>2
    <3>2. x \o y = SubSeq(buffer, 1, Len(buffer))
      BY <1>2, <3>1, ConcatAdjacentSubSeq
    <3> QED
      BY <1>2, <3>2, SubSeqFull
  <2> HIDE DEF x, y, p
  <2>3. raw \in Seq(Byte) /\ x \in Seq(Byte) /\ y \in Seq(Byte)
    BY <1>2, <2>1
  <2>4. raw \o x \in Seq(Byte) /\ (raw \o x) \o y = raw \o (x \o y)
    BY <2>3
  <2>5. (raw \o x) \o y = p
    BY <1>2, <2>2, <2>4, Zenon
  <2>6. IsPrefix(raw \o x, p)
    BY <1>2, <2>1, <2>4, <2>5, PrefixIs
  <2> QED
    BY <2>1, <2>4, <2>5, <2>6 DEF x, y, p
<1>4. CASE Flush
  <2>1. PICK n \in DOMAIN buffer :
          /\ raw' = raw \o SubSeq(buffer, 1, n)
          /\ buffer' = SubSeq(buffer, n + 1, Len(buffer))
    BY <1>4 DEF Flush
  <2>2. n \in 0 .. Len(buffer)
    BY <1>2
  <2>3. bad' = bad /\ saved' = saved /\ bad' \in BOOLEAN /\ ~bad' /\ saved' \in 0 .. Len(results)
    BY <1>2, <1>4, StreamIs DEF Flush
  <2>4. raw' \in Seq(Byte) /\ buffer' \in Seq(Byte) /\ raw' \o buffer' = p
    BY <1>3, <2>1, <2>2, Zenon
  <2>5. First(results, saved') = p
    BY <2>3
  <2> HIDE DEF p
  <2> QED
    BY <1>1, <2>3, <2>4, <2>5, WritingInv
<1>5. CASE FlushFails
  <2>1. PICK n \in 0 .. Len(buffer) - 1 : raw' = raw \o SubSeq(buffer, 1, n)
    BY <1>5 DEF FlushFails
  <2>2. n \in 0 .. Len(buffer)
    BY <1>2
  <2>3. bad' = TRUE /\ buffer' = <<>> /\ saved' = saved /\ saved' \in 0 .. Len(results)
    BY <1>2, <1>5 DEF FlushFails
  <2>4. raw' \in Seq(Byte) /\ IsPrefix(raw', p)
    BY <1>3, <2>1, <2>2, Zenon
  <2>5. First(results, saved') = p
    BY <2>3
  <2>6. buffer' \in Seq(Byte)
    BY <2>3
  <2> HIDE DEF p
  <2> QED
    BY <1>1, <2>3, <2>4, <2>5, <2>6, WritingInv
<1> QED
  BY <1>4, <1>5

(* The file is closed with everything in it, if no write has failed.       *)
LEMMA CloseOutputInv == ParserInv /\ CloseOutput => ParserInv'
<1> SUFFICES ASSUME ParserInv, CloseOutput PROVE ParserInv'
  OBVIOUS
<1>1. /\ ppc = "write" /\ saved = Len(results) /\ buffer = <<>>
      /\ ppc' = "exited" /\ code' = 0
      /\ UNCHANGED <<tree, files_list, results, saved, buffer, bad, raw, runs>>
  BY DEF CloseOutput, Flushed, Exit, stream
<1>2. /\ raw \in Seq(Byte) /\ results \in Docs(Byte)
      /\ ~bad => raw \o buffer = First(results, saved)
  BY <1>1, StreamIs
<1>3. ParserTypes /\ NoneTwice /\ RawIsPrefix /\ files_list = <<>>
  BY <1>1 DEF ParserInv, Stages
<1>4. Documents' = Documents /\ Found' = Found /\ RawIsPrefix'
  BY <1>1, <1>3, SameTree, RawStays
<1>5. results \in SetToSeqs(Documents)
  BY <1>1, <1>3, AllParsed
<1>6. ~bad => raw = Save(results)
  <2>1. First(results, Len(results)) = Save(results)
    BY <1>2, SaveSteps, TreeAssumption
  <2>2. raw \o <<>> = raw
    BY <1>2, ConcatEmptySeq
  <2> QED
    BY <1>1, <1>2, <2>1, <2>2
<1>7. ExitZeroSaved'
  BY <1>1, <1>4, <1>5, <1>6 DEF ExitZeroSaved
<1>8. ParserTypes' /\ Stages' /\ NoneTwice' /\ Partition' /\ Written'
  <2>1. ParserTypes'
    BY <1>1, <1>3, <1>4 DEF ParserTypes
  <2>2. Stages' /\ NoneTwice' /\ Partition' /\ Written'
    BY <1>1, <1>3 DEF Stages, NoneTwice, Partition, Written
  <2> QED
    BY <2>1, <2>2
<1> QED
  BY <1>4, <1>7, <1>8 DEF ParserInv

(* The process is killed, or started again.                                *)
LEMMA CrashInv == ParserInv /\ Crash => ParserInv'
<1> SUFFICES ASSUME ParserInv, Crash PROVE ParserInv'
  OBVIOUS
<1>1. /\ ppc' = "dead" /\ buffer' = <<>>
      /\ UNCHANGED <<tree, files_list, results, saved, bad, raw, code, runs>>
      /\ ParserTypes /\ NoneTwice /\ RawIsPrefix
  BY DEF Crash, ParserInv
<1>2. Documents' = Documents /\ Found' = Found /\ RawIsPrefix'
  BY <1>1, SameTree, RawStays
<1>3. ParserTypes'
  BY <1>1, <1>2 DEF ParserTypes
<1>4. Stages' /\ NoneTwice' /\ Partition' /\ Written' /\ ExitZeroSaved'
  BY <1>1 DEF Stages, NoneTwice, Partition, Written, ExitZeroSaved
<1> QED
  BY <1>2, <1>3, <1>4 DEF ParserInv

LEMMA RestartInv == ParserInv /\ Restart => ParserInv'
<1> SUFFICES ASSUME ParserInv, Restart PROVE ParserInv'
  OBVIOUS
<1>1. /\ files_list' = <<>> /\ results' = <<>>
      /\ saved' = 0 /\ buffer' = <<>> /\ bad' = FALSE
      /\ ppc' = "enum" /\ code' = 0 /\ runs' = runs + 1 /\ runs < MaxRuns
      /\ UNCHANGED <<tree, raw>>
      /\ ParserTypes /\ RawIsPrefix
  BY DEF Restart, ParserInv
<1>2. Documents' = Documents /\ Found' = Found /\ RawIsPrefix'
  BY <1>1, SameTree, RawStays
<1>3. ParserTypes'
  <2>1. runs' \in 1 .. MaxRuns
    BY <1>1, TreeAssumption DEF ParserTypes
  <2>2. files_list' \in Seq(Found) /\ results' \in Seq(Documents) /\ buffer' \in Seq(Byte)
        /\ saved' \in 0 .. Len(results')
    BY <1>1
  <2> QED
    BY <1>1, <1>2, <2>1, <2>2 DEF ParserTypes
<1>4. Stages' /\ Partition' /\ Written' /\ ExitZeroSaved'
  BY <1>1 DEF Stages, Partition, Written, ExitZeroSaved
<1>5. NoneTwice'
  BY <1>1 DEF NoneTwice
<1> QED
  BY <1>2, <1>3, <1>4, <1>5 DEF ParserInv

(* Nothing happens.                                                        *)
LEMMA ParserStutter == ParserInv /\ UNCHANGED parservars => ParserInv'
<1> SUFFICES ASSUME ParserInv, UNCHANGED parservars PROVE ParserInv'
  OBVIOUS
<1>1. /\ UNCHANGED <<tree, files_list, results, saved, buffer, bad, raw, ppc, code, runs>>
      /\ Documents' = Documents /\ Found' = Found
  BY SameTree DEF parservars
<1>2. ParserTypes' /\ Stages' /\ NoneTwice' /\ RawIsPrefix' /\ ExitZeroSaved'
  <2>1. ParserTypes' /\ Stages' /\ NoneTwice'
    BY <1>1 DEF ParserInv, ParserTypes, Stages, NoneTwice
  <2>2. RawIsPrefix' /\ ExitZeroSaved'
    BY <1>1 DEF ParserInv, RawIsPrefix, ExitZeroSaved
  <2> QED
    BY <2>1, <2>2
<1>3. Partition' /\ Written'
  BY <1>1 DEF ParserInv, Partition, Parsed, ToParse, Written
<1> QED
  BY <1>2, <1>3 DEF ParserInv

(* Every step of the parser.                                               *)
LEMMA ParserNextInv == ParserInv /\ [ParserNext]_parservars => ParserInv'
  BY EnumFileInv, ParseHtmlInv, OpenOutputInv, WriteRecordInv, FlushInv, CloseOutputInv,
     CrashInv, RestartInv, ParserStutter DEF ParserNext, Step

(* ParserInv holds throughout.                                             *)
LEMMA ParserInvariant == ParserSpec => []ParserInv
  BY ParserInitInv, ParserNextInv, PTL DEF ParserSpec

(* The invariants that the runs check, from those they follow from.        *)
LEMMA ParserInvImplies == ParserInv => ParserTypeOK
<1> SUFFICES ASSUME ParserInv PROVE ParserTypeOK
  OBVIOUS
<1>1. ParserTypes
  BY DEF ParserInv
<1>2. \A i \in DOMAIN files_list : files_list[i] \in tree
  <2>1. \A i \in DOMAIN files_list : files_list[i] \in Found
    BY <1>1 DEF ParserTypes
  <2>2. Found \in SUBSET tree
    BY DEF Found
  <2> QED
    BY <2>1, <2>2
<1>3. \A i \in DOMAIN results : results[i] \in Documents
  BY <1>1 DEF ParserTypes
<1> QED
  BY <1>1, <1>2, <1>3 DEF ParserTypes, ParserTypeOK

-----------------------------------------------------------------------------
(* The server reads what the parser left.  PipelineInv adds to ParserInv   *)
(* how far BuildIndex is in raw.txt, and that each document it holds is a  *)
(* line of it.                                                             *)
Held ==
    [title : Seq(Byte) \cup Junk, content : Seq(Byte) \cup Junk,
     url : Seq(Byte) \cup Junk, doc_id : Nat]

Reading ==
    /\ forward_index \in Seq(Held) /\ line = Len(forward_index)
    /\ bpc \in {"off", "open", "failed"} => line = 0
    /\ bpc # "off" => input = ReadBack(raw)
    /\ bpc \in {"getline", "invert", "built", "crashed"} => raw # NoRaw /\ line <= Len(input)
    /\ bpc \in {"off", "open", "getline", "invert", "built", "failed", "crashed"}

PipelineInv == ParserInv /\ Reading /\ LinesBecomeDocs

(* BuildIndex sees as many lines as raw.txt has, each split.               *)
LEMMA ReadBackIs ==
    ASSUME raw \in Seq(Byte), raw # NoRaw
    PROVE  /\ ReadBack(raw) \in Seq(Seq(Seq(Byte)))
           /\ Len(ReadBack(raw)) = Len(Lines(raw)) /\ Len(Lines(raw)) \in Nat
           /\ \A n \in 1 .. Len(Lines(raw)) :
                /\ Lines(raw)[n] \in Seq(Byte)
                /\ ReadBack(raw)[n] = Split(Lines(raw)[n])
                /\ ReadBack(raw)[n] \in Seq(Seq(Byte))
<1> DEFINE m == Len(Lines(raw))
<1>1. Lines(raw) \in Seq(Seq(Byte \ {Nl}))
  BY LinesHaveNoNl
<1>2. m \in Nat /\ DOMAIN Lines(raw) = 1 .. m
      /\ \A n \in 1 .. m : Lines(raw)[n] \in Seq(Byte \ {Nl})
  BY <1>1
<1>3. Seq(Byte \ {Nl}) \in SUBSET Seq(Byte)
  <2>1. Byte \ {Nl} \in SUBSET Byte
    OBVIOUS
  <2> QED
    BY <2>1, SeqMonotonic
<1>4. \A n \in 1 .. m : Lines(raw)[n] \in Seq(Byte)
  BY <1>2, <1>3
<1>5. \A n \in 1 .. m : Split(Lines(raw)[n]) \in Seq(Seq(Byte))
  <2>1. \A n \in 1 .. m : Split(Lines(raw)[n]) \in Seq(Seq(Byte \ {Sep}))
    BY <1>4, FieldsHaveNoSep
  <2>2. Byte \ {Sep} \in SUBSET Byte
    OBVIOUS
  <2>3. Seq(Byte \ {Sep}) \in SUBSET Seq(Byte)
    BY <2>2, SeqMonotonic
  <2>4. Seq(Seq(Byte \ {Sep})) \in SUBSET Seq(Seq(Byte))
    BY <2>3, SeqMonotonic
  <2> QED
    BY <2>1, <2>4
<1>6. ReadBack(raw) = [n \in 1 .. m |-> Split(Lines(raw)[n])]
  BY <1>2 DEF ReadBack
<1> HIDE DEF m
<1>7. ReadBack(raw) \in Seq(Seq(Seq(Byte))) /\ Len(ReadBack(raw)) = m
  BY <1>2, <1>5, <1>6
<1>8. \A n \in 1 .. m : ReadBack(raw)[n] = Split(Lines(raw)[n])
  BY <1>6
<1> QED
  BY <1>2, <1>4, <1>5, <1>7, <1>8 DEF m

(* What BuildIndex has before it while it reads.                           *)
LEMMA InputIs ==
    ASSUME PipelineInv, bpc \in {"getline", "invert", "built", "crashed"}
    PROVE  /\ raw \in Seq(Byte) /\ raw # NoRaw /\ input = ReadBack(raw)
           /\ input \in Seq(Seq(Seq(Byte))) /\ Len(input) \in Nat
           /\ forward_index \in Seq(Held) /\ line = Len(forward_index)
           /\ line \in 0 .. Len(input)
<1>1. /\ raw # NoRaw /\ input = ReadBack(raw) /\ line <= Len(input)
      /\ forward_index \in Seq(Held) /\ line = Len(forward_index)
  BY DEF PipelineInv, Reading
<1>2. raw \in Seq(Byte)
  BY <1>1 DEF PipelineInv, ParserInv, ParserTypes
<1>3. input \in Seq(Seq(Seq(Byte))) /\ Len(input) \in Nat
  BY <1>1, <1>2, ReadBackIs
<1> QED
  BY <1>1, <1>2, <1>3

(* The first process begins.                                               *)
LEMMA PipelineInitInv == PipelineInit => PipelineInv
<1> SUFFICES ASSUME PipelineInit PROVE PipelineInv
  OBVIOUS
<1>1. ParserInv
  BY ParserInitInv DEF PipelineInit
<1>2. Reading /\ LinesBecomeDocs
  BY DEF PipelineInit, Reading, LinesBecomeDocs
<1> QED
  BY <1>1, <1>2 DEF PipelineInv

(* A step of the parser, before the server is started.                     *)
LEMMA RunParserInv == PipelineInv /\ RunParser => PipelineInv'
<1> SUFFICES ASSUME PipelineInv, RunParser PROVE PipelineInv'
  OBVIOUS
<1>1. ParserInv'
  BY ParserNextInv DEF PipelineInv, RunParser
<1>2. Reading' /\ LinesBecomeDocs'
  BY DEF PipelineInv, RunParser, Reading, LinesBecomeDocs, vars
<1> QED
  BY <1>1, <1>2 DEF PipelineInv

(* The server is started.                                                  *)
LEMMA StartServerInv == PipelineInv /\ StartServer => PipelineInv'
<1> SUFFICES ASSUME PipelineInv, StartServer PROVE PipelineInv'
  OBVIOUS
<1>1. ParserInv' /\ raw' = raw
  BY ParserStutter DEF PipelineInv, StartServer, parservars
<1>2. /\ bpc' = "open" /\ input' = ReadBack(raw) /\ line' = line
      /\ forward_index' = forward_index /\ bpc = "off"
      /\ forward_index \in Seq(Held) /\ line = Len(forward_index) /\ line = 0
  BY DEF PipelineInv, StartServer, Reading
<1>3. Reading'
  BY <1>1, <1>2 DEF Reading
<1>4. LinesBecomeDocs'
  <2>1. forward_index' \in Seq(Held) /\ Len(forward_index') = 0 /\ bpc' = "open"
    BY <1>2
  <2>2. DOMAIN forward_index' = {}
    BY <2>1
  <2> QED
    BY <2>1, <2>2 DEF LinesBecomeDocs
<1> QED
  BY <1>1, <1>3, <1>4 DEF PipelineInv

(* A line becomes a document.                                              *)
LEMMA ReadLineInv ==
    ASSUME PipelineInv, BuildForwardIndex, UNCHANGED parservars
    PROVE  Reading' /\ LinesBecomeDocs'
<1>1. /\ raw \in Seq(Byte) /\ raw # NoRaw /\ input = ReadBack(raw)
      /\ input \in Seq(Seq(Seq(Byte))) /\ Len(input) \in Nat
      /\ forward_index \in Seq(Held) /\ line = Len(forward_index)
      /\ line \in 0 .. Len(input)
  BY InputIs DEF BuildForwardIndex
<1>2. /\ line < Len(input) /\ line' = line + 1 /\ bpc' = "invert" /\ input' = input /\ raw' = raw
  BY DEF BuildForwardIndex, parservars
<1> PICK fields : fields = input[line + 1]
  OBVIOUS
<1>3. PICK t \in Field(fields, 1), c \in Field(fields, 2), u \in Field(fields, 3) :
        forward_index' = Append(forward_index,
                                [title |-> t, content |-> c, url |-> u,
                                 doc_id |-> Len(forward_index)])
  BY DEF BuildForwardIndex, NextDocId
<1>4. fields \in Seq(Seq(Byte))
  BY <1>1, <1>2
<1>5. \A i : Field(fields, i) \subseteq Seq(Byte) \cup Junk
  BY <1>4 DEF Field
<1>6. Len(fields) >= 3 => t = fields[1] /\ c = fields[2] /\ u = fields[3]
  BY <1>4 DEF Field
<1> DEFINE doc == [title |-> t, content |-> c, url |-> u, doc_id |-> Len(forward_index)]
<1>7. doc \in Held
  BY <1>1, <1>5 DEF Held
<1>8. doc.title = t /\ doc.content = c /\ doc.url = u /\ forward_index' = Append(forward_index, doc)
  BY <1>3
<1> HIDE DEF doc
<1>9. /\ forward_index' \in Seq(Held) /\ Len(forward_index') = line + 1
      /\ \A d \in 1 .. line : forward_index'[d] = forward_index[d]
      /\ forward_index'[line + 1] = doc
      /\ DOMAIN forward_index' = 1 .. line + 1 /\ DOMAIN forward_index = 1 .. line
  BY <1>1, <1>7, <1>8
<1>10. Reading'
  BY <1>1, <1>2, <1>9 DEF Reading
<1>11. LinesBecomeDocs'
  <2>1. ASSUME NEW d \in 1 .. line + 1, Len(input[d]) >= 3
        PROVE  /\ forward_index'[d].title = input[d][1]
               /\ forward_index'[d].content = input[d][2]
               /\ forward_index'[d].url = input[d][3]
    <3>1. CASE d \in 1 .. line
      BY <1>9, <2>1, <3>1 DEF PipelineInv, LinesBecomeDocs
    <3>2. CASE d = line + 1
      BY <1>6, <1>8, <1>9, <2>1, <3>2
    <3> QED
      BY <1>1, <3>1, <3>2
  <2> QED
    BY <1>2, <1>9, <2>1 DEF LinesBecomeDocs
<1> QED
  BY <1>10, <1>11

(* A step of BuildIndex.                                                   *)
LEMMA InitSearcherInv == PipelineInv /\ InitSearcher => PipelineInv'
<1> SUFFICES ASSUME PipelineInv, InitSearcher PROVE PipelineInv'
  OBVIOUS
<1>1. ParserInv' /\ raw' = raw /\ UNCHANGED parservars /\ Reading /\ LinesBecomeDocs
  BY ParserStutter DEF PipelineInv, InitSearcher, parservars
<1>2. CASE BuildForwardIndex
  BY <1>1, <1>2, ReadLineInv DEF PipelineInv
<1>3. CASE OpenInput
  <2>1. bpc = "open" /\ UNCHANGED <<input, line, forward_index>> /\ line = 0 /\ input = ReadBack(raw)
    BY <1>1, <1>3 DEF OpenInput, Reading
  <2>2. bpc' = IF input = NoFile THEN "failed" ELSE "getline"
    BY <1>3 DEF OpenInput
  <2>3. Reading'
    <3>1. CASE bpc' = "failed"
      BY <1>1, <2>1, <3>1 DEF Reading
    <3>2. CASE bpc' = "getline"
      <4>1. raw # NoRaw
        BY <2>1, <2>2, <3>2 DEF ReadBack
      <4>2. raw \in Seq(Byte)
        BY <4>1 DEF PipelineInv, ParserInv, ParserTypes
      <4>3. Len(input) \in Nat
        BY <2>1, <4>1, <4>2, ReadBackIs
      <4> QED
        BY <1>1, <2>1, <3>2, <4>1, <4>3 DEF Reading
    <3> QED
      BY <2>2, <3>1, <3>2
  <2>4. LinesBecomeDocs'
    BY <1>1, <2>1, <2>2 DEF LinesBecomeDocs
  <2> QED
    BY <1>1, <2>3, <2>4 DEF PipelineInv
<1>4. CASE ReadPastFields
  <2>1. /\ bpc = "getline" /\ bpc' = "crashed" /\ UNCHANGED <<input, line, forward_index>>
        /\ line < Len(input) /\ Len(input[line + 1]) < 3
    BY <1>4 DEF ReadPastFields
  <2>2. line + 1 \in DOMAIN input
    <3>1. input \in Seq(Seq(Seq(Byte))) /\ Len(input) \in Nat /\ line \in 0 .. Len(input)
      BY <2>1, InputIs
    <3> QED
      BY <2>1, <3>1
  <2>3. Reading'
    BY <1>1, <2>1 DEF Reading
  <2>4. LinesBecomeDocs'
    BY <1>1, <2>1, <2>2 DEF LinesBecomeDocs
  <2> QED
    BY <1>1, <2>3, <2>4 DEF PipelineInv
<1>5. CASE BuildInvertedIndex
  <2>1. bpc = "invert" /\ bpc' = "getline" /\ UNCHANGED <<input, line, forward_index>>
    BY <1>5 DEF BuildInvertedIndex, InvertBut
  <2>2. Reading' /\ LinesBecomeDocs'
    BY <1>1, <2>1 DEF Reading, LinesBecomeDocs
  <2> QED
    BY <1>1, <2>2 DEF PipelineInv
<1>6. CASE EndOfInput
  <2>1. /\ bpc = "getline" /\ bpc' = "built" /\ UNCHANGED <<input, line, forward_index>>
        /\ line = Len(input)
    BY <1>6 DEF EndOfInput, NoLineLeft
  <2>2. Reading' /\ LinesBecomeDocs'
    BY <1>1, <2>1 DEF Reading, LinesBecomeDocs
  <2> QED
    BY <1>1, <2>2 DEF PipelineInv
<1> QED
  BY <1>2, <1>3, <1>4, <1>5, <1>6 DEF InitSearcher, BuildIndex

(* PipelineInv holds throughout.                                           *)
LEMMA PipelineInvariant == PipelineSpec => []PipelineInv
<1>1. PipelineInv /\ [PipelineNext]_pipelinevars => PipelineInv'
  <2> SUFFICES ASSUME PipelineInv, [PipelineNext]_pipelinevars PROVE PipelineInv'
    OBVIOUS
  <2>1. CASE UNCHANGED pipelinevars
    <3>1. ParserInv' /\ UNCHANGED vars /\ raw' = raw
      BY <2>1, ParserStutter DEF PipelineInv, pipelinevars, parservars
    <3>2. Reading' /\ LinesBecomeDocs'
      BY <3>1 DEF PipelineInv, Reading, LinesBecomeDocs, vars
    <3> QED
      BY <3>1, <3>2 DEF PipelineInv
  <2> QED
    BY <2>1, RunParserInv, StartServerInv, InitSearcherInv DEF PipelineNext
<1> QED
  BY <1>1, PipelineInitInv, PTL DEF PipelineSpec

(* The variables of the parser keep their types, in every run and after    *)
(* every crash: each document parsed is that of a page found.              *)
THEOREM ParserTyped == PipelineSpec => []ParserTypeOK
<1>1. PipelineInv => ParserTypeOK
  BY ParserInvImplies DEF PipelineInv
<1> QED
  BY <1>1, PipelineInvariant, PTL

(* raw.txt never holds anything but the beginning of a file with each      *)
(* document once, whatever the pages are, whenever the parser is killed,   *)
(* started again or runs out of disk (parser.cc:180-203).                  *)
THEOREM RawStaysPrefix == PipelineSpec => []RawIsPrefix
<1>1. PipelineInv => RawIsPrefix
  BY DEF PipelineInv, ParserInv
<1> QED
  BY <1>1, PipelineInvariant, PTL

(* Exit code 0 means that every document is in raw.txt, unless a write     *)
(* failed, which SaveHtml does not look at (parser.cc:189-203).            *)
THEOREM ZeroMeansSaved == PipelineSpec => []ExitZeroSaved
<1>1. PipelineInv => ExitZeroSaved
  BY DEF PipelineInv, ParserInv
<1> QED
  BY <1>1, PipelineInvariant, PTL

(* Split yields what stands between single separators, but for the empty   *)
(* fields inside, for every line that the server meets (util.hpp:37-40).   *)
THEOREM SplitKeepsOuter == PipelineSpec => []SplitCompresses
<1>1. PipelineInv => SplitCompresses
  <2> SUFFICES ASSUME PipelineInv, bpc = "open", input # NoFile, NEW n \in DOMAIN input
               PROVE  input[n] = Selected(AllFields(Lines(raw)[n]), Outer(AllFields(Lines(raw)[n])))
    BY DEF SplitCompresses
  <2>1. input = ReadBack(raw)
    BY DEF PipelineInv, Reading
  <2>2. raw # NoRaw
    BY <2>1 DEF ReadBack
  <2>3. raw \in Seq(Byte)
    BY <2>2 DEF PipelineInv, ParserInv, ParserTypes
  <2>4. n \in 1 .. Len(Lines(raw))
    <3>1. ReadBack(raw) \in Seq(Seq(Seq(Byte))) /\ Len(ReadBack(raw)) = Len(Lines(raw))
      BY <2>2, <2>3, ReadBackIs
    <3> QED
      BY <2>1, <3>1
  <2>5. Lines(raw)[n] \in Seq(Byte) /\ input[n] = Split(Lines(raw)[n])
    BY <2>1, <2>2, <2>3, <2>4, ReadBackIs
  <2> QED
    BY <2>5, SplitIs
<1> QED
  BY <1>1, PipelineInvariant, PTL

(* The documents of such pages hold neither mark in any field.             *)
LEMMA PlainDocuments ==
    ASSUME PlainPages, tree \in Trees
    PROVE  Documents \in SUBSET [title : Seq((Byte \ {Nl}) \ {Sep}),
                                 content : Seq((Byte \ {Nl}) \ {Sep}),
                                 url : Seq((Byte \ {Nl}) \ {Sep})]
<1> DEFINE Plain == (Byte \ {Nl}) \ {Sep}
<1>1. ASSUME NEW f \in Found, IsPage(f)
      PROVE  /\ Parse(f).title \in Seq(Plain) /\ Parse(f).content \in Seq(Plain)
             /\ Parse(f).url \in Seq(Plain)
  <2> DEFINE text == ReadFile(f.bytes)
  <2>1. tree \in Trees \ {NoRoot} /\ f \in tree
    BY DEF Found
  <2>2. /\ f.path \in Seq(Byte) /\ f.bytes \in Seq(Byte) /\ UrlHead \in Seq(Byte)
        /\ RootPath \in Seq(Byte) /\ IsPrefix(RootPath, f.path)
    BY <2>1, TreeAssumption
  <2>3. /\ Sep \notin Range(f.bytes) /\ {Sep, Nl} \cap Range(f.path) = {}
        /\ {Sep, Nl} \cap Range(UrlHead) = {}
    BY <2>1 DEF PlainPages
  <2>4. ASSUME NEW a \in Seq(Byte), NEW out, out \cap Range(a) = {}
        PROVE  a \in Seq(Byte \ out)
    <3>1. a \in [1 .. Len(a) -> Byte] /\ Len(a) \in Nat
      OBVIOUS
    <3>2. \A i \in 1 .. Len(a) : a[i] \in Byte \ out
      BY <2>4, <3>1 DEF Range
    <3>3. a \in [1 .. Len(a) -> Byte \ out]
      BY <3>1, <3>2
    <3> QED
      BY <3>1, <3>3
  <2>5. text \in Seq(Plain)
    <3>1. f.bytes \in Seq(Byte \ {Sep})
      <4>1. {Sep} \cap Range(f.bytes) = {}
        BY <2>3
      <4>2. f.bytes \in Seq(Byte)
        BY <2>2
      <4> QED
        BY <2>4, <4>1, <4>2
    <3>2. (Byte \ {Sep}) \ {Nl} = Plain
      OBVIOUS
    <3> QED
      BY <3>1, <3>2, ReadFileIs
  <2>6. /\ HasTitle(text) /\ Parse(f).title = Title(text) /\ Parse(f).content = Content(text)
        /\ Parse(f).url = ParseUrl(f.path)
    <3>1. HasTitle(text)
      BY <1>1 DEF IsPage
    <3>2. Parse(f) = [title |-> Title(text), content |-> Content(text),
                      url |-> ParseUrl(f.path)]
      BY Zenon DEF Parse
    <3> HIDE DEF text
    <3> QED
      BY <3>1, <3>2
  <2> HIDE DEF text
  <2>7. Title(text) \in Seq(Plain)
    BY <2>5, <2>6, TitleIs
  <2>8. Content(text) \in Seq(Plain)
    <3>1. Body(text) \in SUBSET (1 .. Len(text))
      BY <2>5 DEF Body
    <3> QED
      BY <2>5, <3>1, SelectedIs DEF Content
  <2>9. ParseUrl(f.path) \in Seq(Plain)
    <3>1. f.path \in Seq(Byte \ {Sep, Nl}) /\ UrlHead \in Seq(Byte \ {Sep, Nl})
      BY <2>2, <2>3, <2>4
    <3>2. Byte \ {Sep, Nl} = Plain
      OBVIOUS
    <3>3. f.path \in Seq(Plain) /\ UrlHead \in Seq(Plain)
      BY <3>1, <3>2
    <3>4. Len(RootPath) + 1 \in 1 .. Len(f.path) + 1
      BY <2>2 DEF IsPrefix
    <3> HIDE DEF Plain
    <3>5. SubSeq(f.path, Len(RootPath) + 1, Len(f.path)) \in Seq(Plain)
      BY <3>3, <3>4
    <3> QED
      BY <3>3, <3>5, ConcatProperties DEF ParseUrl
  <2> QED
    BY <2>6, <2>7, <2>8, <2>9
<1>2. ASSUME NEW doc \in Documents
      PROVE  doc \in [title : Seq(Plain), content : Seq(Plain), url : Seq(Plain)]
  <2>1. PICK f \in Found : IsPage(f) /\ doc = Parse(f)
    BY DocumentsAre
  <2>2. doc = [title |-> doc.title, content |-> doc.content, url |-> doc.url]
    BY <2>1, ParseIs
  <2> HIDE DEF Plain
  <2> QED
    BY <1>1, <2>1, <2>2
<1> QED
  BY <1>2

(* An order of them is what Save and Split are good for.                   *)
LEMMA PlainOrder ==
    ASSUME PlainPages, tree \in Trees, NEW order \in SetToSeqs(Documents)
    PROVE  /\ order \in Docs(Byte \ {Nl})
           /\ Len(order) = Cardinality(Documents) /\ Len(order) \in Nat
           /\ {order[i] : i \in 1 .. Len(order)} = Documents
           /\ \A i, j \in 1 .. Len(order) : order[i] = order[j] => i = j
           /\ \A i \in 1 .. Len(order) :
                /\ order[i].content # <<>> =>
                     Split(LineOf(order[i])) = <<order[i].title, order[i].content, order[i].url>>
                /\ order[i].content = <<>> => Len(Split(LineOf(order[i]))) = 2
<1> DEFINE C == Byte \ {Nl}
<1>1. IsFiniteSet(Documents)
  <2>1. /\ Documents = {Parse(f) : f \in {f \in Found : IsPage(f)}}
        /\ IsFiniteSet(Found)
    BY DocumentsAre
  <2> DEFINE S == {f \in Found : IsPage(f)}
             parse == [f \in S |-> Parse(f)]
  <2>2. IsFiniteSet(S)
    BY <2>1, FS_Subset
  <2>3. parse \in Surjection(S, Documents)
    <3>1. \A f \in S : parse[f] = Parse(f) /\ parse[f] \in Documents
      BY <2>1
    <3>2. \A doc \in Documents : \E f \in S : parse[f] = doc
      BY <2>1
    <3> QED
      BY <3>1, <3>2 DEF Surjection
  <2> HIDE DEF S, parse
  <2> QED
    BY <2>2, <2>3, FS_Surjection
<1>2. /\ order \in Seq(Documents) /\ Len(order) = Cardinality(Documents) /\ Len(order) \in Nat
      /\ {order[i] : i \in 1 .. Len(order)} = Documents
      /\ \A i, j \in 1 .. Len(order) : order[i] = order[j] => i = j
  BY <1>1, OrderIs
<1>3. \A i \in 1 .. Len(order) :
        order[i] \in [title : Seq(C \ {Sep}), content : Seq(C \ {Sep}), url : Seq(C \ {Sep})]
  BY <1>2, PlainDocuments
<1>4. Sep \in C
  BY MarkAssumption, TreeAssumption
<1> HIDE DEF C
<1>5. order \in Docs(C)
  <2>1. order \in Docs(C \ {Sep})
    <3>1. Documents \in SUBSET [title : Seq(C \ {Sep}), content : Seq(C \ {Sep}), url : Seq(C \ {Sep})]
      BY PlainDocuments DEF C
    <3> QED
      BY <1>2, <3>1, SeqMonotonic DEF Docs
  <2>2. C \ {Sep} \in SUBSET C
    OBVIOUS
  <2> QED
    BY <2>1, <2>2, DocsMonotonic
<1>6. ASSUME NEW i \in 1 .. Len(order)
      PROVE  /\ order[i].content # <<>> =>
                  Split(LineOf(order[i])) = <<order[i].title, order[i].content, order[i].url>>
             /\ order[i].content = <<>> => Len(Split(LineOf(order[i]))) = 2
  <2>1. order[i].content = <<>> => Split(LineOf(order[i])) = <<order[i].title, order[i].url>>
    BY <1>3, <1>4, SplitLine
  <2>2. Len(<<order[i].title, order[i].url>>) = 2
    OBVIOUS
  <2> QED
    BY <1>3, <1>4, <2>1, <2>2, SplitLine
<1> QED
  BY <1>2, <1>5, <1>6 DEF C

(* A document that the server holds, whole, is that of its line.           *)
LEMMA ServedIs ==
    ASSUME PlainPages, PipelineInv, forward_index # <<>>
    PROVE  \E order \in SetToSeqs(Documents) :
             \A d \in DOMAIN forward_index : Whole(d) =>
               d \in 1 .. Len(order) /\ Served(d) = order[d]
<1>1. bpc \in {"getline", "invert", "built", "crashed"}
  BY DEF PipelineInv, Reading
<1>2. /\ raw \in Seq(Byte) /\ raw # NoRaw /\ input = ReadBack(raw)
      /\ input \in Seq(Seq(Seq(Byte))) /\ Len(input) \in Nat
      /\ forward_index \in Seq(Held) /\ line = Len(forward_index)
      /\ line \in 0 .. Len(input)
  BY <1>1, InputIs
<1>3. Len(input) = Len(Lines(raw))
      /\ \A n \in 1 .. Len(Lines(raw)) : input[n] = Split(Lines(raw)[n])
  BY <1>2, ReadBackIs
<1>4. PICK order \in SetToSeqs(Documents) : IsPrefix(raw, Save(order))
  BY <1>2 DEF PipelineInv, ParserInv, RawIsPrefix
<1>5. tree \in Trees
  BY DEF PipelineInv, ParserInv, ParserTypes
<1>6. /\ order \in Docs(Byte \ {Nl}) /\ Len(order) \in Nat
      /\ \A i \in 1 .. Len(order) :
           /\ order[i].content # <<>> =>
                Split(LineOf(order[i])) = <<order[i].title, order[i].content, order[i].url>>
           /\ order[i].content = <<>> => Len(Split(LineOf(order[i]))) = 2
  BY <1>4, <1>5, PlainOrder
<1>7. {Sep, Nl} \subseteq Byte
  BY TreeAssumption
<1>8. PICK rest \in Seq(Byte) : Save(order) = raw \o rest
  <2>1. order \in Docs(Byte)
    <3>1. Byte \ {Nl} \in SUBSET Byte
      OBVIOUS
    <3> QED
      BY <1>6, <3>1, DocsMonotonic
  <2>2. Len(order) \in 0 .. Len(order)
    BY <1>6
  <2>3. Save(order) \in Seq(Byte)
    BY <1>7, <2>1, <2>2, SaveSteps
  <2> QED
    BY <1>2, <1>4, <2>3, PrefixIs
<1>9. ASSUME NEW d \in DOMAIN forward_index, Whole(d)
      PROVE  d \in 1 .. Len(order) /\ Served(d) = order[d]
  <2>1. d \in 1 .. Len(Lines(raw)) /\ d < Len(Lines(raw)) /\ Len(input[d]) >= 3
    BY <1>2, <1>3, <1>9 DEF Whole
  <2>2. d \in 1 .. Len(order) /\ Lines(raw)[d] = LineOf(order[d])
    <3>1. d \in 1 .. Len(Lines(raw)) /\ d < Len(Lines(raw))
      BY <2>1
    <3>2. raw \in Seq(Byte) /\ order \in Docs(Byte \ {Nl})
      BY <1>2, <1>6
    <3>3. /\ d \in 1 .. Len(order)
          /\ Len(First(order, d)) <= Len(raw) => Lines(raw)[d] = LineOf(order[d])
          /\ d < Len(Lines(raw)) => Len(First(order, d)) <= Len(raw)
      BY <1>7, <1>8, <3>1, <3>2, LinesOfPrefix, Zenon
    <3> QED
      BY <3>1, <3>3
  <2>3. input[d] = Split(LineOf(order[d]))
    BY <1>3, <2>1, <2>2
  <2>4. input[d] = <<order[d].title, order[d].content, order[d].url>>
    <3>1. order[d].content # <<>>
      <4>1. order[d].content = <<>> => Len(input[d]) = 2
        BY <1>6, <2>2, <2>3, Zenon
      <4>2. input[d] \in Seq(Seq(Byte))
        BY <1>2, <2>1
      <4>3. Len(input[d]) \in Nat /\ Len(input[d]) >= 3
        BY <2>1, <4>2
      <4>4. \A n \in Nat : n >= 3 => n # 2
        OBVIOUS
      <4> QED
        BY <4>1, <4>3, <4>4, Zenon
    <3> QED
      BY <1>6, <2>2, <2>3, <3>1, Zenon
  <2>5. /\ forward_index[d].title = input[d][1] /\ forward_index[d].content = input[d][2]
        /\ forward_index[d].url = input[d][3]
    BY <1>9, <2>1 DEF PipelineInv, LinesBecomeDocs
  <2>6. order[d] = [title |-> order[d].title, content |-> order[d].content,
                    url |-> order[d].url]
    BY <1>6, <2>2, DocsAre
  <2> QED
    BY <2>2, <2>4, <2>5, <2>6 DEF Served
<1> QED
  BY <1>9

(* Whatever became of the parser, killed in any run and at any byte, every *)
(* document that the server holds is one that was found, whole and once,   *)
(* but for the last and those without a text, if no page holds the         *)
(* separator (parser.cc:180-203, index.hpp:82-126).                        *)
THEOREM ServesOnlyWhole ==
    ASSUME PlainPages
    PROVE  PipelineSpec => []EarlierDocsWhole
<1>1. PipelineInv => EarlierDocsWhole
  <2> SUFFICES ASSUME PipelineInv, NEW d \in DOMAIN forward_index, Whole(d)
               PROVE  /\ Served(d) \in Documents
                      /\ \A e \in 1 .. d - 1 : Whole(e) => Served(d) # Served(e)
    BY DEF EarlierDocsWhole
  <2>1. forward_index \in Seq(Held) /\ forward_index # <<>>
    <3>1. forward_index \in Seq(Held)
      BY DEF PipelineInv, Reading
    <3> QED
      BY <3>1
  <2>2. PICK order \in SetToSeqs(Documents) :
          \A i \in DOMAIN forward_index : Whole(i) =>
            i \in 1 .. Len(order) /\ Served(i) = order[i]
    BY <2>1, ServedIs
  <2>3. /\ {order[i] : i \in 1 .. Len(order)} = Documents
        /\ \A i, j \in 1 .. Len(order) : order[i] = order[j] => i = j
    BY PlainOrder DEF PipelineInv, ParserInv, ParserTypes
  <2>4. d \in 1 .. Len(order) /\ Served(d) = order[d]
    BY <2>2
  <2>5. ASSUME NEW e \in 1 .. d - 1, Whole(e) PROVE Served(d) # Served(e)
    <3>1. e \in DOMAIN forward_index /\ e # d
      BY <2>1
    <3>2. e \in 1 .. Len(order) /\ Served(e) = order[e]
      BY <2>2, <2>5, <3>1
    <3> QED
      BY <2>3, <2>4, <3>1, <3>2
  <2> QED
    BY <2>3, <2>4, <2>5
<1> QED
  BY <1>1, PipelineInvariant, PTL

(* After a clean run over pages with a text BuildIndex has three strings   *)
(* to a line, and the lines are an order of the documents.                 *)
LEMMA CleanInput ==
    ASSUME PlainPages, PipelineInv, CleanRun, AllHaveText,
           bpc \in {"getline", "invert", "built", "crashed"}
    PROVE  \E order \in SetToSeqs(Documents) :
             /\ order \in Docs(Byte \ {Nl}) /\ Len(order) \in Nat
             /\ Len(order) = Cardinality(Documents)
             /\ {order[i] : i \in 1 .. Len(order)} = Documents
             /\ Len(input) = Len(order) /\ DOMAIN input = 1 .. Len(order)
             /\ \A i \in 1 .. Len(order) :
                  input[i] = <<order[i].title, order[i].content, order[i].url>>
             /\ \A i \in DOMAIN input : Len(input[i]) = 3
<1>1. /\ raw \in Seq(Byte) /\ raw # NoRaw /\ input = ReadBack(raw)
      /\ input \in Seq(Seq(Seq(Byte)))
  BY InputIs
<1>2. Len(input) = Len(Lines(raw))
      /\ \A n \in 1 .. Len(Lines(raw)) : input[n] = Split(Lines(raw)[n])
  BY <1>1, ReadBackIs
<1>3. PICK order \in SetToSeqs(Documents) : raw = Save(order)
  BY DEF PipelineInv, ParserInv, ExitZeroSaved, CleanRun
<1>4. /\ order \in Docs(Byte \ {Nl}) /\ Len(order) \in Nat
      /\ Len(order) = Cardinality(Documents)
      /\ {order[i] : i \in 1 .. Len(order)} = Documents
      /\ \A i \in 1 .. Len(order) :
           order[i].content # <<>> =>
             Split(LineOf(order[i])) = <<order[i].title, order[i].content, order[i].url>>
  BY <1>3, PlainOrder DEF PipelineInv, ParserInv, ParserTypes
<1>5. Lines(raw) = [i \in 1 .. Len(order) |-> LineOf(order[i])]
  BY <1>3, <1>4, LinesOfSave, TreeAssumption
<1>6. Len(Lines(raw)) = Len(order)
      /\ \A i \in 1 .. Len(order) : Lines(raw)[i] = LineOf(order[i])
  BY <1>4, <1>5
<1>7. \A i \in 1 .. Len(order) :
        input[i] = <<order[i].title, order[i].content, order[i].url>>
  <2>1. \A i \in 1 .. Len(order) : order[i].content # <<>>
    BY <1>4 DEF AllHaveText, HasText
  <2> QED
    BY <1>2, <1>4, <1>6, <2>1
<1>8. Len(input) = Len(order) /\ DOMAIN input = 1 .. Len(order)
  BY <1>1, <1>2, <1>6
<1>9. \A i \in DOMAIN input : Len(input[i]) = 3
  <2>1. \A x, y, z : Len(<<x, y, z>>) = 3
    OBVIOUS
  <2> QED
    BY <1>7, <1>8, <2>1, Zenon
<1> QED
  BY <1>3, <1>4, <1>7, <1>8, <1>9, Zenon

(* Where the comment at index.hpp:111 is right: every line of the file of  *)
(* a clean run splits into three strings, if every page has a text and     *)
(* none holds the separator.                                               *)
THEOREM ThreeStrings ==
    ASSUME PlainPages
    PROVE  PipelineSpec => [](AllHaveText => RecordsHaveThreeFields)
<1>1. PipelineInv => (AllHaveText => RecordsHaveThreeFields)
  <2> SUFFICES ASSUME PipelineInv, AllHaveText, CleanRun, bpc = "getline", line < Len(input)
               PROVE  Len(input[line + 1]) = 3
    BY DEF RecordsHaveThreeFields
  <2>1. line \in 0 .. Len(input) /\ Len(input) \in Nat /\ input \in Seq(Seq(Seq(Byte)))
    BY InputIs
  <2>2. line + 1 \in DOMAIN input
    BY <2>1
  <2> QED
    BY <2>2, CleanInput
<1> QED
  BY <1>1, PipelineInvariant, PTL

(* After a run with exit code 0 and no failed write the server holds       *)
(* exactly the documents that there are, if each has a text and no page    *)
(* holds the separator, and never reads past the fields of a line          *)
(* (parser.cc:50-56, index.hpp:82-126).                                    *)
THEOREM ServesAll ==
    ASSUME PlainPages
    PROVE  PipelineSpec => []CleanRunServesAll
<1>1. PipelineInv => CleanRunServesAll
  <2> SUFFICES ASSUME PipelineInv, CleanRun, AllHaveText, bpc \in {"built", "crashed"}
               PROVE  /\ bpc # "crashed"
                      /\ bpc = "built" =>
                           /\ {Served(d) : d \in DOMAIN forward_index} = Documents
                           /\ Len(forward_index) = Cardinality(Documents)
    BY DEF CleanRunServesAll
  <2>1. PICK order \in SetToSeqs(Documents) :
          /\ order \in Docs(Byte \ {Nl}) /\ Len(order) \in Nat
          /\ Len(order) = Cardinality(Documents)
          /\ {order[i] : i \in 1 .. Len(order)} = Documents
          /\ Len(input) = Len(order) /\ DOMAIN input = 1 .. Len(order)
          /\ \A i \in 1 .. Len(order) :
               input[i] = <<order[i].title, order[i].content, order[i].url>>
          /\ \A i \in DOMAIN input : Len(input[i]) = 3
    BY CleanInput
  <2>2. input \in Seq(Seq(Seq(Byte))) /\ forward_index \in Seq(Held)
    BY InputIs
  <2>3. \A i \in DOMAIN input : Len(input[i]) >= 3 /\ ~(Len(input[i]) < 3)
    <3> SUFFICES ASSUME NEW i \in DOMAIN input
                 PROVE  Len(input[i]) >= 3 /\ ~(Len(input[i]) < 3)
      OBVIOUS
    <3>1. Len(input[i]) = 3
      BY <2>1, Zenon
    <3>2. \A n \in Nat : n = 3 => n >= 3 /\ ~(n < 3)
      OBVIOUS
    <3>3. Len(input[i]) \in Nat
      BY <2>2
    <3> QED
      BY <3>1, <3>2, <3>3, Zenon
  <2>4. bpc = "built"
    <3>1. bpc # "crashed"
      BY <2>3, Zenon DEF PipelineInv, LinesBecomeDocs
    <3> QED
      BY <3>1
  <2>5. Len(forward_index) = Len(order) /\ DOMAIN forward_index = 1 .. Len(order)
    BY <2>1, <2>2, <2>4 DEF PipelineInv, LinesBecomeDocs
  <2>6. \A d \in 1 .. Len(order) : Served(d) = order[d]
    <3> SUFFICES ASSUME NEW d \in 1 .. Len(order) PROVE Served(d) = order[d]
      OBVIOUS
    <3>1. Len(input[d]) >= 3
      BY <2>1, <2>3, Zenon
    <3>2. /\ forward_index[d].title = input[d][1] /\ forward_index[d].content = input[d][2]
          /\ forward_index[d].url = input[d][3]
      BY <2>5, <3>1 DEF PipelineInv, LinesBecomeDocs
    <3>3. order[d] = [title |-> order[d].title, content |-> order[d].content,
                      url |-> order[d].url]
      BY <2>1, DocsAre
    <3>4. input[d] = <<order[d].title, order[d].content, order[d].url>>
      BY <2>1, Zenon
    <3> QED
      BY <3>2, <3>3, <3>4 DEF Served
  <2>7. {Served(d) : d \in DOMAIN forward_index} = Documents
    BY <2>1, <2>5, <2>6
  <2> QED
    BY <2>1, <2>4, <2>5, <2>7
<1> QED
  BY <1>1, PipelineInvariant, PTL
=============================================================================
