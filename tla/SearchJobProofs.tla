--------------------------- MODULE SearchJobProofs ---------------------------
(***************************************************************************)
(* Proof that a search keeps to its limit and its block size, for all      *)
(* limits, sizes, texts and numbers of documents.  The pages are known one *)
(* by one.  In flat mode the text grows by at most a share of the size for *)
(* each text that is no longer to be written, and there are no more texts  *)
(* than documents that share it.  In depth mode nothing is written after   *)
(* the text that was cut.                                                  *)
(***************************************************************************)
EXTENDS SearchJob, FiniteSetTheorems, TLAPS

Request == [start : Int, num : Int]

SearchTypes ==
  /\ limit \in Int /\ size \in Int /\ depth \in BOOLEAN
  /\ pages \in Seq(Request) /\ found \in Seq(Doc)
  /\ todo \subseteq Texts
  /\ runes \in Nat /\ bytes \in Nat
  /\ pc = "asking" => todo = {} /\ runes = 0 /\ bytes = 0

\* Which pages were asked for.
PagesInOrder ==
  /\ Len(pages) <= IF Paged THEN Last ELSE 1
  /\ Asked => Len(pages) = IF Paged THEN Last ELSE 1
  /\ \A i \in DOMAIN pages : pages[i] = IF Paged THEN Page(i) ELSE [start |-> 1, num |-> limit]

\* The texts that were written, or are not to be written any more.
Written == Cardinality(Texts) - Cardinality(todo)

FlatBounded ==
  ~depth /\ size >= 0 /\ pc # "asking" =>
    IF Texts = {} THEN runes = 0 ELSE runes <= Written * (Share + 1)

DeepBounded ==
  depth /\ size >= 0 =>
    \/ bytes <= size
    \/ \E d \in Texts : bytes <= size + (Weight(d) + 1)
    \/ todo = {} /\ \E d, e \in Texts : bytes <= size + (Weight(d) + 1) + (Weight(e) + 1 + 3)

SearchInv ==
  /\ SearchTypes /\ PagesInOrder /\ FlatBounded /\ DeepBounded
  /\ pc = "panicked" => size < 0

-----------------------------------------------------------------------------
(* Arithmetic.                                                             *)

LEMMA Division ==
  ASSUME NEW a \in Nat, NEW b \in Nat \ {0}
  PROVE  a \div b \in Nat /\ (a \div b) * b <= a
OBVIOUS

LEMMA LastPage ==
  ASSUME NEW l \in Int
  PROVE  l \div 10 \in Int /\ l - (l \div 10) * 10 \in 0 .. 9
OBVIOUS

LEMMA MoreTimes ==
  ASSUME NEW c \in Nat, NEW r \in Nat, NEW w \in Nat, c <= r
  PROVE  c * w <= r * w
OBVIOUS

LEMMA OnceMore ==
  ASSUME NEW k \in Nat, NEW s \in Nat
  PROVE  (k + 1) * s = k * s + s
OBVIOUS

-----------------------------------------------------------------------------
(* The texts.                                                              *)

\* Each text is of some document.
LEMMA TextsFewer ==
  ASSUME found \in Seq(Doc)
  PROVE  /\ IsFiniteSet(Texts) /\ Cardinality(Texts) \in Nat
         /\ Cardinality(Texts) <= Len(found)
         /\ Texts \subseteq Doc
<1> DEFINE places == 1 .. Len(found)
           text == [i \in places |-> found[i]]
<1>1. Len(found) \in Nat /\ DOMAIN found = places
  OBVIOUS
<1>2. text \in Surjection(places, Texts)
  BY <1>1 DEF Texts, Surjection
<1>3. IsFiniteSet(places) /\ Cardinality(places) = Len(found)
  BY <1>1, FS_Interval
<1>4. IsFiniteSet(Texts) /\ Cardinality(Texts) <= Cardinality(places)
  BY <1>2, <1>3, FS_Surjection
<1> QED
  BY <1>1, <1>3, <1>4, FS_CardinalityType DEF Texts

LEMMA WeightType ==
  ASSUME NEW d \in Doc
  PROVE  Runes[d] \in Nat /\ Width[d] \in Nat /\ Weight(d) \in Nat
BY SearchAssumption DEF Weight

\* What a cut text adds, in runes and in bytes.
LEMMA CutAdds ==
  ASSUME NEW d \in Doc, NEW length \in Nat, NEW more \in Nat, runes \in Nat, bytes \in Nat,
         WriteCut(d, length, more)
  PROVE  /\ runes' \in Nat /\ bytes' \in Nat
         /\ runes' <= runes + length + 1 + more
         /\ bytes' <= bytes + Weight(d) + 1 + more
<1> DEFINE cut == IF length > Runes[d] THEN Runes[d] ELSE length
<1>1. Runes[d] \in Nat /\ Width[d] \in Nat /\ Weight(d) = Runes[d] * Width[d]
  BY WeightType DEF Weight
<1>2. cut \in Nat /\ cut <= length /\ cut <= Runes[d]
  BY <1>1
<1>3. runes' = runes + cut + 1 + more /\ bytes' = bytes + cut * Width[d] + 1 + more
  BY DEF WriteCut
<1> HIDE DEF cut
<1>4. cut * Width[d] \in Nat /\ cut * Width[d] <= Weight(d)
  BY <1>1, <1>2, MoreTimes
<1>5. Weight(d) \in Nat
  BY WeightType
<1> QED
  BY <1>2, <1>3, <1>4, <1>5

-----------------------------------------------------------------------------
(* The steps.                                                              *)

LEMMA AskInv ==
  ASSUME SearchInv, NEW request \in Request, Ask(request), pc = "asking", UNCHANGED pc,
         Len(pages) + 1 <= IF Paged THEN Last ELSE 1,
         request = IF Paged THEN Page(Len(pages) + 1) ELSE [start |-> 1, num |-> limit]
  PROVE  SearchInv'
<1>1. SearchTypes /\ PagesInOrder /\ todo = {} /\ runes = 0 /\ bytes = 0
  BY DEF SearchInv, SearchTypes
<1>2. UNCHANGED <<engine, valid, limit, size, depth, todo, runes, bytes, pc>> /\ pages' = Append(pages, request)
  BY DEF Ask, configVars
<1>3. found' \in Seq(Doc)
  <2>1. PICK n \in 0 .. (MaxDocs - Len(found)) : \E docs \in [1 .. n -> Doc] : found' = found \o docs
    BY DEF Ask
  <2>2. PICK docs \in [1 .. n -> Doc] : found' = found \o docs
    BY <2>1
  <2>3. n \in Nat /\ docs \in Seq(Doc)
    BY <1>1, SearchAssumption DEF SearchTypes
  <2> QED
    BY <1>1, <2>2, <2>3 DEF SearchTypes
<1>4. SearchTypes'
  BY <1>1, <1>2, <1>3 DEF SearchTypes
<1>5. (Paged' <=> Paged) /\ Last' = Last /\ \A i : Page(i)' = Page(i)
  BY <1>2 DEF Paged, Last, Page
<1>6. PagesInOrder'
  <2>1. /\ Len(pages) \in Nat /\ DOMAIN pages = 1 .. Len(pages)
        /\ Len(pages') = Len(pages) + 1 /\ DOMAIN pages' = 1 .. Len(pages) + 1
        /\ \A i \in 1 .. Len(pages) : pages'[i] = pages[i]
        /\ pages'[Len(pages) + 1] = request
    BY <1>1, <1>2 DEF SearchTypes
  <2>2. ASSUME NEW i \in DOMAIN pages'
        PROVE  pages'[i] = IF Paged THEN Page(i) ELSE [start |-> 1, num |-> limit]
    BY <1>1, <2>1 DEF PagesInOrder
  <2> QED
    BY <1>2, <1>5, <2>1, <2>2 DEF PagesInOrder, Asked
<1>7. FlatBounded' /\ DeepBounded' /\ (pc = "panicked" => size < 0)'
  BY <1>1, <1>2 DEF FlatBounded, DeepBounded, SearchTypes
<1> QED
  BY <1>4, <1>6, <1>7 DEF SearchInv

LEMMA AskPageInv ==
  ASSUME SearchInv, AskPage
  PROVE  SearchInv'
<1>1. pc = "asking" /\ Paged /\ Len(pages) < Last /\ Ask(Page(Len(pages) + 1)) /\ UNCHANGED pc
  BY DEF AskPage
<1>2. limit \in Int /\ Len(pages) \in Nat /\ Last \in Int
  BY LastPage DEF SearchInv, SearchTypes, Last
<1>3. Page(Len(pages) + 1) \in Request
  BY <1>2 DEF Page, Request
<1> QED
  BY <1>1, <1>2, <1>3, AskInv

LEMMA AskOnceInv ==
  ASSUME SearchInv, AskOnce
  PROVE  SearchInv'
<1>1. pc = "asking" /\ ~Paged /\ Len(pages) = 0 /\ Ask([start |-> 1, num |-> limit]) /\ UNCHANGED pc
  BY DEF AskOnce
<1>2. [start |-> 1, num |-> limit] \in Request
  BY DEF SearchInv, SearchTypes, Request
<1> QED
  BY <1>1, <1>2, AskInv

\* A step that asks and writes nothing.
LEMMA QuietInv ==
  ASSUME SearchInv, UNCHANGED <<configVars, pages, found, runes, bytes>>, pc' # "panicked",
         IF pc = "asking" THEN todo' \in {{}, Texts} ELSE todo' = todo,
         pc' = "asking" => pc = "asking" /\ todo' = {},
         Asked' => Asked \/ Len(pages) = IF Paged THEN Last ELSE 1
  PROVE  SearchInv'
<1>1. SearchTypes /\ PagesInOrder /\ FlatBounded /\ DeepBounded
  BY DEF SearchInv
<1>2. UNCHANGED <<engine, valid, limit, size, depth, pages, found, runes, bytes>> /\ Texts' = Texts /\ Share' = Share
  BY DEF configVars, Texts, Share
<1>3. SearchTypes' /\ PagesInOrder'
  BY <1>1, <1>2 DEF SearchTypes, PagesInOrder, Asked, Paged, Last, Page
<1>4. CASE pc # "asking"
  <2>1. todo' = todo /\ Written' = Written
    BY <1>2, <1>4 DEF Written
  <2>2. FlatBounded' /\ DeepBounded'
    BY <1>1, <1>2, <1>4, <2>1 DEF FlatBounded, DeepBounded, Weight
  <2> QED
    BY <1>3, <2>2 DEF SearchInv
<1>5. CASE pc = "asking"
  <2>1. runes = 0 /\ bytes = 0
    BY <1>1, <1>5 DEF SearchTypes
  <2>2. DeepBounded'
    BY <1>1, <1>2, <2>1 DEF DeepBounded, SearchTypes
  <2>3. ASSUME size >= 0, Texts # {}
        PROVE  0 <= Written' * (Share + 1)
    <3>1. /\ Cardinality(Texts) \in Nat /\ Cardinality({}) = 0 /\ Len(found) \in Nat /\ Len(found) # 0
          /\ Cardinality(todo') \in {0, Cardinality(Texts)}
      <4>1. found \in Seq(Doc) /\ Len(found) \in Nat /\ DOMAIN found = 1 .. Len(found)
        BY <1>1 DEF SearchTypes
      <4>2. Len(found) # 0
        BY <2>3, <4>1 DEF Texts
      <4> QED
        BY <1>1, <1>5, <4>1, <4>2, TextsFewer, FS_EmptySet DEF SearchTypes
    <3>2. Written' \in Nat
      BY <1>2, <3>1 DEF Written
    <3>3. Share \in Nat
      BY <1>1, <2>3, <3>1, Division DEF Share, SearchTypes
    <3>4. \A k, s \in Nat : 0 <= k * (s + 1)
      OBVIOUS
    <3> QED
      BY <3>2, <3>3, <3>4
  <2>4. FlatBounded'
    BY <1>2, <2>1, <2>3 DEF FlatBounded
  <2> QED
    BY <1>3, <2>2, <2>4 DEF SearchInv
<1> QED
  BY <1>4, <1>5

\* While texts are to be written there are documents, and each has its share.
LEMMA ShareType ==
  ASSUME SearchInv, todo # {}
  PROVE  Share \in Int /\ (size >= 0 => Share \in Nat /\ Share * Len(found) <= size) /\ Texts # {}
<1>1. size \in Int /\ found \in Seq(Doc) /\ Texts # {}
  BY DEF SearchInv, SearchTypes
<1>2. Len(found) \in Nat \ {0}
  <2>1. Len(found) \in Nat /\ DOMAIN found = 1 .. Len(found)
    BY <1>1
  <2> QED
    BY <1>1, <2>1 DEF Texts
<1>3. CASE size >= 0
  <2>1. Share = size \div Len(found) /\ size \in Nat
    BY <1>1, <1>3 DEF Share
  <2> QED
    BY <1>1, <1>2, <2>1, Division
<1>4. CASE ~ (size >= 0)
  <2>1. Share = -((-size) \div Len(found)) /\ -size \in Nat
    BY <1>1, <1>4 DEF Share
  <2>2. (-size) \div Len(found) \in Nat
    BY <1>2, <2>1, Division
  <2> QED
    BY <1>1, <1>4, <2>1, <2>2
<1> QED
  BY <1>3, <1>4

LEMMA WriteFlatInv ==
  ASSUME SearchInv, NEW d \in Doc, WriteFlat(d)
  PROVE  SearchInv'
<1>1. pc = "writing" /\ ~depth /\ d \in todo
      /\ UNCHANGED <<engine, valid, limit, size, depth, pages, found>>
  BY DEF WriteFlat, configVars
<1>2. SearchTypes /\ PagesInOrder /\ FlatBounded /\ Texts' = Texts /\ Share' = Share
  BY <1>1 DEF SearchInv, Texts, Share
<1>3. Share \in Int /\ (size >= 0 => Share \in Nat) /\ Texts # {}
  BY <1>1, ShareType
<1>4. PagesInOrder' /\ DeepBounded'
  BY <1>1, <1>2 DEF PagesInOrder, DeepBounded, Asked, Paged, Last, Page
<1>5. CASE Share < 0
  <2>1. pc' = "panicked" /\ UNCHANGED <<todo, runes, bytes>>
    BY <1>5 DEF WriteFlat
  <2>2. size < 0 /\ size' < 0
    BY <1>1, <1>2, <1>3, <1>5 DEF SearchTypes
  <2>3. SearchTypes'
    BY <1>1, <1>2, <2>1 DEF SearchTypes
  <2>4. FlatBounded'
    BY <1>1, <1>2, <2>2 DEF FlatBounded, SearchTypes
  <2> QED
    BY <1>4, <2>2, <2>3, <2>4 DEF SearchInv
<1>6. CASE ~ (Share < 0)
  <2>1. WriteCut(d, Share, 0) /\ todo' = todo \ {d} /\ pc' = pc /\ Share \in Nat
    BY <1>3, <1>6 DEF WriteFlat
  <2>2. runes \in Nat /\ bytes \in Nat
    BY <1>2 DEF SearchTypes
  <2>3. runes' \in Nat /\ bytes' \in Nat /\ runes' <= runes + Share + 1
    BY <2>1, <2>2, CutAdds
  <2>4. SearchTypes'
    BY <1>1, <1>2, <2>1, <2>3 DEF SearchTypes
  <2>5. Cardinality(todo) \in Nat /\ Cardinality(todo') = Cardinality(todo) - 1
        /\ Cardinality(Texts) \in Nat /\ Cardinality(todo) <= Cardinality(Texts)
    <3>1. IsFiniteSet(Texts) /\ todo \subseteq Texts
      BY <1>2, TextsFewer DEF SearchTypes
    <3>2. IsFiniteSet(todo) /\ Cardinality(todo) <= Cardinality(Texts)
      BY <3>1, FS_Subset
    <3> QED
      BY <1>1, <2>1, <3>1, <3>2, FS_RemoveElement, FS_CardinalityType
  <2>6. Written \in Nat /\ Written' = Written + 1
    BY <1>2, <2>5 DEF Written
  <2>7. ASSUME size >= 0
        PROVE  runes' <= Written' * (Share + 1)
    <3>1. runes <= Written * (Share + 1)
      BY <1>1, <1>2, <1>3, <2>7 DEF FlatBounded
    <3>2. (Written + 1) * (Share + 1) = Written * (Share + 1) + (Share + 1)
      BY <2>1, <2>6, OnceMore
    <3>3. Written * (Share + 1) \in Nat
      BY <2>1, <2>6
    <3> QED
      BY <2>1, <2>2, <2>3, <2>6, <3>1, <3>2, <3>3
  <2>8. FlatBounded'
    BY <1>1, <1>2, <1>3, <2>7 DEF FlatBounded
  <2>9. pc' # "panicked"
    BY <1>1, <2>1
  <2> QED
    BY <1>4, <2>4, <2>8, <2>9 DEF SearchInv
<1> QED
  BY <1>5, <1>6

LEMMA WriteDeepInv ==
  ASSUME SearchInv, NEW d \in Doc, WriteDeep(d)
  PROVE  SearchInv'
<1>1. pc = "writing" /\ depth /\ d \in todo
      /\ UNCHANGED <<engine, valid, limit, size, depth, pages, found, pc>>
  BY DEF WriteDeep, configVars
<1>2. /\ SearchTypes /\ PagesInOrder /\ DeepBounded /\ Texts' = Texts /\ d \in Texts /\ Texts \subseteq Doc
      /\ size \in Int /\ runes \in Nat /\ bytes \in Nat
  BY <1>1, TextsFewer DEF SearchInv, SearchTypes, Texts
<1>3. PagesInOrder' /\ FlatBounded'
  BY <1>1, <1>2 DEF PagesInOrder, FlatBounded, Asked, Paged, Last, Page
<1>4. \A e \in Texts : Weight(e) \in Nat /\ Weight(e)' = Weight(e)
  BY <1>2, WeightType DEF Weight
<1>5. CASE bytes > size
  <2>1. WriteCut(d, bytes - size, 3) /\ todo' = {} /\ bytes - size \in Nat
    BY <1>2, <1>5 DEF WriteDeep
  <2>2. runes' \in Nat /\ bytes' \in Nat /\ bytes' <= bytes + Weight(d) + 1 + 3
    BY <1>2, <2>1, CutAdds
  <2>3. ASSUME size >= 0
        PROVE  \E c, e \in Texts : bytes' <= size + (Weight(c) + 1) + (Weight(e) + 1 + 3)
    <3>1. PICK c \in Texts : bytes <= size + (Weight(c) + 1)
      BY <1>1, <1>2, <1>5, <2>3 DEF DeepBounded
    <3>2. bytes' <= size + (Weight(c) + 1) + (Weight(d) + 1 + 3)
      BY <1>2, <1>4, <2>2, <3>1
    <3> QED
      BY <1>2, <3>2
  <2>4. DeepBounded'
    BY <1>1, <1>2, <1>4, <2>1, <2>3 DEF DeepBounded
  <2>5. SearchTypes'
    BY <1>1, <1>2, <2>1, <2>2 DEF SearchTypes
  <2> QED
    BY <1>1, <1>3, <2>4, <2>5 DEF SearchInv
<1>6. CASE ~ (bytes > size)
  <2>1. WriteCut(d, Runes[d], 0) /\ todo' = todo \ {d} /\ Runes[d] \in Nat
    BY <1>6, WeightType DEF WriteDeep
  <2>2. runes' \in Nat /\ bytes' \in Nat /\ bytes' <= bytes + Weight(d) + 1 + 0
    BY <1>2, <2>1, CutAdds
  <2>3. bytes' <= size + (Weight(d) + 1)
    BY <1>2, <1>4, <1>6, <2>2
  <2>4. DeepBounded'
    BY <1>1, <1>2, <1>4, <2>3 DEF DeepBounded
  <2>5. SearchTypes'
    BY <1>1, <1>2, <2>1, <2>2 DEF SearchTypes
  <2> QED
    BY <1>1, <1>3, <2>4, <2>5 DEF SearchInv
<1> QED
  BY <1>5, <1>6

LEMMA SearchNextInv ==
  ASSUME SearchInv, [SearchNext]_searchVars
  PROVE  SearchInv'
<1>1. CASE Invalid \/ AskFails
  BY <1>1, QuietInv DEF Invalid, AskFails, SearchInv, SearchTypes, Asked
<1>2. CASE Compress
  <2>1. Len(pages) = IF Paged THEN Last ELSE 1
    <3>1. pages \in Seq(Request) /\ Len(pages) <= (IF Paged THEN Last ELSE 1) /\ pages # <<>>
      BY <1>2 DEF Compress, SearchInv, SearchTypes, PagesInOrder
    <3>2. Len(pages) \in Nat /\ Len(pages) # 0
      BY <3>1
    <3>3. CASE Paged
      BY <1>2, <3>3 DEF Compress
    <3>4. CASE ~Paged
      <4>1. Len(pages) <= 1
        BY <3>1, <3>4
      <4>2. \A n \in Nat : n # 0 /\ n <= 1 => n = 1
        OBVIOUS
      <4> QED
        BY <3>2, <3>4, <4>1, <4>2
    <3> QED
      BY <3>3, <3>4
  <2> QED
    BY <1>2, <2>1, QuietInv DEF Compress
<1>3. CASE SetAttribute
  BY <1>3, QuietInv DEF SetAttribute, Asked
<1>4. CASE UNCHANGED searchVars
  <2>1. SearchTypes'
    BY <1>4 DEF searchVars, configVars, SearchInv, SearchTypes, Texts
  <2>2. PagesInOrder'
    BY <1>4 DEF searchVars, configVars, SearchInv, PagesInOrder, Asked, Paged, Last, Page
  <2>3. FlatBounded'
    BY <1>4 DEF searchVars, configVars, SearchInv, FlatBounded, Texts, Written, Share
  <2>4. DeepBounded'
    BY <1>4 DEF searchVars, configVars, SearchInv, DeepBounded, Texts, Weight
  <2> QED
    BY <1>4, <2>1, <2>2, <2>3, <2>4 DEF searchVars, configVars, SearchInv
<1> QED
  BY <1>1, <1>2, <1>3, <1>4, AskPageInv, AskOnceInv, WriteFlatInv, WriteDeepInv DEF SearchNext

-----------------------------------------------------------------------------
(* What the invariant says.                                                *)

LEMMA InOrderFollow ==
  ASSUME SearchTypes, PagesInOrder
  PROVE  PagesFollow
<1>1. /\ limit \in Int /\ Last \in Int /\ limit - Last * 10 \in 0 .. 9
      /\ Len(pages) \in Nat /\ DOMAIN pages = 1 .. Len(pages)
  BY LastPage DEF SearchTypes, Last
<1>2. CASE Paged
  <2>1. limit > 10 /\ Len(pages) <= Last /\ \A i \in 1 .. Len(pages) : pages[i] = Page(i)
    BY <1>1, <1>2 DEF Paged, PagesInOrder
  <2>2. ASSUME NEW i \in 1 .. Len(pages)
        PROVE  /\ pages[i].start = 10 * (i - 1) + 1
               /\ pages[i].num = IF i = Last THEN limit - Last * 10 ELSE 10
    <3>1. pages[i] = [start |-> 10 * (i - 1) + 1, num |-> IF i = Last THEN limit - i * 10 ELSE 10]
      BY <2>1 DEF Page
    <3> QED
      BY <3>1
  <2>3. ASSUME NEW i \in 1 .. Len(pages)
        PROVE  pages[i].start + pages[i].num <= limit + 1
    BY <1>1, <2>1, <2>2
  <2>4. ASSUME NEW i \in 1 .. Len(pages), i # 1
        PROVE  pages[i].start = pages[i - 1].start + pages[i - 1].num
    <3>1. i - 1 \in 1 .. Len(pages) /\ i - 1 # Last
      BY <1>1, <2>1, <2>4
    <3>2. pages[i - 1].start = 10 * ((i - 1) - 1) + 1 /\ pages[i - 1].num = 10
      BY <2>2, <3>1
    <3> QED
      BY <1>1, <2>2, <3>2
  <2>5. ASSUME Asked
        PROVE  pages[Len(pages)].start + pages[Len(pages)].num > limit - 10
    <3>1. Len(pages) = Last
      BY <1>2, <2>5 DEF PagesInOrder
    <3>2. Last \in 1 .. Len(pages)
      BY <1>1, <2>1, <3>1 DEF Last
    <3>3. pages[Last].start = 10 * (Last - 1) + 1 /\ pages[Last].num = limit - Last * 10
      BY <2>2, <3>2
    <3> QED
      BY <1>1, <3>1, <3>3
  <2>6. ASSUME 1 \in 1 .. Len(pages)
        PROVE  pages[1].start = 1
    <3>1. pages[1].start = 10 * (1 - 1) + 1
      BY <2>2, <2>6
    <3> QED
      BY <3>1
  <2> QED
    BY <1>1, <2>3, <2>4, <2>5, <2>6 DEF PagesFollow
<1>3. CASE ~Paged
  BY <1>1, <1>3 DEF PagesInOrder, PagesFollow
<1> QED
  BY <1>2, <1>3

LEMMA InvBounded ==
  ASSUME SearchInv
  PROVE  TextBounded
<1>1. SearchTypes /\ FlatBounded /\ DeepBounded /\ (pc = "panicked" => size < 0)
  BY DEF SearchInv
<1>2. /\ IsFiniteSet(Texts) /\ Cardinality(Texts) \in Nat /\ Cardinality(Texts) <= Len(found)
      /\ todo \subseteq Texts /\ size \in Int /\ runes \in Nat /\ Len(found) \in Nat
  BY <1>1, TextsFewer DEF SearchTypes
<1>3. ASSUME ~depth, size >= 0
      PROVE  runes <= size + Cardinality(Texts)
  <2>1. CASE Texts = {} \/ pc = "asking"
    BY <1>1, <1>2, <1>3, <2>1 DEF FlatBounded, SearchTypes
  <2>2. CASE Texts # {} /\ pc # "asking"
    <3>1. runes <= Written * (Share + 1)
      BY <1>1, <1>3, <2>2 DEF FlatBounded
    <3>2. Written \in Nat /\ Written <= Cardinality(Texts)
      BY <1>2, FS_Subset, FS_CardinalityType DEF Written
    <3>3. Len(found) # 0 /\ size \in Nat
      BY <1>2, <1>3, <2>2, FS_EmptySet
    <3>4. Share \in Nat /\ Share * Len(found) <= size
      BY <1>2, <1>3, <3>3, Division DEF Share
    <3>5. Written * (Share + 1) <= Cardinality(Texts) * (Share + 1)
      BY <1>2, <3>2, <3>4, MoreTimes
    <3>6. Cardinality(Texts) * Share <= Len(found) * Share
      BY <1>2, <3>4, MoreTimes
    <3>7. Cardinality(Texts) * (Share + 1) = Cardinality(Texts) * Share + Cardinality(Texts)
      BY <1>2, <3>4
    <3>8. Len(found) * Share = Share * Len(found)
      BY <1>2, <3>4
    <3> DEFINE w == Written * (Share + 1)
               x == Cardinality(Texts) * (Share + 1)
               y == Cardinality(Texts) * Share
               z == Len(found) * Share
    <3>9. w \in Int /\ x \in Int /\ y \in Int /\ z \in Int
      BY <1>2, <3>2, <3>4
    <3>10. runes <= w /\ w <= x /\ x = y + Cardinality(Texts) /\ y <= z /\ z <= size
      BY <3>1, <3>4, <3>5, <3>6, <3>7, <3>8
    <3> HIDE DEF w, x, y, z
    <3> QED
      BY <1>2, <3>9, <3>10
  <2> QED
    BY <2>1, <2>2
<1>4. ASSUME depth, size >= 0
      PROVE  bytes <= size \/ \E d, e \in Texts : bytes <= size + (Weight(d) + 1) + (Weight(e) + 1 + 3)
  <2>1. CASE \E d \in Texts : bytes <= size + (Weight(d) + 1)
    <3>1. PICK d \in Texts : bytes <= size + (Weight(d) + 1)
      BY <2>1
    <3>2. Weight(d) \in Nat /\ bytes \in Nat
      BY <1>1, TextsFewer, WeightType DEF SearchTypes
    <3>3. bytes <= size + (Weight(d) + 1) + (Weight(d) + 1 + 3)
      BY <1>2, <3>1, <3>2
    <3> QED
      BY <3>3
  <2> QED
    BY <1>1, <1>4, <2>1 DEF DeepBounded
<1> QED
  BY <1>1, <1>3, <1>4 DEF TextBounded

\* A search asks for its results one after the other, for none beyond its limit
\* and for all but the last ten before it, and its text keeps near the block
\* size, whatever the services find and in whatever order the texts are written
\* (job/search: google_search.go, document.go).
THEOREM SearchKeepsBounds == SearchSpec => []SearchBounded
<1>1. SearchInit => SearchInv
  <2> SUFFICES ASSUME SearchInit PROVE SearchInv
    OBVIOUS
  <2>1. SearchTypes
    BY SearchAssumption DEF SearchInit, SearchTypes
  <2>2. PagesInOrder
    <3>1. Len(pages) = 0 /\ DOMAIN pages = {}
      BY DEF SearchInit
    <3>2. Paged => Last >= 0
      BY <2>1, LastPage DEF Paged, Last, SearchTypes
    <3> QED
      BY <3>1, <3>2 DEF PagesInOrder, SearchInit, Asked
  <2>3. FlatBounded /\ DeepBounded
    BY <2>1 DEF SearchInit, FlatBounded, DeepBounded, SearchTypes
  <2> QED
    BY <2>1, <2>2, <2>3 DEF SearchInit, SearchInv
<1>2. SearchInv /\ [SearchNext]_searchVars => SearchInv'
  BY SearchNextInv
<1>3. SearchInv => SearchBounded
  BY InOrderFollow, InvBounded DEF SearchInv, SearchBounded
<1> QED
  BY <1>1, <1>2, <1>3, PTL DEF SearchSpec
=============================================================================
