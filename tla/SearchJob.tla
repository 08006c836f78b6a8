------------------------------ MODULE SearchJob ------------------------------
(***************************************************************************)
(* One call of a search job (job/search): the pages a Google search asks   *)
(* for, or Tavily's one request with its options, and the text the found   *)
(* documents are compressed to.  A document is its text, which has a       *)
(* number of runes and a width, the bytes of a rune: the code counts the   *)
(* one when it cuts and the other when it compares.                        *)
(***************************************************************************)
EXTENDS Integers, Sequences, FiniteSets

CONSTANTS
  Doc,      \* texts of documents, title and content formatted
  Runes,    \* their lengths, at least the two line breaks of the format
  Width,    \* bytes per rune
  Limits,   \* the limits a stream's configuration may give
  Sizes,    \* its block sizes
  MaxDocs   \* bound: documents a search finds

ASSUME SearchAssumption ==
  /\ Runes \in [Doc -> Nat \ {0, 1}]
  /\ Width \in [Doc -> Nat \ {0}]
  /\ Limits \subseteq Int /\ Sizes \subseteq Int
  /\ MaxDocs \in Nat

VARIABLES
  engine,   \* "google" or "tavily"
  valid,    \* Tavily's topic, depth and days are
  limit,    \* MaxResults
  size,     \* BlockSize
  depth,    \* DepthMode
  pages,    \* the requests to the service, as starts and numbers
  found,    \* the documents
  todo,     \* the texts of the dictionary still to write
  runes,    \* the length of what is written, in runes
  bytes,    \* and in bytes
  pc        \* "asking", "writing", "written", "failed", "panicked"

configVars == <<engine, valid, limit, size, depth>>
searchVars == <<configVars, pages, found, todo, runes, bytes, pc>>

SearchInit ==
  /\ engine \in {"google", "tavily"}
  /\ valid \in BOOLEAN
  /\ limit \in Limits /\ size \in Sizes
  /\ depth \in BOOLEAN
  /\ pages = <<>> /\ found = <<>> /\ todo = {}
  /\ runes = 0 /\ bytes = 0
  /\ pc = "asking"

-----------------------------------------------------------------------------
(* Search.                                                                 *)

Paged == engine = "google" /\ limit > 10
Last  == limit \div 10

\* Mutant: the start counts pages.
PageByNumber(page) ==
  [start |-> page, num |-> IF page = Last THEN limit - page * 10 ELSE 10]

\* The last full page asks only for what the limit exceeds it by.
Page(page) ==
  [start |-> 10 * (page - 1) + 1, num |-> IF page = Last THEN limit - page * 10 ELSE 10]

Invalid ==
  /\ pc = "asking" /\ engine = "tavily" /\ ~valid
  /\ pc' = "failed"
  /\ UNCHANGED <<configVars, pages, found, todo, runes, bytes>>

\* A number that the service does not allow, 0 among them, it may refuse or
\* take for another.
Ask(request) ==
  /\ pages' = Append(pages, request)
  /\ \E n \in 0 .. (MaxDocs - Len(found)) : \E docs \in [1 .. n -> Doc] :
       /\ request.num \in 1 .. 10 => n <= request.num
       /\ found' = found \o docs
  /\ UNCHANGED <<configVars, todo, runes, bytes>>

AskPage ==
  /\ pc = "asking" /\ Paged
  /\ Len(pages) < Last
  /\ Ask(Page(Len(pages) + 1))
  /\ UNCHANGED pc

AskOnce ==
  /\ pc = "asking" /\ ~Paged /\ pages = <<>>
  /\ engine = "tavily" => valid
  /\ Ask([start |-> 1, num |-> limit])
  /\ UNCHANGED pc

\* Any page that fails fails the search.
AskFails ==
  /\ pc = "asking"
  /\ pc' = "failed"
  /\ UNCHANGED <<configVars, pages, found, todo, runes, bytes>>

-----------------------------------------------------------------------------
(* DocumentsCompress: the texts are the keys of a Go map, so each is       *)
(* written once, in any order.                                             *)

Texts == {found[i] : i \in DOMAIN found}

Compress ==
  /\ pc = "asking" /\ pages # <<>>
  /\ Paged => Len(pages) = Last
  /\ todo' = Texts
  /\ pc' = "writing"
  /\ UNCHANGED <<configVars, pages, found, runes, bytes>>

\* substringByRune, with a line break after it.
WriteCut(d, length, more) ==
  LET cut == IF length > Runes[d] THEN Runes[d] ELSE length
  IN  /\ runes' = runes + cut + 1 + more
      /\ bytes' = bytes + cut * Width[d] + 1 + more

\* Go's division rounds towards zero, and a slice to a negative end panics.
Share == IF size >= 0 THEN size \div Len(found) ELSE -((-size) \div Len(found))

WriteFlat(d) ==
  /\ pc = "writing" /\ ~depth /\ d \in todo
  /\ IF Share < 0
       THEN pc' = "panicked" /\ UNCHANGED <<todo, runes, bytes>>
       ELSE WriteCut(d, Share, 0) /\ todo' = todo \ {d} /\ UNCHANGED pc
  /\ UNCHANGED <<configVars, pages, found>>

\* Once the size is exceeded one more text is written, cut to the excess, and
\* dots after it.
WriteDeep(d) ==
  /\ pc = "writing" /\ depth /\ d \in todo
  /\ IF bytes > size
       THEN WriteCut(d, bytes - size, 3) /\ todo' = {}
       ELSE WriteCut(d, Runes[d], 0) /\ todo' = todo \ {d}
  /\ UNCHANGED <<configVars, pages, found, pc>>

SetAttribute ==
  /\ pc = "writing" /\ todo = {}
  /\ pc' = "written"
  /\ UNCHANGED <<configVars, pages, found, todo, runes, bytes>>

SearchNext ==
  \/ Invalid \/ AskPage \/ AskOnce \/ AskFails
  \/ Compress \/ SetAttribute
  \/ \E d \in Doc : WriteFlat(d) \/ WriteDeep(d)

SearchSpec == SearchInit /\ [][SearchNext]_searchVars

-----------------------------------------------------------------------------
Asked == pc \in {"writing", "written", "panicked"}

\* The pages begin at the first result and follow on one another, so that none
\* is asked for twice or left out between two, and none beyond the limit; and a
\* search that has asked for all of them falls short of it by ten at most.
PagesFollow ==
  /\ \A i \in DOMAIN pages :
       /\ pages[i].start = IF i = 1 THEN 1 ELSE pages[i - 1].start + pages[i - 1].num
       /\ pages[i].start + pages[i].num <= limit + 1
  /\ Asked => pages[Len(pages)].start + pages[Len(pages)].num > limit - 10

Weight(d) == Runes[d] * Width[d]

\* In flat mode the text has no more runes than the block size, but for a line
\* break per text; in depth mode it passes the size by one text, and once more
\* by the text that is cut.  Only a negative size panics, never a search that
\* finds nothing.
TextBounded ==
  /\ ~depth /\ size >= 0 => runes <= size + Cardinality(Texts)
  /\ depth /\ size >= 0 =>
       bytes <= size \/ \E d, e \in Texts : bytes <= size + (Weight(d) + 1) + (Weight(e) + 1 + 3)
  /\ pc = "panicked" => size < 0

\* What a search asks for and what it writes keep to the limit and the block
\* size of the stream's configuration: the pages of google_search.go follow on
\* one another, and the text of document.go stays near the size.
SearchBounded == PagesFollow /\ TextBounded
=============================================================================
