------------------------- MODULE ContextFilesProofs -------------------------
(***************************************************************************)
(* Proofs about ContextFiles for any number of terminals, contexts and     *)
(* commands.  A command is alone until another one starts, and the others  *)
(* are at rest while it is: what it has read is still so, and the files    *)
(* are whole but for the one it is writing, and the contexts it knows to   *)
(* be used are all that are: it is refused only what was not there when it *)
(* began.  How deep getContexts nests takes an argument about all          *)
(* commands: to be called again it has to find no context, and the default *)
(* one it added last time is gone only if another command has removed it,  *)
(* and ended.                                                              *)
(***************************************************************************)
EXTENDS ContextFiles, FiniteSetTheorems, TLAPS

Adding  == {"add", "addcut", "addfill", "addlost"}
Reading == {"stat", "gencut", "genfill", "read"}

Command ==
  [pc : Rest \cup Adding \cup Reading \cup {"scan", "open", "remove", "cut", "fill"},
   cmd : Commands, name : Contexts, file : Contexts,
   todo : SUBSET Contexts, seen : SUBSET Contexts, used : SUBSET Contexts,
   depth : Nat, goal : {"match", "set"}, alone : BOOLEAN, had : BOOLEAN, served : BOOLEAN]

FilesType ==
  /\ ctx \in [Contexts -> {None, Cut, Torn} \cup Sound]
  /\ conf \in {None, Cut, Torn} \cup Contexts
  /\ at \in [Procs -> Command]
  /\ commands \in 0 .. MaxCommands

\* The config is read to learn whether the context in hand is used.
Matching(p) == at[p].pc \in Reading /\ at[p].goal = "match"

\* What getContexts has found so far.
Scanned(p) ==
  /\ at[p].used \subseteq at[p].seen \cup (IF Matching(p) THEN {at[p].file} ELSE {})
  /\ at[p].todo \cap at[p].seen = {}
  /\ Matching(p) => at[p].file \notin at[p].todo
  /\ at[p].pc \in Adding /\ at[p].depth > 0 => at[p].file = Local

-----------------------------------------------------------------------------
\* How deep: no deeper than there are commands that have ended, and one more;
\* and one less when the default context is missing.
Active == {p \in Procs : at[p].pc \notin Rest}

Missing(p) ==
  \/ at[p].pc = "scan" /\ ctx[Local] = None
  \/ at[p].pc = "open" /\ at[p].todo = {} /\ at[p].seen = {}
  \/ at[p].pc = "addlost"

DepthBounded(p) ==
  IF p \notin Active THEN at[p].depth = 0
  ELSE /\ at[p].depth + Cardinality(Active) <= commands + 1
       /\ Missing(p) => at[p].depth + Cardinality(Active) <= commands

-----------------------------------------------------------------------------
\* A command alone: where the files are.
Present == {n \in Contexts : ctx[n] \in Sound}

AloneFiles(p) ==
  /\ \A n \in Contexts : IF at[p].pc = "addfill" /\ n = at[p].file THEN ctx[n] = Cut ELSE ctx[n] \in {None} \cup Sound
  /\ at[p].pc # "addlost"
  /\ at[p].pc = "addcut" => ctx[at[p].file] = None
  /\ at[p].pc = "gencut" => conf = None
  /\ IF at[p].pc \in {"genfill", "fill"} THEN conf = Cut ELSE conf \in {None} \cup Contexts
  /\ at[p].pc \in {"read", "cut"} => conf \in Contexts

\* What it has found is there; the default context is alone when it was added.
AloneFound(p) ==
  /\ at[p].pc \in {"open", "remove"} => at[p].todo \cup at[p].seen = Present
  /\ Matching(p) => at[p].todo \cup at[p].seen \cup {at[p].file} = Present
  /\ (at[p].pc \in Reading /\ at[p].goal = "set") \/ at[p].pc \in {"cut", "fill"} =>
       at[p].depth > 0 \/ at[p].name \in Present
  /\ at[p].depth > 0 => Present = IF at[p].pc \in Adding THEN {} ELSE {Local}

\* There is a current context, and it is not the one to be removed.
AloneCurrent(p) ==
  at[p].had =>
    /\ at[p].depth = 0
    /\ at[p].pc # "fill" => HasCurrent
    /\ at[p].pc = "remove" => at[p].name # conf

\* Whatever is used among what it has found it knows to be used.
AloneUsed(p) ==
  /\ at[p].pc = "open" \/ Matching(p) => Usable \cap at[p].seen \subseteq at[p].used
  /\ Matching(p) /\ ctx[at[p].file] = Default => at[p].file \in at[p].used

\* If it can be served, what it needs is there, or is about to be added.
AloneServed(p) ==
  at[p].served =>
    /\ at[p].cmd = "use" /\ at[p].depth = 0 /\ (at[p].pc \in {"scan", "open"} \/ Matching(p)) =>
         Present = {} \/ Usable # {}
    /\ at[p].cmd = "usenamed" =>
         at[p].name \in Present \/ (at[p].name = Local /\ (Present = {} \/ at[p].depth > 0))

Alone(p) ==
  /\ at[p].alone => at[p].pc # "dead" /\ (at[p].pc = "refused" => ~ at[p].served)
  /\ at[p].alone /\ p \in Active =>
       /\ Active = {p}
       /\ AloneFiles(p) /\ AloneFound(p) /\ AloneCurrent(p) /\ AloneUsed(p) /\ AloneServed(p)

ContextInv ==
  /\ FilesType
  /\ Cardinality(Active) <= commands
  /\ \A p \in Procs : Scanned(p) /\ DepthBounded(p) /\ Alone(p)

-----------------------------------------------------------------------------
(* What a step does to the commands.                                       *)

\* Only p's command changes, or its last step removed the file that another fills.
OnlyP(p) ==
  /\ at' \in [Procs -> Command]
  /\ \A q \in Procs : q # p =>
       \/ at'[q] = at[q]
       \/ at'[p].pc \in Rest /\ at[q].pc = "addfill" /\ at'[q] = [at[q] EXCEPT !.pc = "addlost"]

LEMMA EndedType ==
  ASSUME FilesType, NEW p \in Procs, NEW l \in Rest
  PROVE  Ended(l, at[p].alone, at[p].served) \in Command
<1>1. at[p] \in Command
  BY DEF FilesType
<1>2. at[p].alone \in BOOLEAN /\ at[p].served \in BOOLEAN
  BY <1>1 DEF Command
<1> QED
  BY <1>2, ContextAssumption DEF Ended, Command, Commands

LEMMA GoEffect ==
  ASSUME FilesType, NEW p \in Procs, NEW l, Go(p, l),
         l \in Rest \cup Adding \cup Reading \cup {"scan", "open", "remove", "cut", "fill"}
  PROVE  /\ OnlyP(p)
         /\ at'[p] = IF l \in Rest THEN Ended(l, at[p].alone, at[p].served) ELSE [at[p] EXCEPT !.pc = l]
<1> DEFINE r == IF l \in Rest THEN Ended(l, at[p].alone, at[p].served) ELSE [at[p] EXCEPT !.pc = l]
<1>1. at[p] \in Command
  BY DEF FilesType
<1>2. l \in Rest => Ended(l, at[p].alone, at[p].served) \in Command
  BY EndedType
<1>3. l \notin Rest => [at[p] EXCEPT !.pc = l] \in Command
  BY <1>1 DEF Command
<1>4. r \in Command
  BY <1>2, <1>3
<1>5. at' = [at EXCEPT ![p] = r]
  BY DEF Go, Gone
<1> HIDE DEF r
<1>6. OnlyP(p) /\ at'[p] = r
  BY <1>4, <1>5 DEF OnlyP, FilesType
<1> QED
  BY <1>6 DEF r

LEMMA ActiveFinite == IsFiniteSet(Active) /\ Cardinality(Active) \in Nat
<1>1. Active \subseteq Procs /\ IsFiniteSet(Procs)
  BY ContextAssumption DEF Active
<1> QED
  BY <1>1, FS_Subset, FS_CardinalityType

LEMMA ActiveLeaves ==
  ASSUME FilesType, NEW p \in Active, OnlyP(p), at'[p].pc \in Rest
  PROVE  Active' = Active \ {p} /\ Cardinality(Active') = Cardinality(Active) - 1
<1>1. Active' = Active \ {p}
  BY DEF Active, OnlyP, Rest, FilesType, Command
<1> QED
  BY <1>1, ActiveFinite, FS_RemoveElement

LEMMA ActiveStays ==
  ASSUME NEW p \in Active, OnlyP(p), at'[p].pc \notin Rest
  PROVE  Active' = Active
BY DEF Active, OnlyP, Rest

\* The other commands mind neither p's end nor its going on.
LEMMA OthersKeep ==
  ASSUME ContextInv, NEW p \in Active, OnlyP(p), commands' = commands,
         ctx'[Local] = None => ctx[Local] = None \/ at'[p].pc \in Rest,
         NEW q \in Procs, q # p
  PROVE  Scanned(q)' /\ DepthBounded(q)' /\ Alone(q)'
<1>1. /\ p \in Procs /\ at[q] \in Command
      /\ at'[q] = at[q] \/ (at'[p].pc \in Rest /\ at[q].pc = "addfill" /\ at'[q] = [at[q] EXCEPT !.pc = "addlost"])
  BY DEF OnlyP, Active, ContextInv, FilesType
<1>2. /\ at'[q].pc = at[q].pc \/ (at'[p].pc \in Rest /\ at[q].pc = "addfill" /\ at'[q].pc = "addlost")
      /\ at'[q].file = at[q].file /\ at'[q].todo = at[q].todo /\ at'[q].seen = at[q].seen
      /\ at'[q].used = at[q].used /\ at'[q].depth = at[q].depth /\ at'[q].goal = at[q].goal
      /\ at'[q].alone = at[q].alone /\ at'[q].served = at[q].served
      /\ at'[q].cmd = at[q].cmd
  BY <1>1 DEF Command
<1>3. q \in Active' <=> q \in Active
  BY <1>2 DEF Active, Rest
<1>4. Scanned(q)'
  BY <1>2 DEF ContextInv, Scanned, Matching, Adding, Reading
<1>5. Alone(q)'
  <2>1. at[q].alone => q \notin Active
    BY <1>1 DEF ContextInv, Alone
  <2>2. at'[q].pc = at[q].pc \/ (at'[q].pc # "dead" /\ at'[q].pc # "refused")
    BY <1>2
  <2> QED
    BY <1>2, <1>3, <2>1, <2>2 DEF ContextInv, Alone
<1>6. DepthBounded(q)'
  <2>1. CASE q \notin Active
    BY <1>2, <1>3, <2>1 DEF ContextInv, DepthBounded
  <2>2. CASE q \in Active /\ at'[p].pc \in Rest
    <3>1. Cardinality(Active') = Cardinality(Active) - 1 /\ Cardinality(Active) \in Nat
      BY <2>2, ActiveLeaves, ActiveFinite DEF ContextInv
    <3>2. at[q].depth \in Nat /\ commands \in Nat /\ at[q].depth + Cardinality(Active) <= commands + 1
      BY <2>2 DEF ContextInv, DepthBounded, FilesType, Command
    <3>3. at'[q].depth + Cardinality(Active') <= commands'
      BY <1>2, <3>1, <3>2
    <3>4. at'[q].depth + Cardinality(Active') <= commands' + 1
      BY <1>2, <3>1, <3>2
    <3> QED
      BY <1>3, <2>2, <3>3, <3>4 DEF DepthBounded
  <2>3. CASE q \in Active /\ at'[p].pc \notin Rest
    <3>1. Active' = Active
      BY <2>3, ActiveStays
    <3>2. Missing(q)' => Missing(q)
      BY <1>1, <2>3 DEF Missing
    <3> QED
      BY <1>2, <2>3, <3>1, <3>2 DEF ContextInv, DepthBounded
  <2> QED
    BY <2>1, <2>2, <2>3
<1> QED
  BY <1>4, <1>5, <1>6

\* A command ends: only by log.Fatal may it have found the files otherwise than
\* a command alone does.
LEMMA Leaves ==
  ASSUME ContextInv, NEW p \in Active, NEW l \in Rest,
         OnlyP(p), at'[p] = Ended(l, at[p].alone, at[p].served),
         at[p].alone => l # "dead" /\ (l = "refused" => ~ at[p].served), commands' = commands,
         ctx' \in [Contexts -> {None, Cut, Torn} \cup Sound], conf' \in {None, Cut, Torn} \cup Contexts
  PROVE  ContextInv'
<1>1. p \in Procs /\ FilesType /\ at[p] \in Command
  BY DEF Active, ContextInv, FilesType
<1>2. at'[p].pc = l /\ at'[p].depth = 0 /\ at'[p].used = {}
      /\ at'[p].seen = {} /\ at'[p].todo = {} /\ l \notin Adding \cup Reading
  BY DEF Ended, Rest, Adding, Reading
<1>3. (at'[p].alone => at[p].alone) /\ (l = "refused" /\ at'[p].served => at[p].served)
  <2>1. /\ at'[p].alone = (at[p].alone /\ l \in {"dead", "refused"})
        /\ at'[p].served = (l = "refused" => at[p].served)
    BY DEF Ended
  <2>2. at[p].alone \in BOOLEAN /\ at[p].served \in BOOLEAN
    BY <1>1 DEF Command
  <2> QED
    BY <2>1, <2>2
<1>4. p \notin Active' /\ Cardinality(Active') = Cardinality(Active) - 1 /\ Cardinality(Active) \in Nat
  BY <1>1, <1>2, ActiveLeaves, ActiveFinite
<1>5. Scanned(p)' /\ DepthBounded(p)' /\ Alone(p)'
  <2>1. Scanned(p)' /\ DepthBounded(p)'
    BY <1>2, <1>4 DEF Scanned, Matching, DepthBounded
  <2>2. Alone(p)'
    BY <1>2, <1>3, <1>4 DEF Alone
  <2> QED
    BY <2>1, <2>2
<1>6. FilesType'
  BY <1>1 DEF FilesType, OnlyP
<1>7. Cardinality(Active') <= commands'
  BY <1>1, <1>4 DEF ContextInv, FilesType
<1> QED
  BY <1>2, <1>5, <1>6, <1>7, OthersKeep DEF ContextInv

LEMMA Goes ==
  ASSUME ContextInv, NEW p \in Active, NEW l \in Rest, Go(p, l),
         at[p].alone => l # "dead" /\ (l = "refused" => ~ at[p].served), commands' = commands,
         ctx' \in [Contexts -> {None, Cut, Torn} \cup Sound], conf' \in {None, Cut, Torn} \cup Contexts
  PROVE  ContextInv'
<1>1. p \in Procs /\ FilesType
  BY DEF Active, ContextInv
<1>2. OnlyP(p) /\ at'[p] = Ended(l, at[p].alone, at[p].served)
  BY <1>1, GoEffect
<1> QED
  BY <1>2, Leaves

\* A command goes on.
LEMMA GoesOn ==
  ASSUME ContextInv, NEW p \in Active, OnlyP(p), at'[p].pc \notin Rest, commands' = commands,
         ctx' \in [Contexts -> {None, Cut, Torn} \cup Sound], conf' \in {None, Cut, Torn} \cup Contexts,
         ctx'[Local] = None => ctx[Local] = None,
         at'[p].alone = at[p].alone,
         Scanned(p)',
         at'[p].depth <= at[p].depth \/ (Missing(p) /\ at'[p].depth = at[p].depth + 1),
         Missing(p)' => at'[p].depth = 0 \/ (Missing(p) /\ at'[p].depth <= at[p].depth),
         at[p].alone => AloneFiles(p)' /\ AloneFound(p)' /\ AloneCurrent(p)' /\ AloneUsed(p)' /\ AloneServed(p)'
  PROVE  ContextInv'
<1>1. Active' = Active /\ p \in Active' /\ p \in Procs
  BY ActiveStays DEF Active
<1>2. FilesType'
  BY DEF ContextInv, FilesType, OnlyP
<1>3. Alone(p)'
  BY <1>1 DEF Alone, ContextInv, Rest
<1>4. DepthBounded(p)'
  <2>1. Cardinality(Active) \in Nat /\ commands \in Nat /\ at[p].depth \in Nat /\ at'[p].depth \in Nat
    BY <1>1, <1>2, ActiveFinite DEF ContextInv, FilesType, Command
  <2>2. /\ Cardinality(Active) <= commands
        /\ at[p].depth + Cardinality(Active) <= commands + 1
        /\ Missing(p) => at[p].depth + Cardinality(Active) <= commands
    BY <1>1 DEF ContextInv, DepthBounded
  <2>3. at'[p].depth + Cardinality(Active) <= commands + 1
    BY <2>1, <2>2
  <2>4. Missing(p)' => at'[p].depth + Cardinality(Active) <= commands
    BY <2>1, <2>2
  <2> QED
    BY <1>1, <2>3, <2>4 DEF DepthBounded
<1>5. Cardinality(Active') <= commands'
  BY <1>1 DEF ContextInv
<1> QED
  BY <1>1, <1>2, <1>3, <1>4, <1>5, OthersKeep DEF ContextInv

\* A command that only goes from one place to another.
LEMMA PlaceOnly ==
  ASSUME ContextInv, NEW p \in Procs, NEW l, Go(p, l),
         l \in Adding \cup Reading \cup {"scan", "open", "remove", "cut", "fill"}
  PROVE  /\ OnlyP(p) /\ at'[p].pc = l /\ l \notin Rest
         /\ at'[p].cmd = at[p].cmd /\ at'[p].name = at[p].name /\ at'[p].file = at[p].file
         /\ at'[p].todo = at[p].todo /\ at'[p].seen = at[p].seen /\ at'[p].used = at[p].used
         /\ at'[p].depth = at[p].depth /\ at'[p].goal = at[p].goal
         /\ at'[p].alone = at[p].alone /\ at'[p].had = at[p].had /\ at'[p].served = at[p].served
<1>1. l \notin Rest
  BY DEF Rest, Adding, Reading
<1>2. OnlyP(p) /\ at'[p] = [at[p] EXCEPT !.pc = l] /\ at[p] \in Command
  BY <1>1, GoEffect DEF ContextInv, FilesType
<1> QED
  BY <1>1, <1>2 DEF Command

-----------------------------------------------------------------------------
(* addContext.                                                             *)

LEMMA AddInv ==
  ASSUME ContextInv, NEW p \in Procs, Add(p)
  PROVE  ContextInv'
<1>1. at[p].pc = "add" /\ p \in Active /\ UNCHANGED <<ctx, conf, commands>>
  BY DEF Add, At, Active, Rest
<1>2. FilesType /\ Scanned(p) /\ Alone(p)
  BY DEF ContextInv
<1>3. CASE ctx[at[p].file] # None
  <2>1. PICK l \in Rest : Go(p, l) /\ l # "refused" /\ (l = "dead" => at[p].depth > 0)
    BY <1>3 DEF Add, Rest
  <2>2. ASSUME at[p].alone, at[p].depth > 0
        PROVE  FALSE
    <3>1. at[p].file = Local /\ Present = {} /\ ctx[Local] \in {None} \cup Sound /\ Local \in Contexts
      BY <1>1, <1>2, <2>2, ContextAssumption DEF Scanned, Alone, AloneFound, AloneFiles, Adding
    <3> QED
      BY <1>3, <3>1 DEF Present
  <2> QED
    BY <1>1, <1>2, <2>1, <2>2, Goes DEF FilesType
<1>4. CASE ctx[at[p].file] = None
  <2>1. Go(p, "addcut") /\ "addcut" \in Adding
    BY <1>4 DEF Add, Adding
  <2>2. /\ OnlyP(p) /\ at'[p].pc = "addcut" /\ "addcut" \notin Rest
        /\ at'[p].cmd = at[p].cmd /\ at'[p].name = at[p].name /\ at'[p].file = at[p].file
        /\ at'[p].todo = at[p].todo /\ at'[p].seen = at[p].seen /\ at'[p].used = at[p].used
        /\ at'[p].depth = at[p].depth /\ at'[p].goal = at[p].goal
        /\ at'[p].alone = at[p].alone /\ at'[p].had = at[p].had /\ at'[p].served = at[p].served
    BY <2>1, PlaceOnly
  <2>3. Scanned(p)'
    BY <1>1, <1>2, <2>2 DEF Scanned, Matching, Adding, Reading
  <2>4. at[p].alone => AloneFiles(p)' /\ AloneFound(p)' /\ AloneCurrent(p)' /\ AloneUsed(p)' /\ AloneServed(p)'
    BY <1>1, <1>2, <1>4, <2>2 DEF Alone, AloneFiles, AloneFound, AloneCurrent, AloneUsed, AloneServed, Matching, Present,
                                 HasCurrent, Adding, Reading
  <2>5. ~ Missing(p)' /\ at'[p].depth <= at[p].depth
    BY <1>2, <2>2 DEF Missing, FilesType, Command
  <2> QED
    BY <1>1, <1>2, <2>2, <2>3, <2>4, <2>5, GoesOn DEF FilesType
<1> QED
  BY <1>3, <1>4

LEMMA AddCutInv ==
  ASSUME ContextInv, NEW p \in Procs, AddCut(p)
  PROVE  ContextInv'
<1>1. at[p].pc = "addcut" /\ p \in Active /\ UNCHANGED <<conf, commands>>
      /\ ctx' = [ctx EXCEPT ![at[p].file] = Cut]
  BY DEF AddCut, At, Active, Rest
<1>2. FilesType /\ Scanned(p) /\ Alone(p) /\ at[p].file \in Contexts
  BY DEF ContextInv, FilesType, Command
<1>3. Go(p, "addfill") /\ "addfill" \in Adding
  BY DEF AddCut, Adding
<1>4. /\ OnlyP(p) /\ at'[p].pc = "addfill" /\ "addfill" \notin Rest
      /\ at'[p].cmd = at[p].cmd /\ at'[p].name = at[p].name /\ at'[p].file = at[p].file
      /\ at'[p].todo = at[p].todo /\ at'[p].seen = at[p].seen /\ at'[p].used = at[p].used
      /\ at'[p].depth = at[p].depth /\ at'[p].goal = at[p].goal
      /\ at'[p].alone = at[p].alone /\ at'[p].had = at[p].had /\ at'[p].served = at[p].served
  BY <1>3, PlaceOnly
<1>5. Scanned(p)'
  BY <1>1, <1>2, <1>4 DEF Scanned, Matching, Adding, Reading
<1>6. ctx' \in [Contexts -> {None, Cut, Torn} \cup Sound] /\ (ctx'[Local] = None => ctx[Local] = None)
  BY <1>1, <1>2, ContextAssumption DEF FilesType
<1>7. ASSUME at[p].alone
      PROVE  AloneFiles(p)' /\ AloneFound(p)' /\ AloneCurrent(p)' /\ AloneUsed(p)' /\ AloneServed(p)'
  <2>1. ctx[at[p].file] = None /\ AloneFiles(p) /\ AloneFound(p) /\ AloneCurrent(p) /\ AloneUsed(p) /\ AloneServed(p)
    BY <1>1, <1>2, <1>7 DEF Alone, AloneFiles
  <2>2. \A n \in Contexts : ctx'[n] = IF n = at[p].file THEN Cut ELSE ctx[n]
    BY <1>1, <1>2 DEF FilesType
  <2>3. Present' = Present
    BY <2>1, <2>2, ContextAssumption DEF Present, Sound
  <2>4. AloneFiles(p)'
    BY <1>1, <1>4, <2>1, <2>2 DEF AloneFiles
  <2>5. AloneFound(p)'
    BY <1>1, <1>4, <2>1, <2>3 DEF AloneFound, Matching, Adding, Reading
  <2>6. AloneCurrent(p)'
    BY <1>1, <1>4, <2>1, <2>2, ContextAssumption DEF AloneCurrent, HasCurrent, Sound
  <2>7. AloneUsed(p)' /\ AloneServed(p)'
    BY <1>1, <1>4, <2>1, <2>3 DEF AloneUsed, AloneServed, Matching, Adding, Reading
  <2> QED
    BY <2>4, <2>5, <2>6, <2>7
<1> QED
  BY <1>1, <1>2, <1>4, <1>5, <1>6, <1>7, GoesOn DEF FilesType, Missing, Command

LEMMA AddFillInv ==
  ASSUME ContextInv, NEW p \in Procs, AddFill(p)
  PROVE  ContextInv'
<1> DEFINE new == IF at[p].depth > 0 THEN Default ELSE Whole
<1>1. at[p].pc \in {"addfill", "addlost"} /\ at[p].pc \in Adding /\ p \in Active /\ UNCHANGED <<conf, commands>>
  BY DEF AddFill, At, Active, Rest, Adding
<1>2. FilesType /\ Scanned(p) /\ Alone(p) /\ at[p].file \in Contexts /\ at[p].depth \in Nat
  BY DEF ContextInv, FilesType, Command
<1>3. PICK text \in Filled(ctx[at[p].file], new) :
        IF at[p].pc = "addfill" THEN ctx' = [ctx EXCEPT ![at[p].file] = text] ELSE ctx' = ctx
  BY DEF AddFill, At, Filled
<1>4. text \in {Torn} \cup Sound /\ text # None /\ (ctx[at[p].file] = Cut => text = new)
  BY <1>3, ContextAssumption DEF Filled, Sound
<1> HIDE DEF new
<1>5. \A n \in Contexts : ctx'[n] = IF at[p].pc = "addfill" /\ n = at[p].file THEN text ELSE ctx[n]
  BY <1>2, <1>3 DEF FilesType
<1>6. /\ ctx' \in [Contexts -> {None, Cut, Torn} \cup Sound]
      /\ ctx'[Local] = None => ctx[Local] = None /\ (at[p].pc = "addfill" => at[p].file # Local)
  <2>1. ctx' \in [Contexts -> {None, Cut, Torn} \cup Sound]
    BY <1>2, <1>3, <1>4 DEF FilesType
  <2> QED
    BY <1>4, <1>5, <2>1, ContextAssumption
<1>7. CASE ~(at[p].depth > 0 \/ at[p].cmd = "addused")
  <2>1. Go(p, "idle") /\ "idle" \in Rest
    BY <1>7 DEF AddFill, Rest
  <2> QED
    BY <1>1, <1>2, <1>6, <2>1, Goes DEF FilesType
<1>8. CASE at[p].depth > 0 \/ at[p].cmd = "addused"
  <2>1. Go(p, "scan")
    BY <1>8 DEF AddFill
  <2>2. /\ OnlyP(p) /\ at'[p].pc = "scan" /\ "scan" \notin Rest
        /\ at'[p].cmd = at[p].cmd /\ at'[p].name = at[p].name /\ at'[p].file = at[p].file
        /\ at'[p].todo = at[p].todo /\ at'[p].seen = at[p].seen /\ at'[p].used = at[p].used
        /\ at'[p].depth = at[p].depth /\ at'[p].goal = at[p].goal
        /\ at'[p].alone = at[p].alone /\ at'[p].had = at[p].had /\ at'[p].served = at[p].served
    BY <2>1, PlaceOnly
  <2>3. Scanned(p)'
    BY <1>1, <1>2, <2>2 DEF Scanned, Matching, Adding, Reading
  <2>4. ASSUME at[p].alone
        PROVE  AloneFiles(p)' /\ AloneFound(p)' /\ AloneCurrent(p)' /\ AloneUsed(p)' /\ AloneServed(p)'
    <3>1. /\ AloneFiles(p) /\ AloneFound(p) /\ AloneCurrent(p) /\ AloneUsed(p) /\ AloneServed(p)
          /\ at[p].pc = "addfill" /\ ctx[at[p].file] = Cut
      BY <1>1, <1>2, <2>4 DEF Alone, AloneFiles
    <3>2. text \in Sound
      BY <1>4, <3>1 DEF new, Sound
    <3>3. Present' = Present \cup {at[p].file}
      BY <1>2, <1>5, <3>1, <3>2 DEF Present
    <3>4. AloneFiles(p)'
      BY <1>1, <1>5, <2>2, <3>1, <3>2 DEF AloneFiles
    <3>5. AloneFound(p)'
      BY <1>1, <1>2, <2>2, <3>1, <3>3 DEF AloneFound, Scanned, Matching, Adding, Reading
    <3>6. AloneCurrent(p)'
      BY <1>1, <1>5, <2>2, <3>1, <3>2, ContextAssumption DEF AloneCurrent, HasCurrent
    <3>7. AloneUsed(p)'
      BY <2>2 DEF AloneUsed, Matching, Reading
    <3>8. AloneServed(p)'
      BY <1>8, <2>2, <3>1, <3>3 DEF AloneServed
    <3> QED
      BY <3>4, <3>5, <3>6, <3>7, <3>8
  <2>5. Missing(p)' => at'[p].depth = 0 \/ Missing(p)
    BY <1>1, <1>2, <1>6, <2>2 DEF Missing, Scanned, Adding
  <2> QED
    BY <1>1, <1>2, <1>6, <2>2, <2>3, <2>4, <2>5, GoesOn DEF FilesType
<1> QED
  BY <1>7, <1>8

-----------------------------------------------------------------------------
(* getContexts.                                                            *)

LEMMA ScanInv ==
  ASSUME ContextInv, NEW p \in Procs, Scan(p)
  PROVE  ContextInv'
<1> DEFINE found == {n \in Contexts : ctx[n] # None}
<1>1. at[p].pc = "scan" /\ p \in Active /\ UNCHANGED <<ctx, conf, commands>>
  BY DEF Scan, At, Active, Rest
<1>2. FilesType /\ Scanned(p) /\ Alone(p) /\ at[p] \in Command
  BY DEF ContextInv, FilesType
<1>3. at' = [at EXCEPT ![p] = [@ EXCEPT !.pc = "open", !.todo = found, !.seen = {}, !.used = {}]]
  BY DEF Scan
<1> DEFINE next == [at[p] EXCEPT !.pc = "open", !.todo = found, !.seen = {}, !.used = {}]
<1>4. /\ next \in Command
      /\ next.pc = "open" /\ next.todo = found /\ next.seen = {} /\ next.used = {}
      /\ next.cmd = at[p].cmd /\ next.name = at[p].name /\ next.depth = at[p].depth
      /\ next.alone = at[p].alone /\ next.had = at[p].had /\ next.served = at[p].served
  BY <1>2 DEF Command
<1>5. at' = [at EXCEPT ![p] = next]
  BY <1>2, <1>3 DEF FilesType
<1>6. OnlyP(p) /\ at'[p] = next
  <2> HIDE DEF next
  <2> QED
    BY <1>2, <1>4, <1>5 DEF OnlyP, FilesType
<1> HIDE DEF next
<1>7. Scanned(p)'
  BY <1>4, <1>6 DEF Scanned, Matching, Adding, Reading
<1>8. Missing(p)' => Missing(p)
  BY <1>1, <1>4, <1>6, ContextAssumption DEF Missing
<1>9. ASSUME at[p].alone
      PROVE  AloneFiles(p)' /\ AloneFound(p)' /\ AloneCurrent(p)' /\ AloneUsed(p)' /\ AloneServed(p)'
  <2>1. AloneFiles(p) /\ AloneFound(p) /\ AloneCurrent(p) /\ AloneUsed(p) /\ AloneServed(p)
    BY <1>1, <1>2, <1>9 DEF Alone
  <2>2. found = Present
    BY <1>1, <2>1, ContextAssumption DEF AloneFiles, Present, Sound
  <2> HIDE DEF found
  <2>3. AloneFiles(p)'
    BY <1>1, <1>4, <1>6, <2>1 DEF AloneFiles
  <2>4. AloneFound(p)'
    BY <1>1, <1>4, <1>6, <2>1, <2>2 DEF AloneFound, Present, Matching, Adding, Reading
  <2>5. AloneCurrent(p)'
    BY <1>1, <1>4, <1>6, <2>1 DEF AloneCurrent, HasCurrent
  <2>6. AloneUsed(p)'
    BY <1>4, <1>6 DEF AloneUsed, Matching, Reading
  <2>7. AloneServed(p)'
    BY <1>1, <1>4, <1>6, <2>1 DEF AloneServed, Present, Usable
  <2> QED
    BY <2>3, <2>4, <2>5, <2>6, <2>7
<1> QED
  BY <1>1, <1>2, <1>4, <1>6, <1>7, <1>8, <1>9, GoesOn DEF FilesType, Command, Rest

LEMMA OpenInv ==
  ASSUME ContextInv, NEW p \in Procs, NEW n \in Contexts, Open(p, n)
  PROVE  ContextInv'
<1>1. at[p].pc = "open" /\ n \in at[p].todo /\ p \in Active /\ UNCHANGED <<ctx, conf, commands>>
  BY DEF Open, At, Active, Rest
<1>2. FilesType /\ Scanned(p) /\ Alone(p) /\ at[p] \in Command
  BY DEF ContextInv, FilesType
<1>3. at[p].alone => AloneFiles(p) /\ AloneFound(p) /\ AloneCurrent(p) /\ AloneUsed(p) /\ AloneServed(p) /\ ctx[n] \in Sound
  BY <1>1, <1>2 DEF Alone, AloneFound, Present
<1>4. CASE ctx[n] \notin Sound
  <2>1. Go(p, "dead") /\ "dead" \in Rest
    BY <1>4 DEF Open, Rest
  <2> QED
    BY <1>1, <1>2, <1>3, <1>4, <2>1, Goes DEF FilesType
<1>5. CASE ctx[n] \in Sound
  <2> DEFINE marked == IF ctx[n] = Default THEN at[p].used \cup {n} ELSE at[p].used
             next == [at[p] EXCEPT !.pc = "stat", !.file = n, !.todo = @ \ {n}, !.goal = "match", !.used = marked]
  <2>1. /\ next \in Command
        /\ next.pc = "stat" /\ next.file = n /\ next.todo = at[p].todo \ {n} /\ next.goal = "match"
        /\ next.seen = at[p].seen /\ next.used = marked
        /\ next.cmd = at[p].cmd /\ next.name = at[p].name /\ next.depth = at[p].depth
        /\ next.alone = at[p].alone /\ next.had = at[p].had /\ next.served = at[p].served
    BY <1>2 DEF Command, Reading
  <2>2. at' = [at EXCEPT ![p] = next]
    BY <1>2, <1>5 DEF Open, FilesType
  <2>3. OnlyP(p) /\ at'[p] = next
    <3> HIDE DEF next
    <3> QED
      BY <1>2, <2>1, <2>2 DEF OnlyP, FilesType
  <2> HIDE DEF next
  <2>4. Scanned(p)'
    BY <1>1, <1>2, <2>1, <2>3 DEF Scanned, Matching, Adding, Reading
  <2>5. ~ Missing(p)'
    BY <2>1, <2>3 DEF Missing
  <2>6. ASSUME at[p].alone
        PROVE  AloneFiles(p)' /\ AloneFound(p)' /\ AloneCurrent(p)' /\ AloneUsed(p)' /\ AloneServed(p)'
    <3>1. AloneFiles(p)'
      BY <1>1, <1>3, <2>1, <2>3, <2>6 DEF AloneFiles
    <3>2. AloneFound(p)'
      BY <1>1, <1>3, <2>1, <2>3, <2>6 DEF AloneFound, Present, Matching, Adding, Reading
    <3>3. AloneCurrent(p)'
      BY <1>1, <1>3, <2>1, <2>3, <2>6 DEF AloneCurrent, HasCurrent
    <3>4. AloneUsed(p)'
      BY <1>1, <1>3, <2>1, <2>3, <2>6 DEF AloneUsed, Matching, Reading, Usable
    <3>5. AloneServed(p)'
      BY <1>1, <1>3, <2>1, <2>3, <2>6 DEF AloneServed, Present, Usable
    <3> QED
      BY <3>1, <3>2, <3>3, <3>4, <3>5
  <2> QED
    BY <1>1, <1>2, <2>1, <2>3, <2>4, <2>5, <2>6, GoesOn DEF FilesType, Command, Rest
<1> QED
  BY <1>4, <1>5

LEMMA AddDefaultInv ==
  ASSUME ContextInv, NEW p \in Procs, AddDefault(p)
  PROVE  ContextInv'
<1>1. /\ at[p].pc = "open" /\ p \in Active /\ UNCHANGED <<ctx, conf, commands>>
      /\ at[p].todo = {} /\ at[p].seen = {} /\ Missing(p)
  BY DEF AddDefault, At, Active, Rest, Missing
<1>2. FilesType /\ Scanned(p) /\ Alone(p) /\ at[p] \in Command
  BY DEF ContextInv, FilesType
<1> DEFINE next == [at[p] EXCEPT !.pc = "add", !.file = Local, !.depth = @ + 1]
<1>3. /\ next \in Command
      /\ next.pc = "add" /\ next.file = Local /\ next.depth = at[p].depth + 1 /\ next.depth > 0
      /\ next.todo = {} /\ next.seen = {} /\ next.used = at[p].used
      /\ next.cmd = at[p].cmd /\ next.name = at[p].name /\ next.alone = at[p].alone /\ next.had = at[p].had /\ next.served = at[p].served
  <2>1. at[p].depth \in Nat /\ at[p].depth + 1 \in Nat /\ at[p].depth + 1 > 0
    BY <1>2 DEF Command
  <2>2. Local \in Contexts /\ "add" \in Adding
    BY ContextAssumption DEF Adding
  <2>3. next = [at[p] EXCEPT !.pc = "add", !.file = Local, !.depth = at[p].depth + 1]
    BY <1>2 DEF Command
  <2> QED
    BY <1>1, <1>2, <2>1, <2>2, <2>3 DEF Command
<1>4. at' = [at EXCEPT ![p] = next]
  BY <1>2 DEF AddDefault, FilesType
<1>5. OnlyP(p) /\ at'[p] = next
  <2> HIDE DEF next
  <2> QED
    BY <1>2, <1>3, <1>4 DEF OnlyP, FilesType
<1> HIDE DEF next
<1>6. Scanned(p)'
  BY <1>1, <1>2, <1>3, <1>5 DEF Scanned, Matching, Adding, Reading
<1>7. ~ Missing(p)'
  BY <1>3, <1>5 DEF Missing
<1>8. ASSUME at[p].alone
      PROVE  AloneFiles(p)' /\ AloneFound(p)' /\ AloneCurrent(p)' /\ AloneUsed(p)' /\ AloneServed(p)'
  <2>1. AloneFiles(p) /\ AloneFound(p) /\ AloneCurrent(p) /\ AloneUsed(p) /\ AloneServed(p)
    BY <1>1, <1>2, <1>8 DEF Alone
  <2>2. Present = {} /\ ~ HasCurrent
    BY <1>1, <2>1 DEF AloneFound, Present, HasCurrent
  <2>3. AloneFiles(p)'
    BY <1>1, <1>3, <1>5, <2>1 DEF AloneFiles
  <2>4. AloneFound(p)'
    BY <1>1, <1>3, <1>5, <2>2 DEF AloneFound, Present, Matching, Adding, Reading
  <2>5. ~ at[p].had
    BY <1>1, <2>1, <2>2 DEF AloneCurrent
  <2>6. AloneUsed(p)'
    BY <1>3, <1>5 DEF AloneUsed, Matching, Reading
  <2>7. AloneServed(p)'
    BY <1>1, <1>3, <1>5, <2>1, <2>2 DEF AloneServed, Present
  <2> QED
    BY <1>3, <1>5, <2>3, <2>4, <2>5, <2>6, <2>7 DEF AloneCurrent
<1> QED
  BY <1>1, <1>2, <1>3, <1>5, <1>6, <1>7, <1>8, GoesOn DEF FilesType, Rest

\* The outer getContexts goes on: it is the default context that is there.
LEMMA BackInv ==
  ASSUME ContextInv, NEW p \in Active, BackWithDefault(p), at[p].depth > 0, at[p].pc \notin Adding,
         UNCHANGED <<ctx, commands>>, conf' \in {None, Cut, Torn} \cup Contexts,
         at[p].alone => conf' = Local
  PROVE  ContextInv'
<1>1. p \in Procs /\ FilesType /\ Alone(p) /\ at[p] \in Command /\ at[p].depth \in Nat
  BY DEF ContextInv, FilesType, Active, Command
<1> DEFINE next == [at[p] EXCEPT !.pc = "open", !.todo = {}, !.seen = {Local}, !.used = {Local}, !.depth = @ - 1]
<1>2. /\ next \in Command
      /\ next.pc = "open" /\ next.todo = {} /\ next.seen = {Local} /\ next.used = {Local}
      /\ next.depth = at[p].depth - 1
      /\ next.cmd = at[p].cmd /\ next.name = at[p].name /\ next.alone = at[p].alone /\ next.had = at[p].had /\ next.served = at[p].served
  <2>1. at[p].depth - 1 \in Nat
    BY <1>1
  <2>2. next = [at[p] EXCEPT !.pc = "open", !.todo = {}, !.seen = {Local}, !.used = {Local}, !.depth = at[p].depth - 1]
    BY <1>1 DEF Command
  <2> QED
    BY <1>1, <2>1, <2>2, ContextAssumption DEF Command
<1>3. at' = [at EXCEPT ![p] = next]
  BY <1>1 DEF BackWithDefault, FilesType
<1>4. OnlyP(p) /\ at'[p] = next
  <2> HIDE DEF next
  <2> QED
    BY <1>1, <1>2, <1>3 DEF OnlyP, FilesType
<1> HIDE DEF next
<1>5. Scanned(p)'
  BY <1>2, <1>4 DEF Scanned, Matching, Adding, Reading
<1>6. ~ Missing(p)'
  BY <1>2, <1>4 DEF Missing
<1>7. ASSUME at[p].alone
      PROVE  AloneFiles(p)' /\ AloneFound(p)' /\ AloneCurrent(p)' /\ AloneUsed(p)' /\ AloneServed(p)'
  <2>1. AloneFiles(p) /\ AloneFound(p) /\ AloneCurrent(p) /\ AloneUsed(p) /\ AloneServed(p)
    BY <1>1, <1>7 DEF Alone
  <2>2. Present = {Local} /\ ~ at[p].had
    BY <1>1, <2>1 DEF AloneFound, AloneCurrent
  <2>3. AloneFiles(p)'
    BY <1>2, <1>4, <1>7, <2>1, ContextAssumption DEF AloneFiles, Adding
  <2>4. AloneFound(p)'
    BY <1>2, <1>4, <2>2 DEF AloneFound, Present, Matching, Adding, Reading
  <2>5. AloneUsed(p)'
    BY <1>2, <1>4 DEF AloneUsed, Matching, Reading
  <2>6. Local \in Usable' /\ Present' = {Local}
    BY <1>7, <2>2, ContextAssumption DEF Usable, Present, Sound
  <2>7. AloneServed(p)'
    BY <1>1, <1>2, <1>4, <2>1, <2>2, <2>6 DEF AloneServed
  <2> QED
    BY <1>2, <1>4, <2>2, <2>3, <2>4, <2>5, <2>7 DEF AloneCurrent
<1>8. at'[p].depth <= at[p].depth
  BY <1>1, <1>2, <1>4
<1> QED
  BY <1>1, <1>2, <1>4, <1>5, <1>6, <1>7, <1>8, GoesOn DEF FilesType, Rest

LEMMA SetInv ==
  ASSUME ContextInv, NEW p \in Procs, Set(p)
  PROVE  ContextInv'
<1> DEFINE wanted == IF at[p].depth > 0 THEN Local ELSE at[p].name
<1>1. /\ at[p].pc = "open" /\ at[p].pc \notin Adding /\ p \in Active /\ UNCHANGED <<ctx, conf, commands>>
      /\ at[p].todo = {}
  BY DEF Set, At, Active, Rest, Adding
<1>2. FilesType /\ Scanned(p) /\ Alone(p) /\ at[p] \in Command
  BY DEF ContextInv, FilesType
<1>3. at[p].alone => AloneFiles(p) /\ AloneFound(p) /\ AloneCurrent(p) /\ AloneUsed(p) /\ AloneServed(p)
  BY <1>1, <1>2 DEF Alone
<1>4. CASE wanted \in at[p].seen
  <2> DEFINE next == [at[p] EXCEPT !.pc = "stat", !.goal = "set"]
  <2>1. /\ next \in Command
        /\ next.pc = "stat" /\ next.goal = "set" /\ next.todo = {} /\ next.seen = at[p].seen
        /\ next.cmd = at[p].cmd /\ next.used = at[p].used /\ next.name = at[p].name /\ next.depth = at[p].depth
        /\ next.alone = at[p].alone /\ next.had = at[p].had /\ next.served = at[p].served
    BY <1>1, <1>2 DEF Command, Reading
  <2>2. at' = [at EXCEPT ![p] = next]
    BY <1>2, <1>4 DEF Set, FilesType
  <2>3. OnlyP(p) /\ at'[p] = next
    <3> HIDE DEF next
    <3> QED
      BY <1>2, <2>1, <2>2 DEF OnlyP, FilesType
  <2> HIDE DEF next
  <2>4. Scanned(p)'
    BY <1>1, <1>2, <2>1, <2>3 DEF Scanned, Matching, Adding, Reading
  <2>5. ~ Missing(p)'
    BY <2>1, <2>3 DEF Missing
  <2>6. ASSUME at[p].alone
        PROVE  AloneFiles(p)' /\ AloneFound(p)' /\ AloneCurrent(p)' /\ AloneUsed(p)' /\ AloneServed(p)'
    <3>1. AloneFiles(p)'
      BY <1>1, <1>3, <2>1, <2>3, <2>6 DEF AloneFiles
    <3>2. AloneFound(p)'
      BY <1>1, <1>3, <1>4, <2>1, <2>3, <2>6 DEF AloneFound, Present, Matching, Adding, Reading
    <3>3. AloneCurrent(p)'
      BY <1>1, <1>3, <2>1, <2>3, <2>6 DEF AloneCurrent, HasCurrent
    <3>4. AloneUsed(p)'
      BY <2>1, <2>3 DEF AloneUsed, Matching
    <3>5. AloneServed(p)'
      BY <1>1, <1>3, <2>1, <2>3, <2>6 DEF AloneServed, Matching, Present
    <3> QED
      BY <3>1, <3>2, <3>3, <3>4, <3>5
  <2> QED
    BY <1>1, <1>2, <2>1, <2>3, <2>4, <2>5, <2>6, GoesOn DEF FilesType, Command, Rest
<1>5. CASE wanted \notin at[p].seen /\ at[p].depth > 0
  <2>1. BackWithDefault(p)
    BY <1>5 DEF Set
  <2>2. at[p].alone => FALSE
    BY <1>1, <1>3, <1>5 DEF AloneFound, Adding
  <2> QED
    BY <1>1, <1>2, <1>5, <2>1, <2>2, BackInv DEF FilesType
<1>6. CASE wanted \notin at[p].seen /\ ~ (at[p].depth > 0)
  <2>1. Go(p, "idle") /\ "idle" \in Rest
    BY <1>6 DEF Set, Rest
  <2> QED
    BY <1>1, <1>2, <2>1, Goes DEF FilesType
<1> QED
  BY <1>4, <1>5, <1>6

LEMMA ListInv ==
  ASSUME ContextInv, NEW p \in Procs, List(p)
  PROVE  ContextInv'
<1>1. p \in Active /\ Go(p, "idle") /\ "idle" \in Rest /\ UNCHANGED <<ctx, conf, commands>> /\ FilesType
  BY DEF List, Found, At, Active, Rest, ContextInv
<1> QED
  BY <1>1, Goes DEF FilesType

LEMMA UseInv ==
  ASSUME ContextInv, NEW p \in Procs, Use(p)
  PROVE  ContextInv'
<1>1. /\ p \in Active /\ UNCHANGED <<ctx, conf, commands>> /\ FilesType /\ Alone(p)
      /\ at[p].pc = "open" /\ at[p].cmd = "use" /\ at[p].depth = 0 /\ at[p].todo = {} /\ at[p].seen # {}
  BY DEF Use, Found, At, Active, Rest, ContextInv
<1>2. PICK l \in Rest : Go(p, l) /\ l # "dead" /\ (l = "refused" => at[p].used = {})
  BY DEF Use, Rest
<1>3. ASSUME at[p].alone, at[p].served, at[p].used = {}
      PROVE  FALSE
  <2>1. AloneFound(p) /\ AloneUsed(p) /\ AloneServed(p)
    BY <1>1, <1>3 DEF Alone
  <2>2. at[p].seen = Present /\ Usable # {} /\ Usable \subseteq Present
    BY <1>1, <1>3, <2>1 DEF AloneFound, AloneServed, Usable, Present, Sound
  <2> QED
    BY <1>1, <1>3, <2>1, <2>2 DEF AloneUsed
<1> QED
  BY <1>1, <1>2, <1>3, Goes DEF FilesType

LEMMA UseNamedInv ==
  ASSUME ContextInv, NEW p \in Procs, UseNamed(p)
  PROVE  ContextInv'
<1>1. /\ p \in Active /\ UNCHANGED <<ctx, conf, commands>> /\ FilesType /\ Alone(p)
      /\ at[p].pc = "open" /\ at[p].cmd = "usenamed" /\ at[p].depth = 0 /\ at[p].todo = {} /\ at[p].seen # {}
  BY DEF UseNamed, Found, At, Active, Rest, ContextInv
<1>2. PICK l \in Rest : Go(p, l) /\ l # "dead" /\ (l = "refused" => at[p].name \notin at[p].seen)
  BY DEF UseNamed, Rest
<1>3. ASSUME at[p].alone, at[p].served, at[p].name \notin at[p].seen
      PROVE  FALSE
  <2>1. AloneFound(p) /\ AloneServed(p)
    BY <1>1, <1>3 DEF Alone
  <2> QED
    BY <1>1, <1>3, <2>1 DEF AloneFound, AloneServed
<1> QED
  BY <1>1, <1>2, <1>3, Goes DEF FilesType

LEMMA RemoveInv ==
  ASSUME ContextInv, NEW p \in Procs, Remove(p)
  PROVE  ContextInv'
<1>1. at[p].pc = "open" /\ p \in Active /\ UNCHANGED <<ctx, conf, commands>> /\ at[p].todo = {}
  BY DEF Remove, Found, At, Active, Rest
<1>2. FilesType /\ Scanned(p) /\ Alone(p)
  BY DEF ContextInv
<1>3. CASE Go(p, "idle")
  BY <1>1, <1>2, <1>3, Goes DEF FilesType, Rest
<1>4. CASE Go(p, "remove") /\ at[p].name \in at[p].seen \ at[p].used
  <2>1. /\ OnlyP(p) /\ at'[p].pc = "remove" /\ "remove" \notin Rest
        /\ at'[p].cmd = at[p].cmd /\ at'[p].name = at[p].name /\ at'[p].file = at[p].file
        /\ at'[p].todo = at[p].todo /\ at'[p].seen = at[p].seen /\ at'[p].used = at[p].used
        /\ at'[p].depth = at[p].depth /\ at'[p].goal = at[p].goal
        /\ at'[p].alone = at[p].alone /\ at'[p].had = at[p].had /\ at'[p].served = at[p].served
    BY <1>4, PlaceOnly
  <2>2. Scanned(p)' /\ ~ Missing(p)'
    BY <1>1, <1>2, <2>1 DEF Scanned, Matching, Missing, Adding, Reading
  <2>3. ASSUME at[p].alone
        PROVE  AloneFiles(p)' /\ AloneFound(p)' /\ AloneCurrent(p)' /\ AloneUsed(p)' /\ AloneServed(p)'
    <3>1. AloneFiles(p) /\ AloneFound(p) /\ AloneCurrent(p) /\ AloneUsed(p) /\ AloneServed(p)
      BY <1>1, <1>2, <2>3 DEF Alone
    <3>2. AloneFiles(p)'
      BY <1>1, <2>1, <3>1 DEF AloneFiles
    <3>3. AloneFound(p)'
      BY <1>1, <2>1, <3>1 DEF AloneFound, Present, Matching, Adding, Reading
    <3>4. AloneCurrent(p)'
      BY <1>1, <1>4, <2>1, <3>1 DEF AloneCurrent, AloneFound, AloneUsed, HasCurrent, Usable, Sound, Present
    <3>5. AloneUsed(p)' /\ AloneServed(p)'
      BY <1>1, <2>1, <3>1 DEF AloneUsed, AloneServed, Matching, Reading, Present
    <3> QED
      BY <3>2, <3>3, <3>4, <3>5
  <2> QED
    BY <1>1, <1>2, <2>1, <2>2, <2>3, GoesOn DEF FilesType, Command
<1> QED
  BY <1>3, <1>4 DEF Remove

LEMMA RemoveFileInv ==
  ASSUME ContextInv, NEW p \in Procs, RemoveFile(p)
  PROVE  ContextInv'
<1>1. /\ p \in Active /\ "idle" \in Rest /\ UNCHANGED <<conf, commands>> /\ FilesType
      /\ ctx' = [ctx EXCEPT ![at[p].name] = None]
  BY DEF RemoveFile, At, Active, Rest, ContextInv
<1>2. ctx' \in [Contexts -> {None, Cut, Torn} \cup Sound]
  BY <1>1 DEF FilesType
<1> DEFINE lost(q) == [at[q] EXCEPT !.pc = "addlost"]
           ended   == Ended("idle", at[p].alone, at[p].served)
<1>3. ASSUME NEW q \in Procs
      PROVE  lost(q) \in Command /\ (q = p => ended \in Command)
  <2>1. at[q] \in Command /\ "addlost" \in Adding
    BY <1>1 DEF FilesType, Adding
  <2> QED
    BY <1>1, <2>1, EndedType DEF Command
<1>4. at' = [q \in Procs |-> IF q = p THEN ended
                             ELSE IF at[q].pc = "addfill" /\ at[q].file = at[p].name THEN lost(q) ELSE at[q]]
  BY DEF RemoveFile, Gone, Rest, At
<1> HIDE DEF lost, ended
<1>5. at'[p] = ended /\ \A q \in Procs : q # p => at'[q] = at[q] \/ (at[q].pc = "addfill" /\ at'[q] = lost(q))
  BY <1>1, <1>4 DEF Active
<1>6. at' \in [Procs -> Command]
  BY <1>1, <1>3, <1>4 DEF FilesType
<1>7. ended.pc = "idle"
  BY DEF ended, Ended
<1>8. OnlyP(p) /\ at'[p] = Ended("idle", at[p].alone, at[p].served)
  BY <1>1, <1>5, <1>6, <1>7 DEF OnlyP, lost, ended
<1> QED
  BY <1>1, <1>2, <1>8, Leaves DEF FilesType

-----------------------------------------------------------------------------
(* The config.                                                             *)

LEMMA StatInv ==
  ASSUME ContextInv, NEW p \in Procs, Stat(p)
  PROVE  ContextInv'
<1>1. at[p].pc = "stat" /\ p \in Active /\ UNCHANGED <<ctx, conf, commands>>
  BY DEF Stat, At, Active, Rest
<1>2. FilesType /\ Scanned(p) /\ Alone(p)
  BY DEF ContextInv
<1>3. PICK l \in {"gencut", "read"} : Go(p, l) /\ (l = "gencut" <=> conf = None)
  BY DEF Stat
<1>4. /\ OnlyP(p) /\ at'[p].pc = l /\ l \notin Rest
      /\ at'[p].cmd = at[p].cmd /\ at'[p].name = at[p].name /\ at'[p].file = at[p].file
      /\ at'[p].todo = at[p].todo /\ at'[p].seen = at[p].seen /\ at'[p].used = at[p].used
      /\ at'[p].depth = at[p].depth /\ at'[p].goal = at[p].goal
      /\ at'[p].alone = at[p].alone /\ at'[p].had = at[p].had /\ at'[p].served = at[p].served
  BY <1>3, PlaceOnly DEF Reading
<1>5. Scanned(p)' /\ ~ Missing(p)'
  BY <1>1, <1>2, <1>4 DEF Scanned, Matching, Missing, Adding, Reading
<1>6. ASSUME at[p].alone
      PROVE  AloneFiles(p)' /\ AloneFound(p)' /\ AloneCurrent(p)' /\ AloneUsed(p)' /\ AloneServed(p)'
  <2>1. AloneFiles(p) /\ AloneFound(p) /\ AloneCurrent(p) /\ AloneUsed(p) /\ AloneServed(p)
    BY <1>1, <1>2, <1>6 DEF Alone
  <2>2. AloneFiles(p)'
    BY <1>1, <1>3, <1>4, <2>1 DEF AloneFiles
  <2>3. AloneFound(p)'
    BY <1>1, <1>4, <2>1 DEF AloneFound, Present, Matching, Adding, Reading
  <2>4. AloneCurrent(p)'
    BY <1>1, <1>4, <2>1 DEF AloneCurrent, HasCurrent
  <2>5. AloneUsed(p)' /\ AloneServed(p)'
    BY <1>1, <1>3, <1>4, <2>1 DEF AloneUsed, AloneServed, Matching, Reading, Present, Usable
  <2> QED
    BY <2>2, <2>3, <2>4, <2>5
<1> QED
  BY <1>1, <1>2, <1>4, <1>5, <1>6, GoesOn DEF FilesType, Command

LEMMA GenerateCutInv ==
  ASSUME ContextInv, NEW p \in Procs, GenerateCut(p)
  PROVE  ContextInv'
<1>1. at[p].pc = "gencut" /\ p \in Active /\ UNCHANGED <<ctx, commands>> /\ conf' = Cut
  BY DEF GenerateCut, At, Active, Rest
<1>2. FilesType /\ Scanned(p) /\ Alone(p)
  BY DEF ContextInv
<1>3. Go(p, "genfill") /\ "genfill" \in Reading
  BY DEF GenerateCut, Reading
<1>4. /\ OnlyP(p) /\ at'[p].pc = "genfill" /\ "genfill" \notin Rest
      /\ at'[p].cmd = at[p].cmd /\ at'[p].name = at[p].name /\ at'[p].file = at[p].file
      /\ at'[p].todo = at[p].todo /\ at'[p].seen = at[p].seen /\ at'[p].used = at[p].used
      /\ at'[p].depth = at[p].depth /\ at'[p].goal = at[p].goal
      /\ at'[p].alone = at[p].alone /\ at'[p].had = at[p].had /\ at'[p].served = at[p].served
  BY <1>3, PlaceOnly
<1>5. Scanned(p)' /\ ~ Missing(p)'
  BY <1>1, <1>2, <1>4 DEF Scanned, Matching, Missing, Adding, Reading
<1>6. ASSUME at[p].alone
      PROVE  AloneFiles(p)' /\ AloneFound(p)' /\ AloneCurrent(p)' /\ AloneUsed(p)' /\ AloneServed(p)'
  <2>1. AloneFiles(p) /\ AloneFound(p) /\ AloneCurrent(p) /\ AloneUsed(p) /\ AloneServed(p)
    BY <1>1, <1>2, <1>6 DEF Alone
  <2>2. ~ at[p].had
    BY <1>1, <2>1, ContextAssumption DEF AloneFiles, AloneCurrent, HasCurrent
  <2>3. AloneFiles(p)'
    BY <1>1, <1>4, <2>1 DEF AloneFiles
  <2>4. AloneFound(p)'
    BY <1>1, <1>4, <2>1 DEF AloneFound, Present, Matching, Adding, Reading
  <2>5. Usable' = Usable
    BY <1>1, <2>1, ContextAssumption DEF Usable, AloneFiles
  <2>6. AloneUsed(p)' /\ AloneServed(p)'
    BY <1>1, <1>4, <2>1, <2>5 DEF AloneUsed, AloneServed, Matching, Reading, Present
  <2> QED
    BY <1>4, <2>2, <2>3, <2>4, <2>5, <2>6 DEF AloneCurrent
<1> QED
  BY <1>1, <1>2, <1>4, <1>5, <1>6, GoesOn DEF FilesType, Command

LEMMA GenerateFillInv ==
  ASSUME ContextInv, NEW p \in Procs, GenerateFill(p)
  PROVE  ContextInv'
<1>1. at[p].pc = "genfill" /\ p \in Active /\ UNCHANGED <<ctx, commands>>
  BY DEF GenerateFill, At, Active, Rest
<1>2. FilesType /\ Scanned(p) /\ Alone(p)
  BY DEF ContextInv
<1>3. conf' \in {Local, Torn} /\ (conf = Cut => conf' = Local)
  BY DEF GenerateFill, Filled
<1>4. Go(p, "read") /\ "read" \in Reading
  BY DEF GenerateFill, Reading
<1>5. /\ OnlyP(p) /\ at'[p].pc = "read" /\ "read" \notin Rest
      /\ at'[p].cmd = at[p].cmd /\ at'[p].name = at[p].name /\ at'[p].file = at[p].file
      /\ at'[p].todo = at[p].todo /\ at'[p].seen = at[p].seen /\ at'[p].used = at[p].used
      /\ at'[p].depth = at[p].depth /\ at'[p].goal = at[p].goal
      /\ at'[p].alone = at[p].alone /\ at'[p].had = at[p].had /\ at'[p].served = at[p].served
  BY <1>4, PlaceOnly
<1>6. Scanned(p)' /\ ~ Missing(p)'
  BY <1>1, <1>2, <1>5 DEF Scanned, Matching, Missing, Adding, Reading
<1>7. ASSUME at[p].alone
      PROVE  AloneFiles(p)' /\ AloneFound(p)' /\ AloneCurrent(p)' /\ AloneUsed(p)' /\ AloneServed(p)'
  <2>1. AloneFiles(p) /\ AloneFound(p) /\ AloneCurrent(p) /\ AloneUsed(p) /\ AloneServed(p) /\ conf = Cut
    BY <1>1, <1>2, <1>7 DEF Alone, AloneFiles
  <2>2. ~ at[p].had
    BY <1>1, <2>1, ContextAssumption DEF AloneCurrent, HasCurrent
  <2>3. AloneFiles(p)'
    BY <1>1, <1>3, <1>5, <2>1, ContextAssumption DEF AloneFiles
  <2>4. AloneFound(p)'
    BY <1>1, <1>5, <2>1 DEF AloneFound, Present, Matching, Adding, Reading
  <2>5. Usable' = Usable
    BY <1>1, <1>3, <2>1, ContextAssumption DEF Usable, AloneFiles
  <2>6. AloneUsed(p)' /\ AloneServed(p)'
    BY <1>1, <1>5, <2>1, <2>5 DEF AloneUsed, AloneServed, Matching, Reading, Present
  <2> QED
    BY <1>5, <2>2, <2>3, <2>4, <2>5, <2>6 DEF AloneCurrent
<1> QED
  BY <1>1, <1>2, <1>3, <1>5, <1>6, <1>7, GoesOn, ContextAssumption DEF FilesType, Command

LEMMA ReadInv ==
  ASSUME ContextInv, NEW p \in Procs, Read(p)
  PROVE  ContextInv'
<1>1. at[p].pc = "read" /\ p \in Active /\ UNCHANGED <<ctx, conf, commands>>
  BY DEF Read, At, Active, Rest
<1>2. FilesType /\ Scanned(p) /\ Alone(p) /\ at[p] \in Command
  BY DEF ContextInv, FilesType
<1>3. at[p].alone => AloneFiles(p) /\ AloneFound(p) /\ AloneCurrent(p) /\ AloneUsed(p) /\ AloneServed(p) /\ conf \in Contexts
  BY <1>1, <1>2 DEF Alone, AloneFiles
<1>4. CASE conf \in {Cut, Torn} /\ Go(p, "dead")
  BY <1>1, <1>2, <1>3, <1>4, Goes, ContextAssumption DEF FilesType, Rest
<1>5. CASE at[p].goal = "set" /\ Go(p, "cut")
  <2>1. /\ OnlyP(p) /\ at'[p].pc = "cut" /\ "cut" \notin Rest
        /\ at'[p].cmd = at[p].cmd /\ at'[p].name = at[p].name /\ at'[p].file = at[p].file
        /\ at'[p].todo = at[p].todo /\ at'[p].seen = at[p].seen /\ at'[p].used = at[p].used
        /\ at'[p].depth = at[p].depth /\ at'[p].goal = at[p].goal
        /\ at'[p].alone = at[p].alone /\ at'[p].had = at[p].had /\ at'[p].served = at[p].served
    BY <1>5, PlaceOnly
  <2>2. Scanned(p)' /\ ~ Missing(p)'
    BY <1>1, <1>2, <1>5, <2>1 DEF Scanned, Matching, Missing, Adding, Reading
  <2>3. ASSUME at[p].alone
        PROVE  AloneFiles(p)' /\ AloneFound(p)' /\ AloneCurrent(p)' /\ AloneUsed(p)' /\ AloneServed(p)'
    <3>4. AloneUsed(p)' /\ AloneServed(p)'
      BY <1>1, <1>3, <1>5, <2>1, <2>3 DEF AloneUsed, AloneServed, Matching, Reading, Present
    <3>1. AloneFiles(p)'
      BY <1>1, <1>3, <2>1, <2>3 DEF AloneFiles
    <3>2. AloneFound(p)'
      BY <1>1, <1>3, <1>5, <2>1, <2>3 DEF AloneFound, Present, Matching, Adding, Reading
    <3>3. AloneCurrent(p)'
      BY <1>1, <1>3, <2>1, <2>3 DEF AloneCurrent, HasCurrent
    <3> QED
      BY <3>1, <3>2, <3>3, <3>4
  <2> QED
    BY <1>1, <1>2, <2>1, <2>2, <2>3, GoesOn DEF FilesType, Command
<1>6. CASE /\ conf \in Contexts /\ at[p].goal = "match"
           /\ at' = [at EXCEPT ![p].pc = "open", ![p].seen = @ \cup {at[p].file},
                               ![p].used = IF conf = at[p].file THEN @ \cup {conf} ELSE @]
  <2> DEFINE marked == IF conf = at[p].file THEN at[p].used \cup {conf} ELSE at[p].used
             next == [at[p] EXCEPT !.pc = "open", !.seen = at[p].seen \cup {at[p].file}, !.used = marked]
  <2>1. /\ next \in Command
        /\ next.pc = "open" /\ next.seen = at[p].seen \cup {at[p].file} /\ next.used = marked
        /\ next.cmd = at[p].cmd /\ next.name = at[p].name /\ next.todo = at[p].todo /\ next.depth = at[p].depth
        /\ next.alone = at[p].alone /\ next.had = at[p].had /\ next.served = at[p].served
    BY <1>2 DEF Command
  <2>2. at' = [at EXCEPT ![p] = next]
    BY <1>2, <1>6 DEF FilesType
  <2>3. OnlyP(p) /\ at'[p] = next
    <3> HIDE DEF next
    <3> QED
      BY <1>2, <2>1, <2>2 DEF OnlyP, FilesType
  <2> HIDE DEF next
  <2>4. Scanned(p)' /\ ~ Missing(p)'
    <3>1. marked \subseteq at[p].seen \cup {at[p].file} /\ at[p].file \notin at[p].todo
      BY <1>1, <1>2, <1>6 DEF Scanned, Matching, Reading
    <3> HIDE DEF marked
    <3>2. Scanned(p)'
      BY <1>2, <2>1, <2>3, <3>1 DEF Scanned, Matching, Adding, Reading
    <3>3. ~ Missing(p)'
      BY <2>1, <2>3 DEF Missing
    <3> QED
      BY <3>2, <3>3
  <2>5. ASSUME at[p].alone
        PROVE  AloneFiles(p)' /\ AloneFound(p)' /\ AloneCurrent(p)' /\ AloneUsed(p)' /\ AloneServed(p)'
    <3>4. AloneUsed(p)'
      <4>1. /\ Usable' = Usable /\ Matching(p) /\ Usable \cap at[p].seen \subseteq at[p].used
            /\ ctx[at[p].file] = Default => at[p].file \in at[p].used
        BY <1>1, <1>3, <1>6, <2>5 DEF AloneUsed, Matching, Reading, Usable
      <4>2. at[p].file \in Usable => at[p].file \in marked
        BY <1>3, <1>6, <2>5, <4>1 DEF Usable
      <4>3. at[p].used \subseteq marked
        OBVIOUS
      <4> HIDE DEF marked
      <4> QED
        BY <2>1, <2>3, <4>1, <4>2, <4>3 DEF AloneUsed, Matching, Reading
    <3>5. AloneServed(p)'
      BY <1>1, <1>3, <1>6, <2>1, <2>3, <2>5 DEF AloneServed, Matching, Reading, Present, Usable
    <3>1. AloneFiles(p)'
      BY <1>1, <1>3, <2>1, <2>3, <2>5 DEF AloneFiles
    <3>2. AloneFound(p)'
      BY <1>1, <1>3, <1>6, <2>1, <2>3, <2>5 DEF AloneFound, Present, Matching, Adding, Reading
    <3>3. AloneCurrent(p)'
      BY <1>1, <1>3, <2>1, <2>3, <2>5 DEF AloneCurrent, HasCurrent
    <3> QED
      BY <3>1, <3>2, <3>3, <3>4, <3>5
  <2>6. /\ at'[p].pc \notin Rest /\ at'[p].alone = at[p].alone /\ at'[p].depth = at[p].depth /\ at[p].depth \in Nat
    BY <1>2, <2>1, <2>3 DEF Command, Rest
  <2> HIDE DEF marked
  <2> QED
    BY <1>1, <1>2, <2>3, <2>4, <2>5, <2>6, GoesOn DEF FilesType
<1> QED
  BY <1>4, <1>5, <1>6 DEF Read

LEMMA SetCutInv ==
  ASSUME ContextInv, NEW p \in Procs, SetCut(p)
  PROVE  ContextInv'
<1>1. at[p].pc = "cut" /\ p \in Active /\ UNCHANGED <<ctx, commands>> /\ conf' = Cut
  BY DEF SetCut, At, Active, Rest
<1>2. FilesType /\ Scanned(p) /\ Alone(p)
  BY DEF ContextInv
<1>3. Go(p, "fill")
  BY DEF SetCut
<1>4. /\ OnlyP(p) /\ at'[p].pc = "fill" /\ "fill" \notin Rest
      /\ at'[p].cmd = at[p].cmd /\ at'[p].name = at[p].name /\ at'[p].file = at[p].file
      /\ at'[p].todo = at[p].todo /\ at'[p].seen = at[p].seen /\ at'[p].used = at[p].used
      /\ at'[p].depth = at[p].depth /\ at'[p].goal = at[p].goal
      /\ at'[p].alone = at[p].alone /\ at'[p].had = at[p].had /\ at'[p].served = at[p].served
  BY <1>3, PlaceOnly
<1>5. Scanned(p)' /\ ~ Missing(p)'
  BY <1>1, <1>2, <1>4 DEF Scanned, Matching, Missing, Adding, Reading
<1>6. ASSUME at[p].alone
      PROVE  AloneFiles(p)' /\ AloneFound(p)' /\ AloneCurrent(p)' /\ AloneUsed(p)' /\ AloneServed(p)'
  <2>1. AloneFiles(p) /\ AloneFound(p) /\ AloneCurrent(p) /\ AloneUsed(p) /\ AloneServed(p)
    BY <1>1, <1>2, <1>6 DEF Alone
  <2>2. AloneFiles(p)'
    BY <1>1, <1>4, <2>1 DEF AloneFiles
  <2>3. AloneFound(p)'
    BY <1>1, <1>4, <2>1 DEF AloneFound, Present, Matching, Adding, Reading
  <2>4. AloneCurrent(p)'
    BY <1>4, <2>1 DEF AloneCurrent
  <2>5. AloneUsed(p)' /\ AloneServed(p)'
    BY <1>1, <1>4, <2>1 DEF AloneUsed, AloneServed, Matching, Reading, Present
  <2> QED
    BY <2>2, <2>3, <2>4, <2>5
<1> QED
  BY <1>1, <1>2, <1>4, <1>5, <1>6, GoesOn DEF FilesType, Command

LEMMA SetFillInv ==
  ASSUME ContextInv, NEW p \in Procs, SetFill(p)
  PROVE  ContextInv'
<1> DEFINE wanted == IF at[p].depth > 0 THEN Local ELSE at[p].name
<1>1. at[p].pc = "fill" /\ at[p].pc \notin Adding /\ p \in Active /\ UNCHANGED <<ctx, commands>>
  BY DEF SetFill, At, Active, Rest, Adding
<1>2. FilesType /\ Alone(p) /\ wanted \in Contexts
  BY ContextAssumption DEF ContextInv, FilesType, Command
<1>3. conf' \in {wanted, Torn} /\ (conf = Cut => conf' = wanted)
  BY DEF SetFill, Filled
<1>4. at[p].alone => conf = Cut
  BY <1>1, <1>2 DEF Alone, AloneFiles
<1>5. CASE at[p].depth > 0
  <2>1. BackWithDefault(p)
    BY <1>5 DEF SetFill
  <2>2. wanted = Local
    BY <1>5
  <2> HIDE DEF wanted
  <2> QED
    BY <1>1, <1>2, <1>3, <1>4, <1>5, <2>1, <2>2, BackInv
<1>6. CASE ~ (at[p].depth > 0)
  <2>1. Go(p, "idle") /\ "idle" \in Rest
    BY <1>6 DEF SetFill, Rest
  <2> HIDE DEF wanted
  <2> QED
    BY <1>1, <1>2, <1>3, <2>1, Goes DEF FilesType
<1> QED
  BY <1>5, <1>6

LEMMA KillInv ==
  ASSUME ContextInv, NEW p \in Procs, Kill(p)
  PROVE  ContextInv'
<1>1. p \in Active /\ Go(p, "killed") /\ "killed" \in Rest /\ UNCHANGED <<ctx, conf, commands>> /\ FilesType
  BY DEF Kill, Active, Rest, ContextInv
<1> QED
  BY <1>1, Goes DEF FilesType

-----------------------------------------------------------------------------
(* A command starts, and no other is alone from then on.                   *)

LEMMA StartInv ==
  ASSUME ContextInv, NEW p \in Procs, Start(p)
  PROVE  ContextInv'
<1> DEFINE lone == Readable /\ \A r \in Procs \ {p} : at[r].pc \in Rest
<1>1. PICK cmd \in Commands, name \in Contexts :
        at' = [q \in Procs |-> IF q # p THEN [at[q] EXCEPT !.alone = FALSE] ELSE NewCommand(cmd, name, lone)]
  BY DEF Start
<1>2. /\ p \notin Active /\ commands' = commands + 1 /\ commands < MaxCommands /\ UNCHANGED <<ctx, conf>>
      /\ FilesType /\ \A q \in Procs : at[q] \in Command
  BY DEF Start, Active, ContextInv, FilesType
<1> DEFINE new == NewCommand(cmd, name, lone)
<1>3. /\ new \in Command
      /\ new.pc \in {"add", "scan"} /\ new.depth = 0 /\ new.todo = {} /\ new.seen = {} /\ new.used = {}
      /\ new.alone = lone /\ new.had = HasCurrent /\ new.served = Served(cmd, name)
      /\ new.cmd = cmd /\ new.name = name
  <2>1. lone \in BOOLEAN /\ HasCurrent \in BOOLEAN /\ Served(cmd, name) \in BOOLEAN
    BY DEF HasCurrent, Served, Readable
  <2> HIDE DEF lone
  <2> QED
    BY <2>1, ContextAssumption DEF NewCommand, Command, Adding
<1>4. at'[p] = new
  <2> HIDE DEF new
  <2> QED
    BY <1>1 DEF new
<1>5. ASSUME NEW q \in Procs, q # p
      PROVE  /\ at'[q] \in Command /\ at'[q].alone = FALSE
             /\ at'[q].pc = at[q].pc /\ at'[q].file = at[q].file /\ at'[q].todo = at[q].todo
             /\ at'[q].seen = at[q].seen /\ at'[q].used = at[q].used /\ at'[q].depth = at[q].depth
             /\ at'[q].goal = at[q].goal
  <2>1. at'[q] = [at[q] EXCEPT !.alone = FALSE]
    BY <1>1, <1>5
  <2> QED
    BY <1>2, <2>1 DEF Command
<1> HIDE DEF new, lone
<1>6. at' \in [Procs -> Command]
  <2>1. at' = [q \in Procs |-> at'[q]]
    BY <1>1
  <2> QED
    BY <1>3, <1>4, <1>5, <2>1
<1>7. FilesType'
  BY <1>2, <1>6, ContextAssumption DEF FilesType
<1>8. Active' = Active \cup {p}
  BY <1>3, <1>4, <1>5 DEF Active, Rest
<1>9. /\ Cardinality(Active') = Cardinality(Active) + 1 /\ Cardinality(Active) \in Nat
      /\ Cardinality(Active) <= commands /\ commands \in Nat
  <2>1. Cardinality(Active') = Cardinality(Active) + 1
    BY <1>2, <1>8, ActiveFinite, FS_AddElement
  <2> QED
    BY <1>2, <2>1, ActiveFinite, ContextAssumption DEF ContextInv, FilesType
<1>10. Scanned(p)' /\ DepthBounded(p)' /\ Alone(p)'
  <2>1. Scanned(p)'
    BY <1>3, <1>4 DEF Scanned, Matching, Reading
  <2>2. DepthBounded(p)'
    BY <1>2, <1>3, <1>4, <1>8, <1>9 DEF DepthBounded
  <2>3. ASSUME lone
        PROVE  Active' = {p} /\ AloneFiles(p)' /\ AloneFound(p)' /\ AloneCurrent(p)' /\ AloneUsed(p)' /\ AloneServed(p)'
    <3>1. Active' = {p}
      BY <1>2, <1>8, <2>3 DEF lone, Active
    <3>2. Readable
      BY <2>3 DEF lone
    <3>3. AloneFiles(p)'
      BY <1>2, <1>3, <1>4, <3>2 DEF AloneFiles, Readable, FilesType
    <3>4. AloneFound(p)'
      BY <1>3, <1>4 DEF AloneFound, Matching, Reading
    <3>5. AloneCurrent(p)'
      BY <1>2, <1>3, <1>4 DEF AloneCurrent, HasCurrent
    <3>6. AloneUsed(p)'
      BY <1>3, <1>4 DEF AloneUsed, Matching, Reading
    <3>7. Served(cmd, name) => Present = {} \/ Usable # {} \/ cmd # "use"
      BY ContextAssumption DEF Served, Present, Sound
    <3>8. Served(cmd, name) /\ cmd = "usenamed" => name \in Present \/ (name = Local /\ Present = {})
      BY ContextAssumption DEF Served, Present, Sound
    <3>9. Usable' = Usable /\ Present' = Present
      BY <1>2 DEF Usable, Present
    <3>10. AloneServed(p)'
      BY <1>3, <1>4, <3>7, <3>8, <3>9 DEF AloneServed
    <3> QED
      BY <3>1, <3>3, <3>4, <3>5, <3>6, <3>10
  <2>4. Alone(p)'
    BY <1>3, <1>4, <2>3 DEF Alone
  <2> QED
    BY <2>1, <2>2, <2>4
<1>11. ASSUME NEW q \in Procs, q # p
       PROVE  Scanned(q)' /\ DepthBounded(q)' /\ Alone(q)'
  <2>1. Scanned(q) /\ DepthBounded(q) /\ at[q].depth \in Nat
    BY <1>2 DEF ContextInv, Command
  <2>2. Scanned(q)' /\ Alone(q)'
    BY <1>5, <1>11, <2>1 DEF Scanned, Matching, Alone
  <2>3. (q \in Active' <=> q \in Active) /\ (Missing(q)' <=> Missing(q))
    BY <1>2, <1>5, <1>8, <1>11 DEF Missing
  <2>4. DepthBounded(q)'
    <3>1. at'[q].depth = at[q].depth /\ commands' = commands + 1
      BY <1>2, <1>5, <1>11
    <3>2. q \in Active => at[q].depth + Cardinality(Active') <= commands' + 1
      BY <1>9, <2>1, <3>1 DEF DepthBounded
    <3>3. q \in Active /\ Missing(q) => at[q].depth + Cardinality(Active') <= commands'
      BY <1>9, <2>1, <3>1 DEF DepthBounded
    <3> QED
      BY <2>1, <2>3, <3>1, <3>2, <3>3 DEF DepthBounded
  <2> QED
    BY <2>2, <2>4
<1>12. Cardinality(Active') <= commands'
  BY <1>2, <1>9
<1> QED
  BY <1>7, <1>10, <1>11, <1>12 DEF ContextInv

LEMMA InitInv ==
  ASSUME ContextInit
  PROVE  ContextInv
<1>1. Ended("idle", FALSE, TRUE) \in Command
  BY ContextAssumption DEF Ended, Command, Commands, Rest
<1>2. FilesType
  <2>1. at \in [Procs -> Command] /\ ctx \in [Contexts -> {None, Cut, Torn} \cup Sound] /\ conf \in {None}
    BY <1>1 DEF ContextInit
  <2>2. commands \in 0 .. MaxCommands
    BY ContextAssumption DEF ContextInit
  <2> QED
    BY <2>1, <2>2 DEF FilesType
<1>3. Active = {} /\ Cardinality(Active) = 0 /\ commands = 0
  BY FS_EmptySet DEF ContextInit, Ended, Active, Rest
<1>4. ASSUME NEW p \in Procs
      PROVE  Scanned(p) /\ DepthBounded(p) /\ Alone(p)
  BY <1>3 DEF ContextInit, Ended, Scanned, DepthBounded, Alone, Adding, Reading
<1> QED
  BY <1>2, <1>3, <1>4 DEF ContextInv

LEMMA NextInv ==
  ASSUME ContextInv, [ContextNext]_contextVars
  PROVE  ContextInv'
<1>1. CASE UNCHANGED contextVars
  BY <1>1 DEF contextVars, ContextInv, FilesType, Scanned, Active, Missing, DepthBounded, Present, AloneFiles,
              AloneFound, AloneCurrent, AloneUsed, AloneServed, HasCurrent, Matching, Usable, Alone
<1>2. ASSUME NEW p \in Procs, CommandNext(p)
      PROVE  ContextInv'
  BY <1>2, AddInv, AddCutInv, AddFillInv, ScanInv, OpenInv, AddDefaultInv, SetInv, ListInv, UseInv, UseNamedInv, RemoveInv, RemoveFileInv,
     StatInv, GenerateCutInv, GenerateFillInv, ReadInv, SetCutInv, SetFillInv DEF CommandNext
<1> QED
  BY <1>1, <1>2, StartInv, KillInv DEF ContextNext

\* The invariant of the contexts: what each getContexts has found is there as
\* long as its command is alone, and none is nested deeper than the commands
\* that have ended allow.
THEOREM ContextInvariant == ContextSpec => []ContextInv
<1>1. ContextInit => ContextInv
  BY InitInv
<1>2. ContextInv /\ [ContextNext]_contextVars => ContextInv'
  BY NextInv
<1> QED
  BY <1>1, <1>2, PTL DEF ContextSpec

\* Whatever the commands overlap with and whenever they are killed, the files
\* hold what one of them writes, what is used was seen, and getContexts calls
\* itself no deeper than there were commands (cli/cmd/context.go).
THEOREM ContextTyped == ContextSpec => []ContextTypeOK
<1>1. ASSUME ContextInv
      PROVE  ContextTypeOK
  <2>1. FilesType
    BY <1>1 DEF ContextInv
  <2>2. ASSUME NEW p \in Procs
        PROVE  /\ at[p].pc \in Rest \cup {"add", "addcut", "addfill", "addlost", "scan", "open", "remove", "stat", "gencut",
                                          "genfill", "read", "cut", "fill"}
               /\ at[p].used \subseteq at[p].seen \cup {at[p].file} /\ at[p].seen \subseteq Contexts
               /\ at[p].todo \cap at[p].seen = {}
    BY <1>1, <2>1 DEF ContextInv, FilesType, Scanned, Matching, Command, Adding, Reading
  <2>3. ASSUME NEW p \in Procs
        PROVE  at[p].depth \in 0 .. MaxCommands
    <3>1. at[p].depth \in Nat /\ commands \in Nat /\ commands <= MaxCommands /\ MaxCommands \in Nat
      BY <2>1, ContextAssumption DEF FilesType, Command
    <3>2. CASE p \notin Active
      BY <1>1, <3>1, <3>2 DEF ContextInv, DepthBounded
    <3>3. CASE p \in Active
      <4>1. Cardinality(Active) \in Nat /\ Cardinality(Active) # 0
        BY <3>3, ActiveFinite, FS_EmptySet
      <4>2. at[p].depth + Cardinality(Active) <= commands + 1
        BY <1>1, <3>3 DEF ContextInv, DepthBounded
      <4> QED
        BY <3>1, <4>1, <4>2
    <3> QED
      BY <3>2, <3>3
  <2> QED
    BY <2>1, <2>2, <2>3 DEF ContextTypeOK, FilesType
<1> QED
  BY <1>1, ContextInvariant, PTL

\* A command that runs alone on files that can be read ends by log.Fatal only
\* when it needs a context and began with contexts none of which was used, or
\* none of the name it gives (cli/cmd/stream.go:262).  No other does, and so
\* neither does the first ever run, which has to make the default context and
\* the config (cli/cmd/context.go).
THEOREM ContextNeverDies == ContextSpec => []NeverDies
<1>1. ContextInv => NeverDies
  BY DEF ContextInv, Alone, NeverDies
<1> QED
  BY <1>1, ContextInvariant, PTL

-----------------------------------------------------------------------------
(* The current context.                                                    *)

\* A step of a command that runs alone and found a current context.
LEMMA CurrentStep ==
  ASSUME ContextInv, NEW p \in Procs, at[p].alone, at[p].had, at[p].pc \notin Rest, CommandNext(p),
         at'[p].pc # "fill"
  PROVE  HasCurrent'
<1>1. /\ FilesType /\ AloneFiles(p) /\ AloneFound(p) /\ AloneCurrent(p) /\ AloneUsed(p) /\ AloneServed(p)
      /\ at[p] \in Command /\ at[p].name \in Contexts
  BY DEF ContextInv, Alone, Active, FilesType, Command
<1>2. at[p].depth = 0 /\ (at[p].pc # "fill" => HasCurrent)
  BY <1>1 DEF AloneCurrent
<1>3. CASE UNCHANGED <<ctx, conf>> /\ at[p].pc # "fill"
  BY <1>2, <1>3 DEF HasCurrent
<1>4. CASE AddCut(p)
  <2>1. ctx[at[p].file] \notin Sound /\ ctx' = [ctx EXCEPT ![at[p].file] = Cut] /\ conf' = conf /\ HasCurrent
    BY <1>1, <1>2, <1>4, ContextAssumption DEF AddCut, At, AloneFiles, Sound
  <2>2. ctx'[conf] = ctx[conf]
    BY <1>1, <2>1 DEF HasCurrent, FilesType
  <2> QED
    BY <2>1, <2>2 DEF HasCurrent
<1>5. CASE AddFill(p)
  <2>1. at[p].pc = "addfill" /\ ctx[at[p].file] = Cut /\ conf' = conf /\ HasCurrent
    BY <1>1, <1>2, <1>5 DEF AddFill, At, AloneFiles, Command
  <2>2. ctx' = [ctx EXCEPT ![at[p].file] = Whole]
    BY <1>2, <1>5, <2>1 DEF AddFill, At, Filled
  <2> QED
    BY <1>1, <2>1, <2>2 DEF HasCurrent, FilesType, Sound
<1>6. CASE RemoveFile(p)
  <2>1. at[p].name # conf /\ ctx' = [ctx EXCEPT ![at[p].name] = None] /\ conf' = conf /\ HasCurrent
    BY <1>1, <1>2, <1>6 DEF RemoveFile, At, AloneCurrent
  <2> QED
    BY <1>1, <2>1 DEF HasCurrent, FilesType
<1>7. CASE GenerateCut(p) \/ GenerateFill(p)
  <2>1. conf \in {None, Cut} /\ HasCurrent
    BY <1>1, <1>2, <1>7 DEF GenerateCut, GenerateFill, At, AloneFiles
  <2> QED
    BY <2>1, ContextAssumption DEF HasCurrent
<1>8. CASE SetCut(p)
  <2>1. at'[p].pc = "fill"
    BY <1>8, PlaceOnly DEF SetCut
  <2> QED
    BY <2>1
<1>9. CASE SetFill(p)
  <2>1. conf = Cut /\ at[p].name \in Present /\ ctx' = ctx
    BY <1>1, <1>2, <1>9 DEF SetFill, At, AloneFiles, AloneFound
  <2>2. conf' = at[p].name
    BY <1>2, <1>9, <2>1 DEF SetFill, Filled
  <2> QED
    BY <2>1, <2>2 DEF HasCurrent, Present
<1>10. \/ UNCHANGED <<ctx, conf>> /\ at[p].pc # "fill"
       \/ AddCut(p) \/ AddFill(p) \/ RemoveFile(p) \/ GenerateCut(p) \/ GenerateFill(p) \/ SetCut(p) \/ SetFill(p)
  BY DEF CommandNext, At, Add, Scan, Open, AddDefault, Set, List, Use, UseNamed, Found, Remove, Stat, Read
<1> QED
  BY <1>3, <1>4, <1>5, <1>6, <1>7, <1>8, <1>9, <1>10

\* The steps CurrentKept is about, one command at a time.
KeepsCurrent(p) ==
  at[p].alone /\ at[p].had /\ at[p].pc \notin Rest /\ at'[p].pc \notin {"fill", "killed"} => HasCurrent'

LEMMA CurrentNext ==
  ASSUME ContextInv, ContextNext, NEW p \in Procs
  PROVE  KeepsCurrent(p)
<1> SUFFICES ASSUME at[p].alone, at[p].had, at[p].pc \notin Rest, at'[p].pc \notin {"fill", "killed"}
             PROVE  HasCurrent'
  BY DEF KeepsCurrent
<1>1. p \in Active /\ Active = {p} /\ AloneCurrent(p) /\ FilesType /\ at[p] \in Command
  BY DEF ContextInv, Alone, Active, FilesType
<1>2. PICK q \in Procs : Start(q) \/ CommandNext(q) \/ Kill(q)
  BY DEF ContextNext
<1>3. CASE Start(q)
  <2>1. q # p /\ UNCHANGED <<ctx, conf>>
    BY <1>3 DEF Start
  <2>2. at'[p] = [at[p] EXCEPT !.alone = FALSE]
    BY <1>3, <2>1 DEF Start
  <2>3. at'[p].pc = at[p].pc
    BY <1>1, <2>2 DEF Command
  <2> QED
    BY <1>1, <2>1, <2>3 DEF AloneCurrent, HasCurrent
<1>4. CASE CommandNext(q)
  <2>1. q \in Active
    BY <1>4 DEF CommandNext, Active, Rest, At, Add, AddCut, AddFill, Scan, Open, AddDefault, Set, List, Use, UseNamed, Found, Remove,
                RemoveFile, Stat, GenerateCut, GenerateFill, Read, SetCut, SetFill
  <2>2. q = p
    BY <1>1, <2>1
  <2> QED
    BY <1>4, <2>2, CurrentStep
<1>5. CASE Kill(q)
  <2>1. q \in Active
    BY <1>5 DEF Kill, Active
  <2>2. q = p
    BY <1>1, <2>1
  <2>3. at'[p] = Ended("killed", at[p].alone, at[p].served)
    BY <1>1, <1>5, <2>2, GoEffect DEF Kill, Rest
  <2> QED
    BY <2>3 DEF Ended
<1> QED
  BY <1>2, <1>3, <1>4, <1>5

\* A command that runs alone and found a current context has one after each of
\* its steps but the one that cuts config.json: what the checks of remove and
\* set read still holds when they act (cli/cmd/context.go).
THEOREM ContextCurrentKept == ContextSpec => CurrentKept
<1> DEFINE Kept ==
      \A p \in Procs :
        at[p].alone /\ at[p].had /\ at[p].pc \notin Rest /\ at'[p].pc \notin {"fill", "killed"} => HasCurrent'
<1>1. ContextInv /\ [ContextNext]_contextVars => [Kept]_contextVars
  BY CurrentNext DEF KeepsCurrent
<1> QED
  BY <1>1, ContextInvariant, PTL DEF ContextSpec, CurrentKept
=============================================================================
