----------------------------- MODULE ContextFiles -----------------------------
(***************************************************************************)
(* The command line client's contexts (cli/cmd/context.go): one file for   *)
(* each context and a config file that names the current one, all shared   *)
(* by the commands a user runs in different terminals, with no lock.       *)
(*                                                                         *)
(* os.WriteFile cuts the file and then fills it, so another command can    *)
(* read it in between, a command that dies there leaves it empty, and two  *)
(* that overlap can leave a mixture.  What one writes to a file that was   *)
(* removed meanwhile is gone with it.                                      *)
(*                                                                         *)
(* log.Fatal ends a command: as "dead" on a file that it cannot read or a  *)
(* default context that it cannot add, as "refused" when it has read the   *)
(* contexts and the one it needs is not there.                             *)
(***************************************************************************)
EXTENDS FiniteSets, Naturals

CONSTANTS
  Procs,             \* terminals
  Contexts,          \* names of contexts
  Local,             \* "local", the default context
  None, Cut, Torn,   \* no file, an empty one, a mixture of two
  Whole,             \* a context as a user added it, who chooses what it says
  Default,           \* the default context as getContexts adds it, which says
                     \* of itself that it is used
  MaxCommands        \* bound: commands started

ASSUME ContextAssumption ==
  /\ Local \in Contexts
  /\ None \notin {Cut, Torn, Whole, Default} /\ Cut \notin {Torn, Whole, Default}
  /\ Torn \notin {Whole, Default} /\ Whole # Default
  /\ {None, Cut, Torn, Whole, Default} \cap Contexts = {}
  /\ MaxCommands \in Nat
  /\ IsFiniteSet(Procs)

VARIABLES
  ctx,       \* the context files
  conf,      \* config.json: the name in it
  at,        \* the commands
  commands   \* how many were started

contextVars == <<ctx, conf, at, commands>>

\* "list", "set", "remove" and "add" (with --used: "addused") are the context
\* commands; "use" is any that asks the server, through the current context,
\* "usenamed" the same with --context.
Commands == {"list", "use", "usenamed", "set", "remove", "add", "addused"}
Rest     == {"idle", "dead", "refused", "killed"}

Sound      == {Whole, Default}
Readable   == conf \notin {Cut, Torn} /\ \A n \in Contexts : ctx[n] \in {None} \cup Sound
HasCurrent == conf \in Contexts /\ ctx[conf] \in Sound

\* The contexts getContexts takes for used: the one the config names, which is
\* the default one when there is no config, and any that says so of itself.
Usable ==
  {n \in Contexts :
     \/ ctx[n] = Default
     \/ ctx[n] = Whole /\ n = IF conf \in Contexts THEN conf ELSE Local}

\* What the command needs is there, or is the default context, on a fresh install.
Served(cmd, name) ==
  LET fresh == \A n \in Contexts : ctx[n] = None IN
  /\ cmd = "use" => fresh \/ Usable # {}
  /\ cmd = "usenamed" => ctx[name] \in Sound \/ (fresh /\ name = Local)

\* A command: where it is, its name and argument; the context file in hand,
\* those getContexts has still to read, those it found and those it found
\* used; how many getContexts are at work on the default context; why the
\* config is read.  History: it has run alone on readable files so far, and
\* when it began there was a current context, and it was served.
NewCommand(cmd, name, alone) ==
  [pc |-> IF cmd \in {"add", "addused"} THEN "add" ELSE "scan", cmd |-> cmd, name |-> name, file |-> name,
   todo |-> {}, seen |-> {}, used |-> {}, depth |-> 0, goal |-> "match",
   alone |-> alone, had |-> HasCurrent, served |-> Served(cmd, name)]

\* A command that has ended as pc says.
Ended(pc, alone, served) ==
  [pc |-> pc, cmd |-> "list", name |-> Local, file |-> Local,
   todo |-> {}, seen |-> {}, used |-> {}, depth |-> 0, goal |-> "match",
   alone |-> alone /\ pc \in {"dead", "refused"}, had |-> FALSE, served |-> pc = "refused" => served]

ContextInit ==
  /\ ctx = [n \in Contexts |-> None]
  /\ conf = None
  /\ at = [p \in Procs |-> Ended("idle", FALSE, TRUE)]
  /\ commands = 0

At(p, pc) == at[p].pc = pc
Gone(p, pc) == IF pc \in Rest THEN Ended(pc, at[p].alone, at[p].served) ELSE [at[p] EXCEPT !.pc = pc]
Go(p, pc)   == at' = [at EXCEPT ![p] = Gone(p, pc)]

\* The second half of os.WriteFile, over what another command may have put
\* there meanwhile: two users' contexts of one name need not be alike.
Filled(old, new) == IF old = Cut \/ (old = new /\ new # Whole) THEN {new} ELSE {new, Torn}

-----------------------------------------------------------------------------
Start(p) ==
  /\ at[p].pc \in Rest
  /\ commands < MaxCommands
  /\ commands' = commands + 1
  /\ \E cmd \in Commands, name \in Contexts :
       /\ cmd \in {"list", "use"} => name = Local
       /\ at' = [q \in Procs |->
                   IF q # p THEN [at[q] EXCEPT !.alone = FALSE]
                   ELSE NewCommand(cmd, name, Readable /\ \A r \in Procs \ {p} : at[r].pc \in Rest)]
  /\ UNCHANGED <<ctx, conf>>

\* addContext.  Of the default context: getContexts goes on to make it the
\* current one, and dies if it is there.
Add(p) ==
  /\ At(p, "add")
  /\ Go(p, IF ctx[at[p].file] = None THEN "addcut" ELSE IF at[p].depth > 0 THEN "dead" ELSE "idle")
  /\ UNCHANGED <<ctx, conf, commands>>

AddCut(p) ==
  /\ At(p, "addcut")
  /\ ctx' = [ctx EXCEPT ![at[p].file] = Cut]
  /\ Go(p, "addfill")
  /\ UNCHANGED <<conf, commands>>

\* "addlost": the file was removed after the cut.
AddFill(p) ==
  /\ At(p, "addfill") \/ At(p, "addlost")
  /\ LET new == IF at[p].depth > 0 THEN Default ELSE Whole IN
     IF At(p, "addfill")
       THEN \E text \in Filled(ctx[at[p].file], new) : ctx' = [ctx EXCEPT ![at[p].file] = text]
       ELSE UNCHANGED ctx
  /\ Go(p, IF at[p].depth > 0 \/ at[p].cmd = "addused" THEN "scan" ELSE "idle")
  /\ UNCHANGED <<conf, commands>>

-----------------------------------------------------------------------------
(* getContexts.                                                            *)

\* filepath.Walk reads the directory before it visits the files.
Scan(p) ==
  /\ At(p, "scan")
  /\ at' = [at EXCEPT ![p].pc = "open", ![p].todo = {n \in Contexts : ctx[n] # None}, ![p].seen = {}, ![p].used = {}]
  /\ UNCHANGED <<ctx, conf, commands>>

Open(p, n) ==
  /\ At(p, "open")
  /\ n \in at[p].todo
  /\ IF ctx[n] \notin Sound
       THEN Go(p, "dead")
       ELSE at' = [at EXCEPT ![p].pc = "stat", ![p].file = n, ![p].todo = @ \ {n}, ![p].goal = "match",
                             ![p].used = IF ctx[n] = Default THEN @ \cup {n} ELSE @]
  /\ UNCHANGED <<ctx, conf, commands>>

\* Mutant: the default context is added whenever none is used.
AddDefaultUnlessUsed(p) ==
  /\ At(p, "open") /\ at[p].todo = {} /\ at[p].used = {}
  /\ at' = [at EXCEPT ![p].pc = "add", ![p].file = Local, ![p].depth = @ + 1]
  /\ UNCHANGED <<ctx, conf, commands>>

\* No context: the default one is added, and set in a getContexts of its own.
AddDefault(p) ==
  /\ At(p, "open") /\ at[p].todo = {} /\ at[p].seen = {}
  /\ at' = [at EXCEPT ![p].pc = "add", ![p].file = Local, ![p].depth = @ + 1]
  /\ UNCHANGED <<ctx, conf, commands>>

\* The outer getContexts goes on with the default context, whether it was set
\* or not.
BackWithDefault(p) ==
  at' = [at EXCEPT ![p].pc = "open", ![p].todo = {}, ![p].seen = {Local}, ![p].used = {Local}, ![p].depth = @ - 1]

\* setCurrentContextByName, of the default context or as the command asks.
Set(p) ==
  LET inner == at[p].depth > 0 IN
  /\ At(p, "open") /\ at[p].todo = {} /\ at[p].seen # {}
  /\ inner \/ at[p].cmd \in {"set", "addused"}
  /\ \/ /\ (IF inner THEN Local ELSE at[p].name) \in at[p].seen
        /\ at' = [at EXCEPT ![p].pc = "stat", ![p].goal = "set"]
     \/ /\ (IF inner THEN Local ELSE at[p].name) \notin at[p].seen
        /\ IF inner THEN BackWithDefault(p) ELSE Go(p, "idle")
  /\ UNCHANGED <<ctx, conf, commands>>

\* The end of getContexts for a command that asks no more of it.
Found(p, cmd) == At(p, "open") /\ at[p].todo = {} /\ at[p].seen # {} /\ at[p].depth = 0 /\ at[p].cmd = cmd

List(p) ==
  /\ Found(p, "list")
  /\ Go(p, "idle")
  /\ UNCHANGED <<ctx, conf, commands>>

\* InitContextAndClient, through getCurrentContext.
Use(p) ==
  /\ Found(p, "use")
  /\ Go(p, IF at[p].used = {} THEN "refused" ELSE "idle")
  /\ UNCHANGED <<ctx, conf, commands>>

\* InitContextAndClient, with the name of a context.
UseNamed(p) ==
  /\ Found(p, "usenamed")
  /\ Go(p, IF at[p].name \notin at[p].seen THEN "refused" ELSE "idle")
  /\ UNCHANGED <<ctx, conf, commands>>

\* Mutant: the used context can be removed.
RemoveAny(p) ==
  /\ Found(p, "remove")
  /\ ctx' = IF at[p].name \in at[p].seen /\ Cardinality(at[p].seen) # 1
              THEN [ctx EXCEPT ![at[p].name] = None]
              ELSE ctx
  /\ Go(p, "idle")
  /\ UNCHANGED <<conf, commands>>

\* ContextRemoveCommand's checks, on what getContexts found.
Remove(p) ==
  /\ Found(p, "remove")
  /\ LET may == at[p].name \in at[p].seen \ at[p].used /\ Cardinality(at[p].seen) # 1 IN
     Go(p, IF may THEN "remove" ELSE "idle")
  /\ UNCHANGED <<ctx, conf, commands>>

\* removeContext, perhaps of a file that another command has just cut.
RemoveFile(p) ==
  /\ At(p, "remove")
  /\ ctx' = [ctx EXCEPT ![at[p].name] = None]
  /\ at' = [q \in Procs |->
              IF q = p THEN Gone(p, "idle")
              ELSE IF At(q, "addfill") /\ at[q].file = at[p].name THEN Gone(q, "addlost")
              ELSE at[q]]
  /\ UNCHANGED <<conf, commands>>

-----------------------------------------------------------------------------
(* config.json: read for each context (getDefaultContextName), and read    *)
(* and written to set the current one (setDefaultContextName).             *)

Stat(p) ==
  /\ At(p, "stat")
  /\ Go(p, IF conf = None THEN "gencut" ELSE "read")
  /\ UNCHANGED <<ctx, conf, commands>>

GenerateCut(p) ==
  /\ At(p, "gencut")
  /\ conf' = Cut
  /\ Go(p, "genfill")
  /\ UNCHANGED <<ctx, commands>>

GenerateFill(p) ==
  /\ At(p, "genfill")
  /\ conf' \in Filled(conf, Local)
  /\ Go(p, "read")
  /\ UNCHANGED <<ctx, commands>>

\* Mutant: the name in the config is taken for used, there or not.
ReadMarks(p) ==
  /\ At(p, "read")
  /\ \/ conf \in {Cut, Torn} /\ Go(p, "dead")
     \/ /\ conf \in Contexts /\ at[p].goal = "set"
        /\ Go(p, "cut")
     \/ /\ conf \in Contexts /\ at[p].goal = "match"
        /\ at' = [at EXCEPT ![p].pc = "open", ![p].seen = @ \cup {at[p].file}, ![p].used = {conf}]
  /\ UNCHANGED <<ctx, conf, commands>>

Read(p) ==
  /\ At(p, "read")
  /\ \/ conf \in {Cut, Torn} /\ Go(p, "dead")
     \/ /\ conf \in Contexts /\ at[p].goal = "set"
        /\ Go(p, "cut")
     \/ /\ conf \in Contexts /\ at[p].goal = "match"
        /\ at' = [at EXCEPT ![p].pc = "open", ![p].seen = @ \cup {at[p].file},
                            ![p].used = IF conf = at[p].file THEN @ \cup {conf} ELSE @]
  /\ UNCHANGED <<ctx, conf, commands>>

SetCut(p) ==
  /\ At(p, "cut")
  /\ conf' = Cut
  /\ Go(p, "fill")
  /\ UNCHANGED <<ctx, commands>>

SetFill(p) ==
  LET inner == at[p].depth > 0 IN
  /\ At(p, "fill")
  /\ conf' \in Filled(conf, IF inner THEN Local ELSE at[p].name)
  /\ IF inner THEN BackWithDefault(p) ELSE Go(p, "idle")
  /\ UNCHANGED <<ctx, commands>>

\* The user interrupts a command, or one of its writes fails.
Kill(p) ==
  /\ at[p].pc \notin Rest
  /\ Go(p, "killed")
  /\ UNCHANGED <<ctx, conf, commands>>

CommandNext(p) ==
  \/ Add(p) \/ AddCut(p) \/ AddFill(p)
  \/ Scan(p) \/ (\E n \in Contexts : Open(p, n)) \/ AddDefault(p)
  \/ Set(p) \/ List(p) \/ Use(p) \/ UseNamed(p) \/ Remove(p) \/ RemoveFile(p)
  \/ Stat(p) \/ GenerateCut(p) \/ GenerateFill(p) \/ Read(p) \/ SetCut(p) \/ SetFill(p)

ContextNext == \E p \in Procs : Start(p) \/ CommandNext(p) \/ Kill(p)

ContextSpec == ContextInit /\ [][ContextNext]_contextVars

-----------------------------------------------------------------------------
\* The files hold nothing else than what the commands write, and a command
\* nests getContexts no deeper than once per other command plus one.
ContextTypeOK ==
  /\ ctx \in [Contexts -> {None, Cut, Torn} \cup Sound]
  /\ conf \in {None, Cut, Torn} \cup Contexts
  /\ \A p \in Procs :
       /\ at[p].pc \in Rest \cup {"add", "addcut", "addfill", "addlost", "scan", "open", "remove", "stat",
                                  "gencut", "genfill", "read", "cut", "fill"}
       /\ at[p].used \subseteq at[p].seen \cup {at[p].file} /\ at[p].seen \subseteq Contexts
       /\ at[p].todo \cap at[p].seen = {}
       /\ at[p].depth \in 0 .. MaxCommands

\* A command that runs alone on readable files ends by log.Fatal only when it
\* needs a context and had none when it began: there were contexts, and none
\* used, or not the one it names (context add first on a fresh install, and then
\* stream list, ends so: stream.go:262-266, context.go:271-280).  No other ends
\* on what it finds: not the first ever run, which makes the default context in
\* a getContexts of its own, nor one after commands that overlapped elsewhere.
NeverDies ==
  \A p \in Procs : at[p].alone => at[p].pc # "dead" /\ (at[p].pc = "refused" => ~at[p].served)

\* A command that runs alone on readable files and finds a current context
\* keeps one at its every step, except between the two halves of a write of
\* config.json: remove and set check before they act.
CurrentKept ==
  [][\A p \in Procs :
        at[p].alone /\ at[p].had /\ at[p].pc \notin Rest /\ at'[p].pc \notin {"fill", "killed"} => HasCurrent']_contextVars

=============================================================================
