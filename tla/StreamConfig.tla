---------------------------- MODULE StreamConfig ----------------------------
(***************************************************************************)
(* What a stream's configuration says about the data its jobs pass on: the *)
(* check on apply (schema/stream.go), the parameters a request has to      *)
(* bring (op/stream.go), the jobs the factory builds (op/factory.go) and   *)
(* what each kind of job reads and writes.                                 *)
(*                                                                         *)
(* A template is the sets of its holes and of its XML tags; a list of      *)
(* parameters or outputs is a set.  Job names are left out: they have to   *)
(* differ and are used for nothing else here.                              *)
(***************************************************************************)
EXTENDS Naturals, Sequences

CONSTANTS
  Key,    \* the names of parameters and outputs
  Blank   \* the empty name, of a field that is not given

\* Nothing looks inside the jobs to check their type: any name will do.
Kind == {"prompt", "api_tool", "search", "other"}

JobConfig ==
  [kind: Kind, params: SUBSET Key, outputs: SUBSET Key, parses: SUBSET Key,
   query: Key, out: Key, holes: SUBSET Key, tags: SUBSET Key]

-----------------------------------------------------------------------------
(* ValidateStream.                                                         *)

\* What paramsFlow gains while a job is checked.
Adds(job) ==
  job.outputs \cup job.params
    \cup {k \in job.parses : job.kind = "api_tool"}
    \cup {k \in {job.out} : job.kind = "search"}

\* The flow when the query of job i is looked for, which is after the job's
\* own outputs and parameters were added.
Flow(jobs, i) ==
  UNION {Adds(jobs[j]) : j \in 1..(i - 1)} \cup jobs[i].outputs \cup jobs[i].params

AcceptedJob(jobs, i) ==
  LET job == jobs[i]
  IN  /\ job.kind = "prompt" => job.outputs # {} /\ job.params \subseteq job.holes
      /\ job.outputs \subseteq job.tags
      /\ job.kind # "api_tool" => job.parses = {}
      /\ job.kind = "search" /\ i > 1 => job.query \in Flow(jobs, i)

Accepted(jobs) == \A i \in DOMAIN jobs : AcceptedJob(jobs, i)

-----------------------------------------------------------------------------
(* GetStreamList: the parameters a request has to bring, whatever the      *)
(* order of the jobs and whatever the kind of the job that names a key.    *)

Named(job)     == (job.params \cup {job.query} \cup job.outputs \cup job.parses) \ {Blank}
Generated(job) == (job.outputs \cup {job.out} \cup job.parses) \ {Blank}

Required(jobs) ==
  UNION {Named(jobs[i]) : i \in DOMAIN jobs} \ UNION {Generated(jobs[i]) : i \in DOMAIN jobs}

-----------------------------------------------------------------------------
(* LoadStream and the handlers.                                            *)

\* The jobs the road has: those of another type are passed over.
Runs(jobs) == {i \in DOMAIN jobs : jobs[i].kind # "other"}

Inputs(job) == IF job.kind = "search" THEN {job.query} ELSE job.params

\* What a handler is given: the whole map where no parameters are named.
Reads(job) == IF job.kind # "search" /\ job.params = {} THEN Key ELSE Inputs(job)

Writes(job) ==
  CASE job.kind = "prompt"   -> job.outputs
    [] job.kind = "api_tool" -> job.parses
    [] job.kind = "search"   -> {job.out}
    [] OTHER                 -> {}

-----------------------------------------------------------------------------
\* The data-flow rule of the repository's README (line 29), which
\* ValidateStream does not enforce: what a job reads comes with the request
\* or from a job before it.
FlowRule(jobs) ==
  \A i \in Runs(jobs) : \A k \in Inputs(jobs[i]) :
    k \in Required(jobs) \/ \E j \in Runs(jobs) : j < i /\ k \in Writes(jobs[j])
=============================================================================
