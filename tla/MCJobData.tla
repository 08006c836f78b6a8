------------------------------ MODULE MCJobData ------------------------------
EXTENDS JobData

CONSTANTS q, r   \* two keys

MCKey == {q, r, Blank}

Plain(kind) ==
  [kind |-> kind, params |-> {}, outputs |-> {}, parses |-> {},
   query |-> Blank, out |-> Blank, holes |-> MCKey, tags |-> MCKey]

Prompt(params, outputs) ==
  [Plain("prompt") EXCEPT !.params = params, !.outputs = outputs]
Tool(params, parses) ==
  [Plain("api_tool") EXCEPT !.params = params, !.parses = parses]
Search(query, out) ==
  [Plain("search") EXCEPT !.query = query, !.out = out]

\* A tool with an output of which only the list knows; a job of no known type;
\* jobs the check refuses.
Odd ==
  {[Tool({}, {q}) EXCEPT !.outputs = {r}], Plain("other"),
   [Prompt({q}, {r}) EXCEPT !.holes = {}], [Prompt({}, {q}) EXCEPT !.tags = {}]}

Usual ==
  {Prompt({}, {q, r}), Prompt({q}, {q}), Tool({q}, {r}), Tool({r}, {}),
   Search(q, r), Search(Blank, q)}

MCStreams ==
  {<<>>} \cup {<<a>> : a \in Usual \cup Odd} \cup {<<a, b>> : a \in Usual, b \in Usual \cup Odd}
    \cup {<<Prompt({}, {q}), Plain("other"), Tool({q}, {r})>>}
=============================================================================
