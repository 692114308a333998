----------------------------- MODULE ReactAgent -----------------------------
(***************************************************************************)
(* The turn loop of one agent, src/agents/react_agent.py: a graph          *)
(* whose nodes run as Temporal activities and whose router runs on the     *)
(* workflow thread.  POApproval takes the whole loop as one step that      *)
(* completes, fails or wedges.                                             *)
(*                                                                         *)
(* The model is not under the program's control: it may answer any turn    *)
(* with a finding, a malformed finding, calls of any tool name it makes up *)
(* or saw, several of these at once, or prose.  Which tools are bound on a *)
(* turn therefore bounds nothing here: a model may name one that is not.   *)
(***************************************************************************)
EXTENDS Integers

CONSTANTS
  ToolSets,         \* what AgentSpec.tools may be: a set of sets of names
  UnknownTools,     \* names of no tool that a model may come up with
  MAX_TURNS,
  ModelMaxAttempts, \* AgentSpec.max_attempts
  ToolMaxAttempts   \* the retry limit of the run_tools node

ASSUME LoopAssumption ==
  /\ MAX_TURNS \in Nat \ {0}
  /\ ModelMaxAttempts \in Nat \ {0}
  /\ ToolMaxAttempts \in Nat \ {0}
  /\ \A t \in ToolSets : t \cap UnknownTools = {}

Names == UNION ToolSets \cup UnknownTools

\* What the model may answer; prose is no finding and no calls.
ModelReply == [finding : {"none", "valid", "malformed"}, calls : SUBSET Names]

VARIABLES
  tools,       \* AgentSpec.tools, which never changes
  node,        \* the node in flight, or how the graph ended
  attempt,     \* the attempt of that node's activity
  turns,       \* state["turns"]
  finding,     \* state["finding"] is set
  unanswered,  \* calls of the last model message without a tool message
  invocations, \* Bedrock calls made so far, by lost attempts too
  exceeded     \* the agent was failed for taking too many turns

vars == <<tools, node, attempt, turns, finding, unanswered, invocations, exceeded>>

Ended == {"end", "failed", "wedged"}

TypeOK ==
  /\ tools \in ToolSets
  /\ node \in {"call_model", "run_tools"} \cup Ended
  /\ attempt \in Nat /\ turns \in Nat /\ invocations \in Nat
  /\ finding \in BOOLEAN /\ exceeded \in BOOLEAN
  /\ unanswered \subseteq Names

Init ==
  /\ tools \in ToolSets
  /\ node = "call_model" /\ attempt = 1
  /\ turns = 0 /\ finding = FALSE /\ unanswered = {}
  /\ invocations = 0 /\ exceeded = FALSE

-----------------------------------------------------------------------------
(* Routing: decide_next, and the branches assemble_graph gives the router *)

DecideNext(isFound, calls) ==
  IF isFound THEN "end"
  ELSE IF calls # {} THEN "run_tools"
  ELSE "call_model"

\* Mistake: no agent's graph gets the run_tools branch.
BranchesWithoutTools == {"call_model", "end"}

\* The router of an agent without tools has no "run_tools" to go to.
Branches == {"call_model", "end"} \cup {n \in {"run_tools"} : tools # {}}

\* A route outside the graph is a KeyError on the workflow thread.
Follow(route) == node' = IF route \in Branches THEN route ELSE "wedged"

-----------------------------------------------------------------------------
(* call_model *)

\* The attempt is given up; another one starts with the same graph state.
RetryOr(max) ==
  /\ IF attempt < max
     THEN node' = node /\ attempt' = attempt + 1
     ELSE node' = "failed" /\ attempt' = attempt
  /\ UNCHANGED <<tools, turns, finding, unanswered, exceeded>>

\* The cap is looked at before Bedrock is called, and is not retried.
TooManyTurns ==
  /\ node = "call_model" /\ turns + 1 > MAX_TURNS
  /\ node' = "failed" /\ exceeded' = TRUE
  /\ UNCHANGED <<tools, attempt, turns, finding, unanswered, invocations>>

\* The most calls an agent should ever make; the count stops one above it.
InvocationLimit == MAX_TURNS * ModelMaxAttempts
CountInvocation ==
  invocations' = IF invocations <= InvocationLimit THEN invocations + 1 ELSE invocations

\* Mistake: the cap is off by one.
InvokeOnceMore ==
  /\ node = "call_model" /\ turns <= MAX_TURNS
  /\ CountInvocation

\* Bedrock is called within the cap, on a turn that is counted when it succeeds.
Invoke ==
  /\ node = "call_model" /\ turns + 1 <= MAX_TURNS
  /\ CountInvocation

\* Mistake: an answer in prose does not count as a turn.
ModelAnswersProseForFree(r) ==
  /\ Invoke
  /\ r.finding # "malformed"
  /\ turns' = IF r.finding = "none" /\ r.calls = {} THEN turns ELSE turns + 1
  /\ finding' = (r.finding = "valid")
  /\ unanswered' = r.calls
  /\ Follow(DecideNext(finding', unanswered'))
  /\ attempt' = 1
  /\ UNCHANGED <<tools, exceeded>>

\* Calls beside a valid finding are recorded but never run.
ModelAnswers(r) ==
  /\ Invoke
  /\ r.finding # "malformed"
  /\ turns' = turns + 1
  /\ finding' = (r.finding = "valid")
  /\ unanswered' = r.calls
  /\ Follow(DecideNext(finding', unanswered'))
  /\ attempt' = 1
  /\ UNCHANGED <<tools, exceeded>>

\* A malformed finding fails schema validation inside the activity, and
\* throttling is transient: both are retried without using up a turn.
ModelAttemptFails ==
  /\ Invoke
  /\ RetryOr(ModelMaxAttempts)

\* Permanent Bedrock errors are not retried.
ModelDenied ==
  /\ Invoke
  /\ node' = "failed"
  /\ UNCHANGED <<tools, attempt, turns, finding, unanswered, exceeded>>

\* The worker died, before Bedrock was called or after.
ModelAttemptLost ==
  /\ node = "call_model"
  /\ \/ invocations' = invocations
     \/ turns + 1 <= MAX_TURNS /\ CountInvocation
  /\ RetryOr(ModelMaxAttempts)

-----------------------------------------------------------------------------
(* run_tools *)

\* Mistake: names that are no tools are passed over without an answer.
KnownCallsOnly == unanswered \cap tools

\* Unknown names and tools that raise are answered with an error message.
AnsweredCalls == unanswered

RunTools ==
  /\ node = "run_tools"
  /\ unanswered' = unanswered \ AnsweredCalls
  /\ node' = "call_model" /\ attempt' = 1
  /\ UNCHANGED <<tools, turns, finding, invocations, exceeded>>

ToolsLost ==
  /\ node = "run_tools"
  /\ RetryOr(ToolMaxAttempts)
  /\ UNCHANGED invocations

-----------------------------------------------------------------------------
Next ==
  \/ TooManyTurns
  \/ \E r \in ModelReply : ModelAnswers(r)
  \/ ModelAttemptFails
  \/ ModelDenied
  \/ ModelAttemptLost
  \/ RunTools
  \/ ToolsLost

Spec == Init /\ [][Next]_vars

\* A worker polls and every activity has a start-to-close timeout.
FairSpec == Spec /\ WF_vars(Next)

-----------------------------------------------------------------------------
(* Properties *)

\* No model turn starts with a tool call left unanswered in its messages, which
\* the model API would reject: names that are no tools get an answer as well
\* (react_agent.py:233-253, 258-268).
EveryCallIsAnswered == node = "call_model" => unanswered = {}

\* The cost of an agent is bounded: an agent that never concludes makes at most
\* MAX_TURNS turns of ModelMaxAttempts calls each, retries included
\* (react_agent.py:57-59, 127-133, 288-293).
CostIsBounded ==
  /\ invocations <= InvocationLimit
  /\ exceeded => turns = MAX_TURNS

\* The graph ends with a finding if and only if the model submitted one, and an
\* answered graph is never sent round again (react_agent.py:258-268).
EndsWithFinding == (node = "end") = finding

\* Only an agent without tools can be sent to a node that its graph lacks
\* (react_agent.py:268, 308-329).
WedgesOnlyWithoutTools == node = "wedged" => tools = {} /\ unanswered # {}

\* What the loop keeps: when a model turn starts every call is answered, and
\* the calls made are those of the turns taken and of the lost attempts of this
\* one (react_agent.py:124-255).
LoopInv ==
  /\ turns <= MAX_TURNS /\ attempt >= 1
  /\ node = "call_model" =>
       /\ unanswered = {} /\ attempt <= ModelMaxAttempts
       /\ invocations <= turns * ModelMaxAttempts + (attempt - 1)
  /\ node = "run_tools" => invocations <= turns * ModelMaxAttempts
  /\ node = "wedged" => tools = {} /\ unanswered # {}
  /\ invocations <= InvocationLimit
  /\ finding = (node = "end")
  /\ exceeded => turns = MAX_TURNS

IInv == TypeOK /\ LoopInv

\* Whatever the model answers, the loop comes to an end, with a finding or as a
\* failure; only the workflow of an agent without tools may instead be stuck, on
\* a call that its graph has no node for (react_agent.py:127-133, 268, 327-329).
LoopEnds ==
  <>(node \in {"end", "failed"} \/ (node = "wedged" /\ tools = {} /\ unanswered # {}))
=============================================================================
