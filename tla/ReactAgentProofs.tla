-------------------------- MODULE ReactAgentProofs --------------------------
(***************************************************************************)
(* Theorems about ReactAgent, for every set of tools and every limit.      *)
(***************************************************************************)
EXTENDS ReactAgent, TLAPS

-----------------------------------------------------------------------------
\* Taking one more turn leaves room for all the attempts of that turn.
LEMMA NextTurn ==
  ASSUME NEW t \in Nat, t + 1 <= MAX_TURNS
  PROVE  /\ (t + 1) * ModelMaxAttempts = t * ModelMaxAttempts + ModelMaxAttempts
         /\ (t + 1) * ModelMaxAttempts <= InvocationLimit
         /\ t * ModelMaxAttempts \in Nat /\ InvocationLimit \in Nat
<1> DEFINE rest == MAX_TURNS - (t + 1)
<1>1. rest \in Nat /\ MAX_TURNS = rest + (t + 1) /\ ModelMaxAttempts \in Nat
  BY LoopAssumption
<1>2. (t + 1) * ModelMaxAttempts = t * ModelMaxAttempts + ModelMaxAttempts
  BY <1>1
<1>3. rest * ModelMaxAttempts \in Nat /\ t * ModelMaxAttempts \in Nat
  BY <1>1
<1>4. MAX_TURNS * ModelMaxAttempts
        = rest * ModelMaxAttempts + (t + 1) * ModelMaxAttempts
  BY <1>1
<1> QED
  BY <1>1, <1>2, <1>3, <1>4 DEF InvocationLimit

LEMMA InitIInv == Init => IInv
<1> SUFFICES ASSUME Init PROVE IInv
  OBVIOUS
<1>1. InvocationLimit \in Nat /\ ModelMaxAttempts >= 1 /\ MAX_TURNS >= 0
  BY LoopAssumption DEF InvocationLimit
<1>2. turns * ModelMaxAttempts + (attempt - 1) = 0
  BY LoopAssumption DEF Init
<1>3. TypeOK
  BY DEF Init, TypeOK
<1>4. invocations <= turns * ModelMaxAttempts + (attempt - 1)
  BY <1>2 DEF Init
<1>5. finding = (node = "end") /\ ~ exceeded
  BY DEF Init
<1>6. invocations <= InvocationLimit /\ attempt <= ModelMaxAttempts
  BY <1>1 DEF Init
<1>7. LoopInv
  BY <1>1, <1>4, <1>5, <1>6 DEF Init, LoopInv
<1> QED
  BY <1>3, <1>7 DEF IInv

\* One more Bedrock call on a turn that the cap allows is within the limit.
LEMMA InvocationStep ==
  ASSUME IInv, node = "call_model", turns + 1 <= MAX_TURNS, CountInvocation
  PROVE  /\ invocations' \in Nat
         /\ invocations' <= turns * ModelMaxAttempts + attempt
         /\ invocations' <= (turns + 1) * ModelMaxAttempts
         /\ invocations' <= InvocationLimit
<1>1. turns \in Nat /\ attempt \in Nat /\ invocations \in Nat
      /\ ModelMaxAttempts \in Nat
  BY LoopAssumption DEF IInv, TypeOK
<1>2. /\ (turns + 1) * ModelMaxAttempts = turns * ModelMaxAttempts + ModelMaxAttempts
      /\ (turns + 1) * ModelMaxAttempts <= InvocationLimit
      /\ turns * ModelMaxAttempts \in Nat /\ InvocationLimit \in Nat
  BY <1>1, NextTurn
<1>3. /\ invocations <= turns * ModelMaxAttempts + (attempt - 1)
      /\ attempt <= ModelMaxAttempts
  BY DEF IInv, LoopInv
<1>4. invocations' = invocations + 1
  BY <1>1, <1>2, <1>3 DEF CountInvocation, IInv, LoopInv
<1> QED
  BY <1>1, <1>2, <1>3, <1>4

LEMMA NextIInv == IInv /\ [Next]_vars => IInv'
<1> SUFFICES ASSUME IInv, [Next]_vars PROVE IInv'
  OBVIOUS
<1>0. /\ turns \in Nat /\ attempt \in Nat /\ invocations \in Nat
      /\ ModelMaxAttempts \in Nat \ {0} /\ MAX_TURNS \in Nat
  BY LoopAssumption DEF IInv, TypeOK
<1> DEFINE spent == turns * ModelMaxAttempts
           spentNext == (turns + 1) * ModelMaxAttempts
<1> USE DEF IInv, TypeOK, LoopInv, Ended
<1>1. CASE TooManyTurns
  BY <1>0, <1>1 DEF TooManyTurns
<1>2. ASSUME NEW r \in ModelReply, ModelAnswers(r) PROVE IInv'
  <2>1. /\ node = "call_model" /\ turns + 1 <= MAX_TURNS /\ CountInvocation
        /\ turns' = turns + 1 /\ attempt' = 1 /\ UNCHANGED <<tools, exceeded>>
        /\ finding' = (r.finding = "valid") /\ unanswered' = r.calls
    BY <1>2 DEF ModelAnswers, Invoke
  <2>2. /\ invocations' \in Nat /\ invocations' <= turns' * ModelMaxAttempts
        /\ invocations' <= InvocationLimit
    BY <2>1, InvocationStep
  <2>3. unanswered' \subseteq Names
    BY <2>1 DEF ModelReply
  <2>4. /\ node' \in {"call_model", "run_tools", "end", "wedged"}
        /\ node' = "end" <=> finding'
        /\ node' = "call_model" => unanswered' = {}
        /\ node' = "wedged" => tools = {} /\ unanswered' # {}
    BY <1>2 DEF ModelAnswers, Follow, DecideNext, Branches
  <2>5. ~ exceeded
    BY <1>0, <2>1
  <2>6. turns' * ModelMaxAttempts \in Nat
    BY <1>0, <2>1
  <2> HIDE DEF IInv
  <2>7. TypeOK'
    BY <1>0, <2>1, <2>2, <2>3, <2>4 DEF IInv
  <2>8. turns' * ModelMaxAttempts + (attempt' - 1) = turns' * ModelMaxAttempts
    BY <2>1, <2>6
  <2>9. turns' <= MAX_TURNS /\ attempt' >= 1 /\ attempt' <= ModelMaxAttempts
    BY <1>0, <2>1
  <2>10. LoopInv'
    BY <2>1, <2>2, <2>4, <2>5, <2>8, <2>9 DEF LoopInv
  <2> QED
    BY <2>7, <2>10 DEF IInv
<1>3. ASSUME RetryOr(ModelMaxAttempts), node = "call_model",
             \/ invocations' = invocations
             \/ turns + 1 <= MAX_TURNS /\ CountInvocation
      PROVE  IInv'
  <2>1. CASE invocations' = invocations
    BY <1>0, <1>3, <2>1 DEF RetryOr
  <2>2. CASE turns + 1 <= MAX_TURNS /\ CountInvocation
    <3>1. /\ invocations' \in Nat /\ invocations' <= InvocationLimit
          /\ invocations' <= turns * ModelMaxAttempts + attempt
      BY <1>3, <2>2, InvocationStep
    <3>2. turns * ModelMaxAttempts \in Nat
      BY <1>0
    <3> QED
      BY <1>0, <1>3, <3>1, <3>2 DEF RetryOr
  <2> QED
    BY <1>3, <2>1, <2>2
<1>4. CASE ModelAttemptFails
  BY <1>3, <1>4 DEF ModelAttemptFails, Invoke
<1>5. CASE ModelDenied
  <2>1. invocations' \in Nat /\ invocations' <= InvocationLimit
    BY <1>5, InvocationStep DEF ModelDenied, Invoke
  <2> QED
    BY <1>0, <1>5, <2>1 DEF ModelDenied, Invoke
<1>6. CASE ModelAttemptLost
  BY <1>3, <1>6 DEF ModelAttemptLost
<1>7. CASE RunTools
  BY <1>0, <1>7 DEF RunTools, AnsweredCalls
<1>8. CASE ToolsLost
  BY <1>0, <1>8 DEF ToolsLost, RetryOr
<1>9. CASE UNCHANGED vars
  BY <1>9 DEF vars
<1> QED
  BY <1>1, <1>2, <1>4, <1>5, <1>6, <1>7, <1>8, <1>9 DEF Next

THEOREM Invariance == Spec => []IInv
  BY InitIInv, NextIInv, PTL DEF Spec

-----------------------------------------------------------------------------
\* An agent makes at most MAX_TURNS * ModelMaxAttempts Bedrock calls, whatever
\* the model answers and however many workers die (react_agent.py:57-59,
\* 127-133, 288-293).
THEOREM CostBound == Spec => []CostIsBounded
<1>1. IInv => CostIsBounded
  BY DEF IInv, LoopInv, CostIsBounded
<1> QED
  BY <1>1, Invariance, PTL

\* No model turn starts with an unanswered tool call in its messages
\* (react_agent.py:233-253).
THEOREM CallsAnswered == Spec => []EveryCallIsAnswered
<1>1. IInv => EveryCallIsAnswered
  BY DEF IInv, LoopInv, EveryCallIsAnswered
<1> QED
  BY <1>1, Invariance, PTL

\* The graph ends exactly when a valid finding was submitted
\* (react_agent.py:258-268).
THEOREM EndsByFinding == Spec => []EndsWithFinding
<1>1. IInv => EndsWithFinding
  BY DEF IInv, LoopInv, EndsWithFinding
<1> QED
  BY <1>1, Invariance, PTL

\* An agent that has tools is never sent to a node its graph lacks
\* (react_agent.py:268, 308-329).
THEOREM ToolAgentsNeverWedge == Spec => []WedgesOnlyWithoutTools
<1>1. IInv => WedgesOnlyWithoutTools
  BY DEF IInv, LoopInv, WedgesOnlyWithoutTools
<1> QED
  BY <1>1, Invariance, PTL
-----------------------------------------------------------------------------
(* Every loop is short *)

\* Attempts of both nodes in the turns that are still to be taken.
TurnsLeft == (MAX_TURNS - turns) * (ModelMaxAttempts + ToolMaxAttempts)

\* How many steps the graph can still take, at most: the attempts left of the
\* node in flight, and those of the turns to come; after the last run of the
\* tools one more model turn is started, only to be refused.
StepsLeft ==
  CASE node = "call_model" -> TurnsLeft + (ModelMaxAttempts - attempt) + 1
    [] node = "run_tools" ->
         TurnsLeft + ModelMaxAttempts + (ToolMaxAttempts - attempt) + 1
    [] OTHER -> 0

LongestLoop == MAX_TURNS * (ModelMaxAttempts + ToolMaxAttempts) + ModelMaxAttempts

\* The tools are run once at least, and as often as their policy allows.
ToolInv == node = "run_tools" => turns >= 1 /\ attempt \in 1..ToolMaxAttempts

LEMMA LoopNumbers ==
  ASSUME IInv
  PROVE  /\ turns \in Nat /\ attempt \in Nat /\ turns <= MAX_TURNS /\ attempt >= 1
         /\ MAX_TURNS \in Nat /\ ModelMaxAttempts \in Nat \ {0} /\ ToolMaxAttempts \in Nat \ {0}
         /\ node = "call_model" => attempt <= ModelMaxAttempts
  BY LoopAssumption DEF IInv, TypeOK, LoopInv

LEMMA NextToolInv == ASSUME IInv, ToolInv, [Next]_vars PROVE ToolInv'
<1>1. turns \in Nat /\ attempt \in Nat /\ ToolMaxAttempts \in Nat \ {0}
  BY LoopNumbers
<1> USE <1>1 DEF ToolInv
<1>2. CASE TooManyTurns \/ ModelDenied
  BY <1>2 DEF TooManyTurns, ModelDenied
<1>3. ASSUME NEW r \in ModelReply, ModelAnswers(r) PROVE ToolInv'
  BY <1>3 DEF ModelAnswers
<1>4. CASE ModelAttemptFails \/ ModelAttemptLost
  BY <1>4 DEF ModelAttemptFails, ModelAttemptLost, RetryOr, Invoke
<1>5. CASE RunTools
  BY <1>5 DEF RunTools
<1>6. CASE ToolsLost
  BY <1>6 DEF ToolsLost, RetryOr
<1>7. CASE UNCHANGED vars
  BY <1>7 DEF vars
<1> QED
  BY <1>2, <1>3, <1>4, <1>5, <1>6, <1>7 DEF Next

LEMMA ToolInvariance == Spec => []ToolInv
<1>1. Init => ToolInv
  BY DEF Init, ToolInv
<1> QED
  BY <1>1, NextToolInv, Invariance, PTL DEF Spec

\* Of t turns out of n, each of k steps, the steps that are left.
LEMMA Rest ==
  ASSUME NEW n \in Nat, NEW t \in 0..n, NEW k \in Nat
  PROVE  /\ (n - t) * k \in 0..(n * k)
         /\ t >= 1 => (n - t) * k + k <= n * k
         /\ t + 1 <= n => (n - t) * k = (n - (t + 1)) * k + k
<1>1. PICK d \in Nat : n = d + t
  BY n - t \in Nat
<1>2. d * k \in Nat /\ t * k \in Nat /\ n * k = d * k + t * k /\ n - t = d
  BY <1>1
<1>3. t >= 1 => t * k >= k
  <2>1. ASSUME t >= 1 PROVE t * k = (t - 1) * k + k /\ (t - 1) * k \in Nat
    BY <2>1
  <2> QED
    BY <2>1, <1>2
<1>4. t + 1 <= n => d * k = (d - 1) * k + k /\ n - (t + 1) = d - 1
  BY <1>1
<1> QED
  BY <1>2, <1>3, <1>4

LEMMA StepsLeftBounds ==
  ASSUME IInv, ToolInv
  PROVE  /\ StepsLeft \in 0..LongestLoop
         /\ node \notin Ended => StepsLeft > 0
<1>1. /\ turns \in Nat /\ attempt \in Nat /\ turns <= MAX_TURNS /\ attempt >= 1
      /\ MAX_TURNS \in Nat /\ ModelMaxAttempts \in Nat \ {0} /\ ToolMaxAttempts \in Nat \ {0}
      /\ node = "call_model" => attempt <= ModelMaxAttempts
  BY LoopNumbers
<1> DEFINE turn == ModelMaxAttempts + ToolMaxAttempts
           all == MAX_TURNS * turn
<1>2. turn \in Nat /\ turns \in 0..MAX_TURNS
  BY <1>1
<1>3. /\ TurnsLeft \in 0..all /\ all \in Nat
      /\ turns >= 1 => TurnsLeft + turn <= all
  <2>1. all \in Nat
    BY <1>1, <1>2
  <2> QED
    BY <1>1, <1>2, <2>1, Rest DEF TurnsLeft
<1>4. LongestLoop = all + ModelMaxAttempts
  BY DEF LongestLoop
<1>5. node \in {"call_model", "run_tools"} \cup Ended
  BY DEF IInv, TypeOK
<1> HIDE DEF all
<1> QED
  BY <1>1, <1>3, <1>4, <1>5 DEF StepsLeft, ToolInv, Ended

\* An answer uses up a turn, and with it at least as many steps as the next
\* node may take.
LEMMA AnswerCounts ==
  ASSUME IInv, NEW r \in ModelReply, ModelAnswers(r)
  PROVE  StepsLeft' < StepsLeft
<1>1. /\ turns \in Nat /\ attempt \in Nat /\ turns <= MAX_TURNS /\ attempt >= 1
      /\ MAX_TURNS \in Nat /\ ModelMaxAttempts \in Nat \ {0} /\ ToolMaxAttempts \in Nat \ {0}
      /\ node = "call_model" => attempt <= ModelMaxAttempts
  BY LoopNumbers
<1>2. /\ node = "call_model" /\ turns + 1 <= MAX_TURNS
      /\ turns' = turns + 1 /\ attempt' = 1
      /\ node' \in {"call_model", "run_tools", "end", "wedged"}
  BY DEF ModelAnswers, Invoke, Follow, DecideNext, Branches
<1> DEFINE turn == ModelMaxAttempts + ToolMaxAttempts
<1>3. turn \in Nat /\ turns \in 0..MAX_TURNS /\ turns' \in 0..MAX_TURNS
  BY <1>1, <1>2
<1>4. TurnsLeft = TurnsLeft' + turn /\ TurnsLeft' \in Nat
  <2>1. TurnsLeft' = (MAX_TURNS - (turns + 1)) * turn
    BY <1>2 DEF TurnsLeft
  <2>2. (MAX_TURNS - (turns + 1)) * turn \in 0..(MAX_TURNS * turn)
    BY <1>1, <1>2, <1>3, Rest
  <2>3. (MAX_TURNS - turns) * turn = (MAX_TURNS - (turns + 1)) * turn + turn
    BY <1>1, <1>2, <1>3, Rest
  <2> QED
    BY <2>1, <2>2, <2>3 DEF TurnsLeft
<1> QED
  BY <1>1, <1>2, <1>4 DEF StepsLeft

\* A retry uses up an attempt.
LEMMA RetryCounts ==
  ASSUME IInv, ToolInv, NEW max \in Nat, RetryOr(max),
         \/ node = "call_model" /\ max = ModelMaxAttempts
         \/ node = "run_tools" /\ max = ToolMaxAttempts
  PROVE  StepsLeft' < StepsLeft
<1>1. /\ attempt \in Nat /\ attempt >= 1
      /\ ModelMaxAttempts \in Nat \ {0} /\ ToolMaxAttempts \in Nat \ {0}
      /\ StepsLeft > 0
  BY LoopNumbers, StepsLeftBounds DEF Ended
<1>2. TurnsLeft' = TurnsLeft /\ TurnsLeft \in Int
  BY LoopNumbers DEF RetryOr, TurnsLeft
<1>3. CASE attempt < max
  <2>1. node' = node /\ attempt' = attempt + 1
    BY <1>3 DEF RetryOr
  <2> QED
    BY <1>1, <1>2, <2>1 DEF StepsLeft
<1>4. CASE ~ (attempt < max)
  BY <1>1, <1>4 DEF RetryOr, StepsLeft
<1> QED
  BY <1>3, <1>4

LEMMA EveryStepCounts == ASSUME IInv, ToolInv, Next PROVE StepsLeft' < StepsLeft
<1>1. /\ attempt \in Nat /\ attempt >= 1
      /\ ModelMaxAttempts \in Nat \ {0} /\ ToolMaxAttempts \in Nat \ {0}
      /\ node \notin Ended => StepsLeft > 0
  BY LoopNumbers, StepsLeftBounds
<1>2. CASE TooManyTurns \/ ModelDenied
  BY <1>1, <1>2 DEF TooManyTurns, ModelDenied, Invoke, StepsLeft, Ended
<1>3. CASE \E r \in ModelReply : ModelAnswers(r)
  BY <1>3, AnswerCounts
<1>4. CASE ModelAttemptFails \/ ModelAttemptLost
  BY <1>1, <1>4, RetryCounts DEF ModelAttemptFails, ModelAttemptLost, Invoke
<1>5. CASE RunTools
  <2>1. TurnsLeft' = TurnsLeft /\ TurnsLeft \in Int
    BY <1>5, LoopNumbers DEF RunTools, TurnsLeft
  <2> QED
    BY <1>1, <1>5, <2>1 DEF RunTools, ToolInv, StepsLeft
<1>6. CASE ToolsLost
  BY <1>1, <1>6, RetryCounts DEF ToolsLost
<1> QED
  BY <1>2, <1>3, <1>4, <1>5, <1>6 DEF Next

\* Whatever the model answers, however many attempts are lost and without any
\* fairness, the graph takes at most LongestLoop steps: every step lowers what
\* is left, and as long as the graph has not ended something is left
\* (react_agent.py:57-59, 127-133, 288-329).
THEOREM LoopIsShort ==
  Spec => /\ [](StepsLeft \in 0..LongestLoop)
          /\ [](node \notin Ended => StepsLeft > 0)
          /\ [][StepsLeft' < StepsLeft]_vars
<1>1. IInv /\ ToolInv => /\ StepsLeft \in 0..LongestLoop
                         /\ node \notin Ended => StepsLeft > 0
  BY StepsLeftBounds
<1>2. IInv /\ ToolInv /\ [Next]_vars => [StepsLeft' < StepsLeft]_vars
  BY EveryStepCounts
<1> QED
  BY <1>1, <1>2, Invariance, ToolInvariance, PTL DEF Spec
=============================================================================
