-------------------------- MODULE DeploymentProofs --------------------------
(***************************************************************************)
(* For any environments, edits, workers and runs: a process that is up has *)
(* been let in, a POST tells the truth, a run keeps the limits it was      *)
(* started with, and a verdict is explained by what /api/health says.  The *)
(* inductive invariant says what the settings that a process has loaded,   *)
(* the request under way and the input of a run have to do with each       *)
(* other.                                                                  *)
(***************************************************************************)
EXTENDS Deployment, FiniteSetTheorems, TLAPS

\* A process that runs has its settings, a request under way is known.
LoadedInv ==
  /\ \A p \in Processes : proc[p] # "down" => loaded[p] \in Environments
  /\ post \in {"sent", "created", "ok"} => asked \in Requests
  /\ \A r \in Runs : stage[r] # "unborn" => input[r] \in POWorkflowInput /\ origin[r] \in Origin

TypeInv == TypeOK /\ LoadedInv

LEMMA SettingsFacts ==
  ASSUME NEW s \in Environments
  PROVE  /\ s.queue \in STRING /\ s.hardThreshold \in Nat /\ s.maxAttempts \in Nat
         /\ s.tls \in BOOLEAN \cup {None}
         /\ s.cert \in BOOLEAN /\ s.key \in BOOLEAN /\ s.apiKey \in BOOLEAN
         /\ s.ca \in BOOLEAN /\ s.cloud \in BOOLEAN
BY DeploymentAssumption DEF Settings

LEMMA InitType == Init => TypeInv
BY DeploymentAssumption DEF Init, TypeInv, TypeOK, LoadedInv, Processes, Environments

LEMMA OperatorType ==
  ASSUME TypeInv, Edit
  PROVE  TypeInv'
<1>1. files' \in BOOLEAN
  BY Zenon DEF Edit, TypeInv, TypeOK
<1>2. edits' \in 0..MaxEdits
  BY DeploymentAssumption DEF Edit, TypeInv, TypeOK
<1>3. env' \in Environments /\ UNCHANGED <<demand, processVars, clientVars, runVars>>
  BY DEF Edit, TypeInv, TypeOK, Environments
<1> QED
  BY <1>1, <1>2, <1>3 DEF TypeInv, TypeOK, LoadedInv, processVars, clientVars, runVars

LEMMA EndsType ==
  ASSUME TypeInv, NEW p \in Processes, Ends(p)
  PROVE  TypeInv'
BY DEF Ends, TypeInv, TypeOK, LoadedInv, operatorVars

LEMMA ProcessType ==
  ASSUME TypeInv, NEW p \in Processes, Start(p) \/ Connect(p) \/ ConnectFails(p) \/ Stop(p)
  PROVE  TypeInv'
<1>1. CASE Start(p)
  BY <1>1 DEF Start, TypeInv, TypeOK, LoadedInv, operatorVars, clientVars, runVars
<1>2. CASE Connect(p)
  BY <1>2 DEF Connect, TypeInv, TypeOK, LoadedInv, operatorVars, clientVars, runVars
<1> QED
  BY <1>1, <1>2, EndsType DEF ConnectFails, Stop

LEMMA ClientType ==
  ASSUME TypeInv,
         (\E request \in Requests : Post(request)) \/ BadRequest \/ PostReturns \/ PostFails
  PROVE  TypeInv'
<1>1. Handled \in SUBSET (Nat \X Requests)
  BY DEF Handled, TypeInv, TypeOK, LoadedInv
<1> QED
  BY <1>1 DEF Post, BadRequest, PostReturns, PostFails, TypeInv, TypeOK, LoadedInv,
              operatorVars, processVars, runVars

\* A run that begins has an input made of a request and the API's settings.
LEMMA BeginsType ==
  ASSUME TypeInv, NEW r \in Runs, NEW order \in Orders, NEW request \in Requests,
         Begins(r, order, request),
         post' \in {"none", "sent", "created", "ok", "refused", "error"},
         post' \in {"sent", "created", "ok"} => asked \in Requests,
         started' \in Runs \cup {None}, pending' \subseteq pending
  PROVE  TypeInv'
<1> DEFINE i == [order |-> order, threshold |-> ThresholdOf(request),
                 queue |-> QueueOf(loaded[Api]), maxAttempts |-> loaded[Api].maxAttempts]
           o == [request |-> request, settings |-> loaded[Api]]
<1>1. loaded[Api] \in Environments
  BY DEF Begins, TypeInv, LoadedInv, Processes
<1>2. ThresholdOf(request) \in Nat
  BY DeploymentAssumption DEF ThresholdOf
<1>3. i \in POWorkflowInput /\ o \in Origin
  BY <1>1, <1>2, SettingsFacts DEF POWorkflowInput, Origin, QueueOf
<1>4. /\ stage' = [stage EXCEPT ![r] = "guardrail"]
      /\ input' = [input EXCEPT ![r] = i] /\ origin' = [origin EXCEPT ![r] = o]
      /\ attempt' = [attempt EXCEPT ![r] = 1]
      /\ UNCHANGED <<asked, posts, holder, verdict, operatorVars, processVars>>
  BY DEF Begins
<1> HIDE DEF i, o
<1> QED
  BY <1>1, <1>3, <1>4 DEF TypeInv, TypeOK, LoadedInv, operatorVars, processVars

LEMMA StartType ==
  ASSUME TypeInv, NEW r \in Runs, NEW order \in Orders,
         StartWorkflow(r, order) \/ StartsLate(r, order)
  PROVE  TypeInv'
<1>1. CASE StartWorkflow(r, order)
  <2>1. asked \in Requests
    BY <1>1 DEF StartWorkflow, TypeInv, LoadedInv
  <2> QED
    BY <1>1, <2>1, BeginsType DEF StartWorkflow
<1>2. CASE StartsLate(r, order)
  <2>1. PICK late \in pending :
          Begins(r, order, late[2]) /\ pending' = pending \ {late}
    BY <1>2 DEF StartsLate
  <2>2. late[2] \in Requests
    BY <2>1 DEF TypeInv, TypeOK
  <2>3. UNCHANGED <<post, started>>
    BY <1>2 DEF StartsLate
  <2> QED
    BY <2>1, <2>2, <2>3, BeginsType DEF TypeInv, TypeOK, LoadedInv
<1> QED
  BY <1>1, <1>2

LEMMA RunType ==
  ASSUME TypeInv, NEW r \in Runs, RunStep(r)
  PROVE  TypeInv'
<1> USE DEF TypeInv, TypeOK, LoadedInv, operatorVars, processVars, clientVars
<1>1. ASSUME NEW w \in Workers, TaskTaken(w, r) PROVE TypeInv'
  BY <1>1 DEF TaskTaken, Open
<1>2. CASE GuardrailReports(r)
  <2>1. Check(r) \in Verdicts
    BY DEF Check, Verdicts
  <2>2. PICK next \in {"erp", "closed"} : stage' = [stage EXCEPT ![r] = next]
    BY <1>2 DEF GuardrailReports
  <2> QED
    BY <1>2, <2>1, <2>2 DEF GuardrailReports
<1>3. CASE ErpReports(r)
  BY <1>3 DEF ErpReports
<1>4. CASE AttemptFails(r)
  BY <1>4 DEF AttemptFails, Retry, Open
<1> QED
  BY <1>1, <1>2, <1>3, <1>4 DEF RunStep

LEMMA NextType ==
  ASSUME TypeInv, [Next]_vars
  PROVE  TypeInv'
<1>1. CASE UNCHANGED vars
  BY <1>1 DEF vars, operatorVars, processVars, clientVars, runVars, TypeInv, TypeOK, LoadedInv
<1> QED
  BY <1>1, OperatorType, ProcessType, ClientType, StartType, RunType DEF Next

LEMMA TypeInvariance == Spec => []TypeInv
BY InitType, NextType, PTL DEF Spec

\* The variables keep their types.
THEOREM TypeCorrectness == Spec => []TypeOK
BY TypeInvariance, PTL DEF TypeInv

-----------------------------------------------------------------------------
(* Connections *)

\* A client that the server has let in has the credential it asks for.
LEMMA OfferedIsConfigured ==
  ASSUME NEW s \in Environments, Offer(s) # None, Accepts(Offer(s))
  PROVE  /\ demand = "certificate" => s.cert /\ s.key /\ ~ s.apiKey
         /\ demand = "api key" => s.apiKey /\ ~ s.cert /\ ~ s.key
         /\ demand = "plaintext" => s.tls = FALSE \/ ~ (s.apiKey \/ s.cert \/ s.key)
         /\ demand # "plaintext" => s.tls # FALSE /\ (s.cert <=> s.key) /\ ~ (s.apiKey /\ s.cert)
<1>1. CASE ~ TlsEnabled(s)
  <2>1. Offer(s) = "plaintext"
    BY <1>1 DEF Offer
  <2>2. demand = "plaintext"
    BY <2>1 DEF Accepts
  <2> QED
    BY <1>1, <2>2, SettingsFacts, Zenon DEF TlsEnabled
<1>2. CASE TlsEnabled(s)
  <2>1. ~ (s.cert # s.key \/ (s.apiKey /\ s.cert))
    BY <1>2 DEF Offer
  <2>2. Offer(s) = IF s.cert THEN "certificate" ELSE IF s.apiKey THEN "api key" ELSE "tls"
    BY <1>2, <2>1 DEF Offer
  <2>3. s.tls # FALSE
    BY <1>2, DeploymentAssumption DEF TlsEnabled
  <2>4. demand # "plaintext"
    BY <2>2 DEF Accepts
  <2>5. CASE demand = "certificate"
    BY <2>1, <2>2, <2>3, <2>5 DEF Accepts
  <2>6. CASE demand = "api key"
    BY <2>1, <2>2, <2>3, <2>6, SettingsFacts DEF Accepts
  <2> QED
    BY <2>1, <2>3, <2>4, <2>5, <2>6, SettingsFacts
<1> QED
  BY <1>1, <1>2

\* A process that is up has been let in by the server, whatever environment it
\* was started in and whatever has been edited since
\* (temporal_client.py:85-134, 196-211).
THEOREM ConnectionSafety == Spec => []UpIsConnected
<1>1. Init => UpIsConnected
  BY DEF Init, UpIsConnected
<1>2. ASSUME TypeInv, UpIsConnected, [Next]_vars
      PROVE  UpIsConnected'
  <2>1. ASSUME NEW p \in Processes, Connect(p) PROVE UpIsConnected'
    <3>1. loaded[p] \in Environments
      BY <1>2, <2>1 DEF Connect, TypeInv, LoadedInv
    <3>2. \A q \in Processes : proc'[q] = "up" => q = p \/ proc[q] = "up"
      BY <1>2, <2>1 DEF Connect, TypeInv, TypeOK
    <3>3. loaded' = loaded /\ demand' = demand
      BY <2>1 DEF Connect, operatorVars
    <3>4. Offer(loaded[p]) # None /\ Accepts(Offer(loaded[p]))
      BY <2>1 DEF Connect
    <3> QED
      BY <1>2, <3>1, <3>2, <3>3, <3>4, OfferedIsConfigured DEF UpIsConnected
  <2>2. ASSUME demand' = demand,
               \A p \in Processes : proc'[p] = "up" => proc[p] = "up" /\ loaded'[p] = loaded[p]
        PROVE  UpIsConnected'
    BY <1>2, <2>2 DEF UpIsConnected
  <2>3. ASSUME NEW p \in Processes, Start(p) PROVE UpIsConnected'
    BY <1>2, <2>2, <2>3 DEF Start, TypeInv, TypeOK, operatorVars
  <2>4. ASSUME NEW p \in Processes, Ends(p) PROVE UpIsConnected'
    BY <1>2, <2>2, <2>4 DEF Ends, TypeInv, TypeOK, operatorVars
  <2>5. ASSUME UNCHANGED <<demand, processVars>> PROVE UpIsConnected'
    BY <2>2, <2>5 DEF processVars
  <2>6. ASSUME NEW r \in Runs, RunStep(r) PROVE UpIsConnected'
    BY <2>5, <2>6 DEF RunStep, TaskTaken, GuardrailReports, ErpReports, AttemptFails, operatorVars
  <2>7. ASSUME NEW r \in Runs, NEW order \in Orders,
               StartWorkflow(r, order) \/ StartsLate(r, order)
        PROVE  UpIsConnected'
    BY <2>5, <2>7 DEF StartWorkflow, StartsLate, Begins, operatorVars
  <2>8. CASE Edit \/ UNCHANGED vars
    BY <2>5, <2>8 DEF Edit, vars, operatorVars
  <2>9. CASE (\E request \in Requests : Post(request)) \/ BadRequest \/ PostReturns \/ PostFails
    BY <2>5, <2>9 DEF Post, BadRequest, PostReturns, PostFails, operatorVars
  <2> QED
    BY <1>2, <2>1, <2>3, <2>4, <2>6, <2>7, <2>8, <2>9 DEF Next, ConnectFails, Stop
<1> QED
  BY <1>1, <1>2, TypeInvariance, PTL DEF Spec

-----------------------------------------------------------------------------
(* Runs *)

\* What a run does follows from what it was started with.
RunInv ==
  \A r \in Runs :
    /\ stage[r] # "unborn" =>
         /\ input[r].threshold = ThresholdOf(origin[r].request)
         /\ input[r].maxAttempts = origin[r].settings.maxAttempts
    /\ stage[r] \in {"unborn", "guardrail"} => verdict[r] = None
    /\ holder[r] \in Workers => proc[holder[r]] = "up"
    /\ stage[r] \in {"erp", "failed"} /\ verdict[r] # None =>
         /\ input[r].maxAttempts # 0 => attempt[r] <= input[r].maxAttempts
         /\ stage[r] = "failed" =>
              input[r].maxAttempts # 0 /\ attempt[r] = input[r].maxAttempts

LEMMA InitRun == Init => RunInv
BY DeploymentAssumption DEF Init, RunInv, Processes

LEMMA EndsKeepsRuns ==
  ASSUME TypeInv, RunInv, NEW p \in Processes, Ends(p)
  PROVE  RunInv'
<1>1. \A r \in Runs : holder'[r] \in Workers => holder[r] = holder'[r] /\ holder[r] # p
  BY DeploymentAssumption DEF Ends, TypeInv, TypeOK
<1>2. \A q \in Processes : q # p => proc'[q] = proc[q]
  BY DEF Ends, TypeInv, TypeOK
<1> QED
  BY <1>1, <1>2 DEF Ends, RunInv, Processes, ThresholdOf

LEMMA ProcessKeepsRuns ==
  ASSUME TypeInv, RunInv, NEW p \in Processes, Start(p) \/ Connect(p)
  PROVE  RunInv'
<1>1. \A q \in Processes : proc[q] = "up" => proc'[q] = "up"
  BY DEF Start, Connect, TypeInv, TypeOK
<1> QED
  BY <1>1 DEF Start, Connect, RunInv, runVars, Processes

LEMMA OthersKeepRuns ==
  ASSUME RunInv, UNCHANGED <<proc, runVars>>
  PROVE  RunInv'
BY DEF RunInv, runVars

LEMMA StartKeepsRuns ==
  ASSUME TypeInv, RunInv, NEW r \in Runs, NEW order \in Orders,
         StartWorkflow(r, order) \/ StartsLate(r, order)
  PROVE  RunInv'
<1>0. PICK request : Begins(r, order, request)
  BY DEF StartWorkflow, StartsLate
<1>1. /\ input'[r].threshold = ThresholdOf(request)
      /\ input'[r].maxAttempts = loaded[Api].maxAttempts
      /\ origin'[r].request = request /\ origin'[r].settings = loaded[Api]
      /\ stage'[r] = "guardrail" /\ verdict'[r] = None
  BY <1>0 DEF Begins, RunInv, TypeInv, TypeOK
<1>2. \A q \in Runs \ {r} : /\ stage'[q] = stage[q] /\ input'[q] = input[q]
                            /\ origin'[q] = origin[q] /\ attempt'[q] = attempt[q]
  BY <1>0 DEF Begins, TypeInv, TypeOK
<1>3. proc' = proc /\ holder' = holder /\ verdict' = verdict
  BY <1>0 DEF Begins, processVars
<1> QED
  BY <1>1, <1>2, <1>3 DEF RunInv

\* A step of run r leaves the other runs alone.
LEMMA OnlyThisRun ==
  ASSUME TypeInv, NEW r \in Runs, RunStep(r)
  PROVE  /\ \A q \in Runs \ {r} : /\ stage'[q] = stage[q] /\ attempt'[q] = attempt[q]
                                 /\ holder'[q] = holder[q] /\ verdict'[q] = verdict[q]
         /\ UNCHANGED <<input, origin, proc, loaded>>
<1> USE DEF TypeInv, TypeOK, processVars
<1>1. ASSUME NEW w \in Workers, TaskTaken(w, r)
      PROVE  /\ UNCHANGED <<stage, attempt, verdict, input, origin, proc, loaded>>
             /\ \A q \in Runs \ {r} : holder'[q] = holder[q]
  BY <1>1 DEF TaskTaken
<1>2. CASE GuardrailReports(r)
  BY <1>2 DEF GuardrailReports
<1>3. CASE ErpReports(r)
  BY <1>3 DEF ErpReports
<1>4. CASE AttemptFails(r)
  BY <1>4 DEF AttemptFails, Retry
<1> QED
  BY <1>1, <1>2, <1>3, <1>4 DEF RunStep

LEMMA StepKeepsRuns ==
  ASSUME TypeInv, RunInv, NEW r \in Runs, RunStep(r)
  PROVE  RunInv'
<1>0. input[r].maxAttempts \in Nat \/ stage[r] = "unborn"
  BY DEF TypeInv, LoadedInv, POWorkflowInput
<1>1. ASSUME NEW w \in Workers, TaskTaken(w, r) PROVE RunInv'
  <2>1. holder'[r] = w /\ proc[w] = "up"
    BY <1>1 DEF TaskTaken, Polls, TypeInv, TypeOK
  <2>2. UNCHANGED <<stage, attempt, verdict, input, origin, proc>>
    BY <1>1 DEF TaskTaken, processVars
  <2>3. \A q \in Runs \ {r} : holder'[q] = holder[q]
    BY <1>1, OnlyThisRun DEF RunStep
  <2> QED
    BY <2>1, <2>2, <2>3 DEF RunInv
<1>2. CASE GuardrailReports(r)
  <2>1. /\ stage'[r] \in {"erp", "closed"} /\ holder'[r] = None
        /\ stage'[r] = "erp" => attempt'[r] = 1
        /\ stage[r] = "guardrail"
    BY <1>2 DEF GuardrailReports, TypeInv, TypeOK
  <2> QED
    BY <1>0, <1>2, <2>1, OnlyThisRun, DeploymentAssumption DEF RunStep, RunInv, Processes
<1>3. CASE ErpReports(r)
  <2>1. stage'[r] = "closed" /\ stage[r] = "erp" /\ holder'[r] \notin Workers
    BY <1>3, DeploymentAssumption DEF ErpReports, TypeInv, TypeOK, Processes
  <2> QED
    BY <2>1, OnlyThisRun DEF RunInv
<1>4. CASE AttemptFails(r)
  <2>1. /\ holder'[r] = None /\ verdict'[r] = verdict[r] /\ stage[r] \in {"guardrail", "erp"}
        /\ attempt[r] \in Nat
    BY <1>4 DEF AttemptFails, TypeInv, TypeOK, Open
  <2>2. CASE Limit(r) = 0 \/ attempt[r] < Limit(r)
    <3>1. /\ stage'[r] = stage[r]
          /\ Limit(r) # 0 => attempt'[r] = attempt[r] + 1
      BY <1>4, <2>2 DEF AttemptFails, Retry, TypeInv, TypeOK
    <3>2. stage[r] = "erp" /\ input[r].maxAttempts # 0
            => attempt'[r] <= input[r].maxAttempts
      BY <1>0, <2>1, <2>2, <3>1 DEF Limit
    <3> QED
      BY <1>4, <2>1, <3>1, <3>2, OnlyThisRun, DeploymentAssumption DEF RunStep, RunInv, Processes
  <2>3. CASE ~ (Limit(r) = 0 \/ attempt[r] < Limit(r))
    <3>1. stage'[r] = "failed" /\ attempt'[r] = attempt[r]
      BY <1>4, <2>3 DEF AttemptFails, Retry, TypeInv, TypeOK
    <3>2. stage[r] = "erp" /\ verdict[r] # None
            => input[r].maxAttempts # 0 /\ attempt[r] = input[r].maxAttempts
      BY <1>0, <2>1, <2>3 DEF Limit, RunInv
    <3> QED
      BY <1>0, <1>4, <2>1, <3>1, <3>2, OnlyThisRun, DeploymentAssumption DEF RunStep, RunInv, Processes
  <2> QED
    BY <2>2, <2>3
<1> QED
  BY <1>1, <1>2, <1>3, <1>4 DEF RunStep

LEMMA NextRun ==
  ASSUME TypeInv, RunInv, [Next]_vars
  PROVE  RunInv'
<1>1. CASE Edit \/ (\E request \in Requests : Post(request)) \/ BadRequest
           \/ PostReturns \/ PostFails \/ UNCHANGED vars
  BY <1>1, OthersKeepRuns
  DEF Edit, Post, BadRequest, PostReturns, PostFails, vars, processVars
<1> QED
  BY <1>1, EndsKeepsRuns, ProcessKeepsRuns, StartKeepsRuns, StepKeepsRuns
  DEF Next, ConnectFails, Stop

LEMMA RunInvariance == Spec => []RunInv
BY InitRun, NextRun, TypeInvariance, PTL DEF Spec

\* A run keeps the limits that it was started with (models.py:156-160,
\* main.py:277, po_approval.py:448-454).
THEOREM LimitsSafety == Spec => []LimitsAreSettledAtStart
<1>1. RunInv => LimitsAreSettledAtStart
  BY DEF RunInv, LimitsAreSettledAtStart
<1> QED
  BY <1>1, RunInvariance, PTL

\* A verdict is explained by what /api/health says as soon as all processes
\* have the same settings (main.py:209-223, 271-275, guardrail.py:38-77).
THEOREM VerdictSafety == Spec => VerdictsAgreeWithHealth
<1>1. ASSUME TypeInv, RunInv, [Next]_vars, NEW r \in Runs,
             verdict'[r] # verdict[r], proc[Api] = "up", UpHaveSameSettings
      PROVE  HealthExplains(r)'
  <2>1. GuardrailReports(r)
    <3>1. CASE UNCHANGED verdict
      BY <1>1, <3>1
    <3>2. ASSUME NEW q \in Runs, RunStep(q) PROVE GuardrailReports(r)
      <4>1. q = r
        BY <1>1, <3>2, OnlyThisRun
      <4> QED
        BY <1>1, <3>2, <4>1 DEF RunStep, TaskTaken, ErpReports, AttemptFails
    <3> QED
      BY <1>1, <3>1, <3>2
      DEF Next, Edit, Start, Connect, ConnectFails, Stop, Ends, Post, BadRequest,
          PostReturns, PostFails, StartWorkflow, StartsLate, Begins, vars, runVars
  <2> DEFINE s == loaded[holder[r]]
  <2>2. s = loaded[Api] /\ s \in Environments
    <3>1. holder[r] \in Processes /\ proc[holder[r]] = "up"
      BY <1>1, <2>1 DEF GuardrailReports, RunInv, Processes
    <3> QED
      BY <1>1, <3>1 DEF UpHaveSameSettings, TypeInv, LoadedInv
  <2>3. /\ verdict'[r] = Check(r)
        /\ input' = input /\ origin' = origin /\ loaded' = loaded
    BY <1>1, <2>1 DEF GuardrailReports, processVars, TypeInv, TypeOK
  <2>4. /\ input[r] \in POWorkflowInput /\ origin[r] \in Origin
        /\ input[r].threshold = ThresholdOf(origin[r].request)
    BY <1>1, <2>1 DEF GuardrailReports, TypeInv, LoadedInv, RunInv
  <2>5. /\ input[r].threshold \in Nat /\ input[r].order.amount \in Nat
        /\ s.hardThreshold \in Nat
    BY <2>2, <2>4, SettingsFacts, DeploymentAssumption DEF POWorkflowInput
  <2>6. origin[r].request.threshold # None => input[r].threshold = origin[r].request.threshold
    BY <2>4 DEF ThresholdOf
  <2>7. Check(r) = "blocked" <=> \/ input[r].order.vendor \in s.blockedVendors
                                \/ input[r].order.amount > s.hardThreshold
    BY DEF Check
  <2>8. /\ Check(r) = "clean" => ~ (input[r].order.amount > input[r].threshold)
        /\ Check(r) = "requires_approval" => input[r].order.amount > input[r].threshold
    BY DEF Check
  <2> HIDE DEF s
  <2> QED
    BY <2>2, <2>3, <2>5, <2>6, <2>7, <2>8 DEF HealthExplains
<1>2. TypeInv /\ RunInv /\ [Next]_vars =>
        [\A r \in Runs :
           verdict'[r] # verdict[r] /\ proc[Api] = "up" /\ UpHaveSameSettings
             => HealthExplains(r)']_vars
  BY <1>1
<1> QED
  BY <1>2, TypeInvariance, RunInvariance, PTL DEF Spec, VerdictsAgreeWithHealth

-----------------------------------------------------------------------------
(* Requests *)

Begun == {r \in Runs : stage[r] # "unborn"}

\* Requests that may still start a run: the one under way and those given up.
Sent == IF post = "sent" THEN 1 ELSE 0

\* A request under way has started nothing yet, and like each one given up has
\* a start to spare.
PostInv ==
  /\ post \in {"sent", "refused"} => started = None
  /\ post \in {"created", "ok"} => /\ started \in Runs /\ stage[started] # "unborn"
                                  /\ origin[started].request = asked
  /\ IsFiniteSet(Begun) /\ IsFiniteSet(pending)
  /\ Cardinality(Begun) + Cardinality(pending) + Sent <= posts

LEMMA InitPost == Init => PostInv
<1>1. Init => Begun = {}
  BY DEF Init, Begun
<1> QED
  BY <1>1, FS_EmptySet DEF Init, PostInv, Sent

LEMMA PostNumbers ==
  ASSUME TypeInv, PostInv
  PROVE  /\ Cardinality(Begun) \in Nat /\ Cardinality(pending) \in Nat /\ posts \in Nat
         /\ Sent \in 0..1
  BY FS_CardinalityType DEF PostInv, TypeInv, TypeOK, Sent

\* No step but a start brings a run to life.
LEMMA NothingBegins ==
  ASSUME TypeInv, PostInv, Begun' = Begun,
         origin' = origin, asked' = asked, started' = started, posts' = posts,
         pending' \in {pending, {}},
         post' = post \/ post' = "error" \/ (post = "created" /\ post' = "ok")
           \/ (post = "sent" /\ post' = "refused")
  PROVE  PostInv'
<1>1. Sent' \in 0..Sent
  BY DEF Sent
<1>2. IsFiniteSet(pending') /\ Cardinality(pending') \in 0..Cardinality(pending)
  BY FS_EmptySet, PostNumbers DEF PostInv
<1>3. Cardinality(Begun') + Cardinality(pending') + Sent' <= posts'
  BY <1>1, <1>2, PostNumbers DEF PostInv
<1> QED
  BY <1>2, <1>3 DEF PostInv, Begun

\* Giving up moves the start to spare to the requests given up.
LEMMA GivingUpKeeps ==
  ASSUME TypeInv, PostInv, PostFails
  PROVE  PostInv'
<1>1. Begun' = Begun /\ UNCHANGED <<origin, asked, started, posts>>
  BY DEF PostFails, Begun, runVars
<1>2. CASE pending' = pending
  BY <1>1, <1>2, NothingBegins DEF PostFails
<1>3. CASE pending' # pending
  <2>1. post = "sent" /\ pending' = pending \cup {<<posts, asked>>}
    BY <1>3 DEF PostFails, Handled
  <2>2. <<posts, asked>> \notin pending
    BY <1>3, <2>1
  <2>3. IsFiniteSet(pending') /\ Cardinality(pending') = Cardinality(pending) + 1
    BY <2>1, <2>2, FS_AddElement DEF PostInv
  <2>4. post' = "error" /\ Sent = 1 /\ Sent' = 0
    BY <2>1 DEF PostFails, Sent
  <2>5. Cardinality(Begun') + Cardinality(pending') + Sent' <= posts'
    BY <1>1, <2>3, <2>4, PostNumbers DEF PostInv
  <2> QED
    BY <1>1, <2>3, <2>4, <2>5 DEF PostInv
<1> QED
  BY <1>2, <1>3

LEMMA NextPost ==
  ASSUME TypeInv, PostInv, [Next]_vars
  PROVE  PostInv'
<1>1. ASSUME NEW r \in Runs, NEW order \in Orders, NEW request, Begins(r, order, request)
      PROVE  /\ Begun' = Begun \cup {r} /\ r \notin Begun
             /\ IsFiniteSet(Begun') /\ Cardinality(Begun') = Cardinality(Begun) + 1
             /\ stage'[r] # "unborn" /\ origin'[r].request = request
             /\ \A q \in Begun : stage'[q] # "unborn" /\ origin'[q] = origin[q]
             /\ UNCHANGED <<asked, posts>>
  <2>1. Begun' = Begun \cup {r} /\ r \notin Begun
    BY <1>1 DEF Begins, Begun, TypeInv, TypeOK
  <2>2. IsFiniteSet(Begun') /\ Cardinality(Begun') = Cardinality(Begun) + 1
    BY <2>1, FS_AddElement DEF PostInv
  <2>3. /\ stage'[r] # "unborn" /\ origin'[r].request = request
        /\ \A q \in Begun : stage'[q] # "unborn" /\ origin'[q] = origin[q]
    BY <1>1 DEF Begins, Begun, TypeInv, TypeOK
  <2> QED
    BY <1>1, <2>1, <2>2, <2>3 DEF Begins
<1>2. ASSUME NEW r \in Runs, NEW order \in Orders, StartWorkflow(r, order) PROVE PostInv'
  <2>1. Begins(r, order, asked)
    BY <1>2 DEF StartWorkflow
  <2>2. pending' = pending /\ post' = "created" /\ started' = r /\ Sent = 1 /\ Sent' = 0
    BY <1>2 DEF StartWorkflow, Sent
  <2>3. Cardinality(Begun') + Cardinality(pending') + Sent' <= posts'
    BY <1>1, <2>1, <2>2, PostNumbers DEF PostInv
  <2> QED
    BY <1>1, <2>1, <2>2, <2>3 DEF PostInv
<1>3. ASSUME NEW r \in Runs, NEW order \in Orders, StartsLate(r, order) PROVE PostInv'
  <2>1. PICK late \in pending :
          Begins(r, order, late[2]) /\ pending' = pending \ {late}
    BY <1>3 DEF StartsLate
  <2>2. UNCHANGED <<post, started>> /\ Sent' = Sent
    BY <1>3 DEF StartsLate, Sent
  <2>3. IsFiniteSet(pending') /\ Cardinality(pending') = Cardinality(pending) - 1
    BY <2>1, FS_RemoveElement DEF PostInv
  <2>4. Cardinality(Begun') + Cardinality(pending') + Sent' <= posts'
    BY <1>1, <2>1, <2>2, <2>3, PostNumbers DEF PostInv
  <2>5. post \in {"created", "ok"} => started \in Begun
    BY DEF PostInv, Begun
  <2> QED
    BY <1>1, <2>1, <2>2, <2>3, <2>4, <2>5 DEF PostInv
<1>4. ASSUME NEW request \in Requests, Post(request) PROVE PostInv'
  <2>1. /\ Begun' = Begun /\ posts' = posts + 1 /\ post' = "sent" /\ started' = None
        /\ pending' = pending /\ Sent = 0 /\ Sent' = 1
    BY <1>4 DEF Post, Begun, runVars, Sent
  <2>2. Cardinality(Begun') + Cardinality(pending') + Sent' <= posts'
    BY <2>1, PostNumbers DEF PostInv
  <2> QED
    BY <2>1, <2>2 DEF PostInv
<1>5. CASE BadRequest \/ PostReturns
  <2>1. Begun' = Begun
    BY <1>5 DEF BadRequest, PostReturns, Begun, runVars
  <2> QED
    BY <1>5, <2>1, NothingBegins DEF BadRequest, PostReturns, runVars
<1>6. ASSUME NEW p \in Processes, Start(p) \/ Connect(p) \/ Ends(p) PROVE PostInv'
  <2>1. Begun' = Begun
    BY <1>6 DEF Start, Connect, Ends, Begun, runVars
  <2> QED
    BY <1>6, <2>1, NothingBegins DEF Start, Connect, Ends, runVars, clientVars
<1>7. ASSUME NEW r \in Runs, RunStep(r) PROVE PostInv'
  <2>1. stage[r] # "unborn" /\ stage'[r] # "unborn"
    BY <1>7 DEF RunStep, TaskTaken, GuardrailReports, ErpReports, AttemptFails, Retry,
                Open, TypeInv, TypeOK
  <2>2. Begun' = Begun
    BY <1>7, <2>1, OnlyThisRun DEF Begun
  <2>3. UNCHANGED clientVars
    BY <1>7 DEF RunStep, TaskTaken, GuardrailReports, ErpReports, AttemptFails
  <2> QED
    BY <1>7, <2>2, <2>3, OnlyThisRun, NothingBegins DEF clientVars
<1>8. CASE Edit \/ UNCHANGED vars
  <2>1. Begun' = Begun
    BY <1>8 DEF Edit, Begun, vars, runVars
  <2> QED
    BY <1>8, <2>1, NothingBegins DEF Edit, vars, runVars, clientVars
<1> QED
  BY <1>2, <1>3, <1>4, <1>5, <1>6, <1>7, <1>8, GivingUpKeeps DEF Next, ConnectFails, Stop

\* Whoever posts is told the truth about the run, and has at most one run for
\* each time of asking (main.py:251-298).
THEOREM PostSafety == Spec => []AnsweredIsStarted
<1>1. TypeInv /\ PostInv => AnsweredIsStarted
  <2> SUFFICES ASSUME TypeInv, PostInv PROVE AnsweredIsStarted
    OBVIOUS
  <2>1. Cardinality(Begun) <= posts
    BY PostNumbers DEF PostInv
  <2> QED
    BY <2>1, DeploymentAssumption DEF PostInv, AnsweredIsStarted, Begun
<1> QED
  BY <1>1, InitPost, NextPost, TypeInvariance, PTL DEF Spec
=============================================================================
