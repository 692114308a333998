----------------------------- MODULE Deployment -----------------------------
(***************************************************************************)
(* The processes of a deployment and the configuration each of them works  *)
(* by: get_settings of src/common/config.py, connect and build_tls_config  *)
(* of src/common/temporal_client.py, the start of src/worker.py and of     *)
(* src/api/main.py, start_workflow, and the settings that the guardrail    *)
(* and the ERP step take from a worker or from the run's input.            *)
(*                                                                         *)
(* The operator edits the environment while processes run.  A process      *)
(* reads it once, at its start, and keeps what it read until it ends.      *)
(* Of a run only the two activities that depend on settings are kept; what *)
(* the agents extract is chosen when the run is started.                   *)
(***************************************************************************)
EXTENDS Naturals, FiniteSets

CONSTANTS
  None,
  Workers,         \* worker processes
  Api,             \* the API process
  Shipped,         \* what .env and the process environment may say at first
  Amended,         \* what the operator may make of them
  Demands,         \* what the Temporal server may insist on
  Requests,        \* StartRequest: [text, threshold]
  ScenarioThreshold,  \* the threshold of the scenario in SCENARIOS
  Orders,          \* what the agents may extract: [vendor, amount]
  Runs,            \* workflow ids, in the order in which they are drawn
  MaxEdits,        \* bound: edits of the environment
  AttemptBound     \* bound: attempts counted when there is no limit

Processes == Workers \cup {Api}
Environments == Shipped \cup Amended

\* Settings: the connection, the task queue, the policy and the run's limits.
\* Paths and keys are told apart only by being set; maxAttempts = 0 is no limit.
Settings ==
  [tls : BOOLEAN \cup {None}, cloud : BOOLEAN, apiKey : BOOLEAN, cert : BOOLEAN,
   key : BOOLEAN, ca : BOOLEAN, queue : STRING, hardThreshold : Nat,
   blockedVendors : SUBSET STRING, maxAttempts : Nat]

\* raw_text of a StartRequest: absent, empty, blank once stripped, or a text.
Texts == {None, "", " ", "text"}

ASSUME DeploymentAssumption ==
  /\ Api \notin Workers /\ Runs \subseteq Nat /\ None \notin Processes \cup Environments
  /\ None \notin BOOLEAN \cup Nat /\ "lost" \notin Workers \cup {None}
  /\ Environments \subseteq Settings
  /\ Requests \subseteq [text : Texts, threshold : Nat \cup {None}]
  /\ ScenarioThreshold \in Nat
  /\ Orders \subseteq [vendor : STRING, amount : Nat]
  /\ MaxEdits \in Nat /\ AttemptBound \in Nat \ {0}

VARIABLES
  env,      \* what a process started now would read
  files,    \* the credential files are in place
  demand,   \* what the server insists on
  edits,
  proc,     \* [Processes -> "down", "starting", "up"]
  loaded,   \* [Processes -> the settings cached by get_settings]
  post,     \* POST /api/workflows: "none", "sent", "created", "ok", "refused", "error"
  asked,    \* the request of the latest POST
  started,  \* the run that POST has started, None while there is none
  posts,    \* history: how many were sent
  pending,  \* POSTs the API still handles though nobody waits for the answer,
            \* each with its number
  stage,    \* [Runs -> "unborn", "guardrail", "erp", "closed", "failed"]
  input,    \* [Runs -> POWorkflowInput]
  origin,   \* history: [Runs -> the request and the API's settings at the start]
  attempt,  \* [Runs -> attempt of the current activity, 0 without one]
  holder,   \* [Runs -> the worker executing it, None, or "lost"]
  verdict   \* [Runs -> the guardrail's result]

operatorVars == <<env, files, demand, edits>>
processVars == <<proc, loaded>>
clientVars == <<post, asked, started, posts, pending>>
runVars == <<stage, input, origin, attempt, holder, verdict>>
vars == <<operatorVars, processVars, clientVars, runVars>>

POWorkflowInput ==
  [order : Orders, threshold : Nat, queue : STRING, maxAttempts : Nat]
Origin == [request : Requests, settings : Environments]
Verdicts == {"blocked", "requires_approval", "clean"}
GuardrailAttempts == 3

TypeOK ==
  /\ env \in Environments /\ files \in BOOLEAN
  /\ demand \in Demands /\ edits \in 0..MaxEdits
  /\ proc \in [Processes -> {"down", "starting", "up"}]
  /\ loaded \in [Processes -> Environments \cup {None}]
  /\ post \in {"none", "sent", "created", "ok", "refused", "error"}
  /\ asked \in Requests \cup {None} /\ started \in Runs \cup {None}
  /\ posts \in Nat /\ pending \in SUBSET (Nat \X Requests)
  /\ stage \in [Runs -> {"unborn", "guardrail", "erp", "closed", "failed"}]
  /\ input \in [Runs -> POWorkflowInput \cup {None}]
  /\ origin \in [Runs -> Origin \cup {None}]
  /\ attempt \in [Runs -> Nat]
  /\ holder \in [Runs -> Workers \cup {None, "lost"}]
  /\ verdict \in [Runs -> Verdicts \cup {None}]

Init ==
  /\ env \in Shipped /\ files \in BOOLEAN
  /\ demand \in Demands /\ edits = 0
  /\ proc = [p \in Processes |-> "down"]
  /\ loaded = [p \in Processes |-> None]
  /\ post = "none" /\ asked = None /\ started = None /\ posts = 0 /\ pending = {}
  /\ stage = [r \in Runs |-> "unborn"]
  /\ input = [r \in Runs |-> None] /\ origin = [r \in Runs |-> None]
  /\ attempt = [r \in Runs |-> 0] /\ holder = [r \in Runs |-> None]
  /\ verdict = [r \in Runs |-> None]

-----------------------------------------------------------------------------
(* The connection that settings ask for *)

TlsEnabled(s) ==
  IF s.tls # None THEN s.tls ELSE s.apiKey \/ s.cert \/ s.key \/ s.cloud

\* Mistake: a key beside a certificate is taken for a spare one.
OfferOneOfTwo(s) ==
  CASE ~ TlsEnabled(s) -> "plaintext"
    [] TlsEnabled(s) /\ (s.cert # s.key \/ ((s.cert \/ s.ca) /\ ~ files)) -> None
    [] OTHER -> IF s.cert THEN "certificate" ELSE IF s.apiKey THEN "api key" ELSE "tls"

\* Mistake: a certificate without a key is passed over.
OfferWholePairs(s) ==
  CASE ~ TlsEnabled(s) -> "plaintext"
    [] TlsEnabled(s) /\ ((s.apiKey /\ s.cert) \/ ((s.cert \/ s.ca) /\ ~ files)) -> None
    [] OTHER -> IF s.cert /\ s.key THEN "certificate" ELSE IF s.apiKey THEN "api key" ELSE "tls"

\* build_tls_config, and the API key that connect passes along: what is offered
\* to the server, or None if the settings are refused.
Offer(s) ==
  CASE ~ TlsEnabled(s) -> "plaintext"
    [] TlsEnabled(s) /\ (s.cert # s.key \/ (s.apiKey /\ s.cert)) -> None
    [] TlsEnabled(s) /\ (s.cert \/ s.ca) /\ ~ files -> None
    [] OTHER -> IF s.cert THEN "certificate" ELSE IF s.apiKey THEN "api key" ELSE "tls"

\* The server's side.
Accepts(offer) ==
  CASE demand = "tls" -> offer \in {"tls", "api key", "certificate"}
    [] OTHER -> offer = demand

-----------------------------------------------------------------------------
(* The operator and the processes *)

Edit ==
  /\ edits < MaxEdits
  /\ edits' = edits + 1
  /\ \/ env' \in Amended /\ UNCHANGED files
     \/ files' = ~ files /\ UNCHANGED env
  /\ UNCHANGED <<demand, processVars, clientVars, runVars>>

\* The first get_settings() of a process reads the environment for good.
Start(p) ==
  /\ proc[p] = "down"
  /\ proc' = [proc EXCEPT ![p] = "starting"]
  /\ loaded' = [loaded EXCEPT ![p] = env]
  /\ UNCHANGED <<operatorVars, clientVars, runVars>>

\* Mistake: an error of connect() is left for the first call to find out.
ConnectLazily(p) ==
  /\ proc[p] = "starting" /\ Offer(loaded[p]) # None
  /\ proc' = [proc EXCEPT ![p] = "up"]
  /\ UNCHANGED <<loaded, operatorVars, clientVars, runVars>>

\* Client.connect() reaches the server, which lets the client in.
Connect(p) ==
  /\ proc[p] = "starting"
  /\ Offer(loaded[p]) # None /\ Accepts(Offer(loaded[p]))
  /\ proc' = [proc EXCEPT ![p] = "up"]
  /\ UNCHANGED <<loaded, operatorVars, clientVars, runVars>>

\* What the end of process p leaves behind: the tasks it held are lost, and so
\* are the requests that the API was handling, or the answers to them.
Ends(p) ==
  /\ proc' = [proc EXCEPT ![p] = "down"]
  /\ loaded' = [loaded EXCEPT ![p] = None]
  /\ holder' = [r \in Runs |-> IF holder[r] = p THEN "lost" ELSE holder[r]]
  /\ post' = IF p = Api /\ post \in {"sent", "created"} THEN "error" ELSE post
  /\ pending' = IF p = Api THEN {} ELSE pending
  /\ UNCHANGED <<operatorVars, asked, started, posts, stage, input, origin,
                 attempt, verdict>>

\* The worker exits with 1, and the API's start-up raises, when the settings
\* are refused, or the server cannot be reached or refuses the client.
ConnectFails(p) == proc[p] = "starting" /\ Ends(p)

\* A process is stopped or killed.
Stop(p) == proc[p] = "up" /\ Ends(p)

-----------------------------------------------------------------------------
(* POST /api/workflows *)

Post(request) ==
  /\ post \in {"none", "ok", "refused", "error"} /\ posts < Cardinality(Runs)
  /\ post' = "sent" /\ asked' = request /\ started' = None /\ posts' = posts + 1
  /\ UNCHANGED <<pending, operatorVars, processVars, runVars>>

\* Mistakes: a threshold of zero reads as none; the run goes to the default
\* queue.
ThresholdIfTrue(request) ==
  IF request.threshold \in {None, 0} THEN ScenarioThreshold ELSE request.threshold

QueueByDefault(s) == "po-approval"

\* An absent threshold is the scenario's, and zero is not absent.
ThresholdOf(request) ==
  IF request.threshold = None THEN ScenarioThreshold ELSE request.threshold

QueueOf(s) == s.queue

\* An absent or an empty text is the scenario's; a blank one is refused.
TextIsBlank(request) == request.text = " "

BadRequest ==
  /\ post = "sent" /\ proc[Api] = "up" /\ TextIsBlank(asked)
  /\ post' = "refused"
  /\ UNCHANGED <<asked, started, posts, pending, operatorVars, processVars, runVars>>

\* start_workflow of the client: the server has a new execution.
Begins(r, order, request) ==
  /\ proc[Api] = "up"
  /\ stage[r] = "unborn" /\ \A q \in Runs : q < r => stage[q] # "unborn"
  /\ stage' = [stage EXCEPT ![r] = "guardrail"]
  /\ input' = [input EXCEPT ![r] =
       [order |-> order, threshold |-> ThresholdOf(request),
        queue |-> QueueOf(loaded[Api]), maxAttempts |-> loaded[Api].maxAttempts]]
  /\ origin' = [origin EXCEPT ![r] = [request |-> request, settings |-> loaded[Api]]]
  /\ attempt' = [attempt EXCEPT ![r] = 1]
  /\ UNCHANGED <<asked, posts, holder, verdict, operatorVars, processVars>>

\* The answer is still on its way.
StartWorkflow(r, order) ==
  /\ post = "sent" /\ ~ TextIsBlank(asked)
  /\ Begins(r, order, asked)
  /\ post' = "created" /\ started' = r
  /\ UNCHANGED pending

\* Mistake: a start that nobody waits for is made again and again.
StartsLateAgain(r, order) ==
  /\ \E late \in pending : Begins(r, order, late[2]) /\ UNCHANGED pending
  /\ UNCHANGED <<post, started>>

\* The API starts the run of a request that its client has given up.
StartsLate(r, order) ==
  /\ \E late \in pending :
       Begins(r, order, late[2]) /\ pending' = pending \ {late}
  /\ UNCHANGED <<post, started>>

PostReturns ==
  /\ post = "created" /\ post' = "ok"
  /\ UNCHANGED <<asked, started, posts, pending, operatorVars, processVars, runVars>>

\* What the API makes of a request once its client has given up.
Handled ==
  IF post = "sent" /\ proc[Api] = "up" /\ ~ TextIsBlank(asked) THEN {<<posts, asked>>} ELSE {}

\* Mistake: any answer is taken for a success.
PostFailsQuietly ==
  /\ post = "sent" /\ post' = "ok" /\ pending' = pending
  /\ UNCHANGED <<asked, started, posts, operatorVars, processVars, runVars>>

\* No API, an error from the server, an answer that is lost or not waited for:
\* whoever asked cannot tell whether there is, or will be, a run, and may ask
\* again.
PostFails ==
  /\ post \in {"sent", "created"} /\ post' = "error"
  /\ pending' \in {pending, pending \cup Handled}
  /\ UNCHANGED <<asked, started, posts, operatorVars, processVars, runVars>>

-----------------------------------------------------------------------------
(* The activities *)

Open(r) == stage[r] \in {"guardrail", "erp"}
Polls(w, queue) == proc[w] = "up" /\ loaded[w].queue = queue

\* The next attempt is the server's to give out again; past the last one, if
\* there is one, the activity fails for good.
Retry(r, limit) ==
  IF limit = 0 \/ attempt[r] < limit
  THEN /\ attempt' = [attempt EXCEPT ![r] =
                       IF limit = 0 /\ @ = AttemptBound THEN @ ELSE @ + 1]
       /\ UNCHANGED stage
  ELSE /\ stage' = [stage EXCEPT ![r] = "failed"]
       /\ UNCHANGED attempt

\* Mistake: the limit of the worker at hand.
LimitOfWorkers(r) ==
  IF stage[r] = "guardrail" THEN GuardrailAttempts
  ELSE IF holder[r] \in Workers THEN loaded[holder[r]].maxAttempts
  ELSE input[r].maxAttempts

\* The retry policy is the workflow's, its limit that of the input.
Limit(r) ==
  IF stage[r] = "guardrail" THEN GuardrailAttempts ELSE input[r].maxAttempts

TaskTaken(w, r) ==
  /\ Open(r) /\ holder[r] = None /\ Polls(w, input[r].queue)
  /\ holder' = [holder EXCEPT ![r] = w]
  /\ UNCHANGED <<stage, input, origin, attempt, verdict, operatorVars,
                 processVars, clientVars>>

\* Mistake: the blocked vendors are read afresh where they are needed.
CheckAfresh(r) ==
  LET order == input[r].order IN
  IF order.vendor \in env.blockedVendors \/ order.amount > loaded[holder[r]].hardThreshold
  THEN "blocked"
  ELSE IF order.amount > input[r].threshold THEN "requires_approval" ELSE "clean"

\* check_guardrails, by the settings of the worker that executes it and the
\* threshold of the input.
Check(r) ==
  LET order == input[r].order
      settings == loaded[holder[r]] IN
  IF order.vendor \in settings.blockedVendors \/ order.amount > settings.hardThreshold
  THEN "blocked"
  ELSE IF order.amount > input[r].threshold THEN "requires_approval" ELSE "clean"

\* A request that needs a human is, in the end, submitted or closed.
GuardrailReports(r) ==
  /\ stage[r] = "guardrail" /\ holder[r] \in Workers
  /\ verdict' = [verdict EXCEPT ![r] = Check(r)]
  /\ \E next \in CASE Check(r) = "blocked" -> {"closed"}
                   [] Check(r) = "requires_approval" -> {"erp", "closed"}
                   [] OTHER -> {"erp"} :
       stage' = [stage EXCEPT ![r] = next]
  /\ attempt' = [attempt EXCEPT ![r] = IF stage'[r] = "erp" THEN 1 ELSE 0]
  /\ holder' = [holder EXCEPT ![r] = None]
  /\ UNCHANGED <<input, origin, operatorVars, processVars, clientVars>>

ErpReports(r) ==
  /\ stage[r] = "erp" /\ holder[r] \in Workers
  /\ stage' = [stage EXCEPT ![r] = "closed"]
  /\ attempt' = [attempt EXCEPT ![r] = 0]
  /\ holder' = [holder EXCEPT ![r] = None]
  /\ UNCHANGED <<input, origin, verdict, operatorVars,
                 processVars, clientVars>>

\* submit_to_erp raises, or an attempt of a dead or a slow worker times out.
AttemptFails(r) ==
  /\ Open(r)
  /\ holder[r] = "lost" \/ holder[r] \in Workers
  /\ Retry(r, Limit(r))
  /\ holder' = [holder EXCEPT ![r] = None]
  /\ UNCHANGED <<input, origin, verdict, operatorVars, processVars, clientVars>>

-----------------------------------------------------------------------------
RunStep(r) ==
  \/ \E w \in Workers : TaskTaken(w, r)
  \/ GuardrailReports(r) \/ ErpReports(r) \/ AttemptFails(r)

Next ==
  \/ Edit
  \/ \E p \in Processes : Start(p) \/ Connect(p) \/ ConnectFails(p) \/ Stop(p)
  \/ \E request \in Requests : Post(request)
  \/ BadRequest \/ PostReturns \/ PostFails
  \/ \E r \in Runs : RunStep(r)
  \/ \E r \in Runs, order \in Orders : StartWorkflow(r, order) \/ StartsLate(r, order)

Spec == Init /\ [][Next]_vars

\* Temporal dispatches, and times out, the activities of every open run.
\* Nobody has to start a process, and no process has to stay up.
FairSpec == Spec /\ \A r \in Runs : WF_vars(RunStep(r))

-----------------------------------------------------------------------------
(* Properties *)

\* A process that serves has been let in by the server, with exactly the
\* credential it was set up with: half a certificate pair, two kinds of
\* credentials, or a refusal by the server never leaves a worker polling or an
\* API answering on a client that does not work (temporal_client.py:85-134,
\* 196-211, worker.py:44-50, main.py:71-77).
UpIsConnected ==
  \A p \in Processes :
    proc[p] = "up" =>
      LET s == loaded[p] IN
      /\ demand = "certificate" => s.cert /\ s.key /\ ~ s.apiKey
      /\ demand = "api key" => s.apiKey /\ ~ s.cert /\ ~ s.key
      /\ demand = "plaintext" => s.tls = FALSE \/ ~ (s.apiKey \/ s.cert \/ s.key)
      /\ demand # "plaintext" => s.tls # FALSE /\ (s.cert <=> s.key) /\ ~ (s.apiKey /\ s.cert)

\* A POST that was answered with a run has one, started by that request; one
\* that was refused has none; and whatever was lost on the way, or comes late, there
\* is at most one run for each POST, so that whoever asks again after an error
\* risks a second run and no more than that (main.py:251-298).
AnsweredIsStarted ==
  /\ post = "ok" => started # None /\ origin[started].request = asked
  /\ post = "refused" => started = None
  /\ Cardinality({r \in Runs : stage[r] # "unborn"}) <= posts

\* What a run may do is settled when it is started: it submits to the ERP as
\* often as the API that started it was set to, whichever settings the workers
\* have that come and go, and it gives up neither earlier nor later, and never
\* if that API set no limit (models.py:156-160, main.py:277,
\* po_approval.py:448-454).
LimitsAreSettledAtStart ==
  \A r \in Runs :
    LET limit == origin[r].settings.maxAttempts IN
    stage[r] \in {"erp", "failed"} /\ verdict[r] # None =>
      /\ limit # 0 => attempt[r] <= limit
      /\ stage[r] = "failed" => limit # 0 /\ attempt[r] = limit

UpHaveSameSettings == \A p \in Processes : proc[p] = "up" => loaded[p] = loaded[Api]

HealthExplains(r) ==
  LET order == input[r].order
      threshold == origin[r].request.threshold IN
  /\ verdict[r] = "blocked" <=> \/ order.vendor \in loaded[Api].blockedVendors
                                \/ order.amount > loaded[Api].hardThreshold
  /\ threshold # None =>
       /\ verdict[r] = "clean" => order.amount <= threshold
       /\ verdict[r] = "requires_approval" => order.amount > threshold

\* What /api/health says of the blocked vendors and the hard threshold is what
\* the guardrail decides by, as soon as every process that runs has read the
\* same environment, whatever .env says by then and whoever took the earlier
\* attempts; and the threshold of the client is never replaced, zero included
\* (main.py:209-223, 271-275, guardrail.py:38-77, config.py:158-160).
VerdictsAgreeWithHealth ==
  [][\A r \in Runs :
       verdict'[r] # verdict[r] /\ proc[Api] = "up" /\ UpHaveSameSettings
         => HealthExplains(r)']_vars

Served(r) == \E w \in Workers : Polls(w, origin[r].settings.queue)

\* No limit: the ERP may turn a submission down for ever.
TriedForEver(r) == stage[r] = "erp" /\ origin[r].settings.maxAttempts = 0

\* A run gets to its end as long as some worker polls the queue of the API that
\* started it, through lost attempts, restarts and edits; under settings
\* without a limit it gets as far as the ERP (main.py:286, worker.py:62-64).
RunsAreServed ==
  \A r \in Runs : Open(r) ~> ~ Open(r) \/ ~ Served(r) \/ TriedForEver(r)
=============================================================================
