--------------------------- MODULE OperatorConsole ---------------------------
(***************************************************************************)
(* The path from a running workflow to the operator's screen and back:     *)
(* stream_workflow, _read_status and submit_decision of src/api/main.py,   *)
(* and the start of a run, the EventSource client, the approval panel and  *)
(* the decision request of src/ui/app.js.                                  *)
(*                                                                         *)
(* The workflow at the other end is ApprovalContract, which POApproval is  *)
(* shown to implement.  It moves, and it answers a query or an update,     *)
(* only while a worker is up.  A broken workflow has failed, or is open    *)
(* and wedged on a workflow task that fails, and only then answers nothing *)
(* at all.                                                                 *)
(* The screen follows one run at a time; of an earlier run only a decision *)
(* request that is still on its way is kept.                               *)
(***************************************************************************)
EXTENDS Integers, Sequences

CONSTANTS
  None,
  MaxOutages,  \* bound: how often the worker stops
  MaxDrops,    \* bound: how often the stream's connection is lost
  MaxOnWire,   \* bound: events sent and not yet handled by the browser
  MaxStarts    \* bound: how often the operator turns to another run

ASSUME BoundsAssumption ==
  /\ MaxOutages \in Nat /\ MaxDrops \in Nat /\ MaxStarts \in Nat
  /\ MaxOnWire \in Nat \ {0}

Reviewing == 1
Awaiting == 2
Submitting == 3
Closed == 4
Status == Reviewing..Closed

VARIABLES
  limit, phase, answer, booked,  \* the contract of the run on the screen
  status,     \* what the status query returns when a worker answers it
  exec,       \* WorkflowExecutionStatus: "RUNNING", "COMPLETED", "FAILED"
  worker,     \* some worker polls the task queue
  outages, drops, starts,
  server,     \* event_source: "connecting", "describe", "query", "ended",
              \* and "idle" while there is no run to stream
  described,  \* the execution status describe() returned, None outside a poll
  previous,   \* the last payload sent on this connection
  wire,       \* events on their way to the browser
  source,     \* the EventSource: "open" or "closed"
  shown,      \* the status last rendered, None before the first
  notice,     \* workerWasUnreachable: the view is said to be on hold
  enabled,    \* the approve and reject buttons
  scenarios,  \* the buttons that start a run
  following,  \* workflowId is set
  inFlight,   \* decisionInFlight
  choice,     \* the decision that is in flight
  post,       \* the decision request: "none", "sent", "accepted", "ok", "error"
  earlier,    \* it was for a run that the screen no longer follows
  orphan,     \* the update of a request that was given up, None if there is none
  unlocked    \* history: no request that failed, or was for an earlier run,
              \* has returned since this run was started

C == INSTANCE ApprovalContract

workflowVars == <<limit, phase, answer, booked, status, exec>>
workerVars == <<worker, outages>>
streamVars == <<server, described, previous, wire, drops>>
formVars == <<shown, notice, enabled>>
screenVars == <<source, scenarios, following, starts, formVars>>
postVars == <<inFlight, choice, post, earlier, orphan, unlocked>>
vars == <<workflowVars, workerVars, streamVars, screenVars, postVars>>

Payload == [exec : {"RUNNING", "COMPLETED", "FAILED"}, status : Status \cup {None}]
Event == [done : BOOLEAN, payload : Payload \cup {None}]
Choices == {"approve", "reject"}

ASSUME NoneAssumption ==
  None \notin Status \cup Payload \cup Choices \cup {"RUNNING", "COMPLETED", "FAILED"}

FlagsOK ==
  /\ worker \in BOOLEAN /\ notice \in BOOLEAN /\ enabled \in BOOLEAN
  /\ scenarios \in BOOLEAN /\ following \in BOOLEAN /\ inFlight \in BOOLEAN
  /\ earlier \in BOOLEAN /\ unlocked \in BOOLEAN

TypeOK ==
  /\ C!ContractTypeOK /\ FlagsOK
  /\ status \in Status /\ exec \in {"RUNNING", "COMPLETED", "FAILED"}
  /\ outages \in 0..MaxOutages /\ drops \in 0..MaxDrops /\ starts \in 0..MaxStarts
  /\ server \in {"connecting", "describe", "query", "ended", "idle"}
  /\ described \in {None, "RUNNING", "COMPLETED", "FAILED"}
  /\ previous \in Payload \cup {None}
  /\ wire \in Seq(Event)
  /\ source \in {"open", "closed"}
  /\ shown \in Status \cup {None}
  /\ choice \in Choices \cup {None} /\ orphan \in Choices \cup {None}
  /\ post \in {"none", "sent", "accepted", "ok", "error"}

\* startScenario has started the workflow and subscribed; the buttons are as
\* index.html has them.
Init ==
  /\ limit = 1 /\ phase = "reviewing" /\ answer = "none" /\ booked = {}
  /\ status = Reviewing /\ exec = "RUNNING"
  /\ worker = TRUE /\ outages = 0 /\ drops = 0 /\ starts = 0
  /\ server = "connecting" /\ described = None /\ previous = None /\ wire = <<>>
  /\ source = "open" /\ shown = None /\ notice = FALSE /\ enabled = TRUE
  /\ scenarios = FALSE /\ following = TRUE
  /\ inFlight = FALSE /\ choice = None /\ post = "none" /\ earlier = FALSE
  /\ orphan = None /\ unlocked = TRUE

-----------------------------------------------------------------------------
(* The workflow and its worker *)

Wedged == phase = "broken" /\ exec = "RUNNING"
Answers == worker /\ ~ Wedged
Live == following /\ Answers /\ exec = "RUNNING"

\* The status of a phase; no code reports a failure, so it stays what it was.
StatusOf(p) ==
  CASE p \in {"reviewing", "broken"} -> Reviewing
    [] p = "asking" -> Awaiting
    [] p \in {"cleared", "abandoned"} -> Submitting
    [] OTHER -> Closed

Reported ==
  /\ status' = StatusOf(phase')
  /\ exec' \in CASE phase' = "broken" -> {"FAILED", "RUNNING"}
                 [] phase' = "abandoned" -> {"FAILED"}
                 [] phase' \in {"declined", "expired", "submitted"} -> {"COMPLETED"}
                 [] OTHER -> {exec}

\* Everything the workflow does by itself, the approval deadline included.
WorkflowMoves ==
  /\ Live
  /\ C!Settle \/ C!Book(limit)
  /\ Reported
  /\ UNCHANGED <<workerVars, streamVars, screenVars, postVars>>

\* A submission that was given up reaches the ERP after the workflow's end.
ErpAcceptsLate ==
  /\ following /\ phase \in {"submitted", "abandoned"}
  /\ C!Book(limit)
  /\ UNCHANGED <<status, exec, workerVars, streamVars, screenVars, postVars>>

\* A decision from elsewhere, such as the temporal CLI.
OtherDecides ==
  /\ Live /\ \E a \in Choices : C!Answer(a)
  /\ UNCHANGED <<status, exec, workerVars, streamVars, screenVars, postVars>>

WorkerStops ==
  /\ worker /\ outages < MaxOutages
  /\ worker' = FALSE /\ outages' = outages + 1
  /\ UNCHANGED <<workflowVars, streamVars, screenVars, postVars>>

WorkerStarts ==
  /\ ~ worker
  /\ worker' = TRUE
  /\ UNCHANGED <<workflowVars, outages, streamVars, screenVars, postVars>>

-----------------------------------------------------------------------------
(* event_source and _read_status *)

Connect ==
  /\ server = "connecting" /\ source = "open"
  /\ server' = "describe" /\ previous' = None
  /\ UNCHANGED <<described, wire, drops, workflowVars, workerVars, screenVars,
                 postVars>>

\* DescribeWorkflowExecution needs no worker.
Describe ==
  /\ server = "describe" /\ Len(wire) < MaxOnWire
  /\ described' = exec
  /\ server' = "query"
  /\ UNCHANGED <<previous, wire, drops, workflowVars, workerVars, screenVars,
                 postVars>>

\* The server is unreachable: the error event ends the stream, the browser
\* connects again, and onerror lets the operator start another run.
DescribeFails ==
  /\ server = "describe" /\ drops < MaxDrops
  /\ drops' = drops + 1 /\ scenarios' = TRUE
  /\ server' = "connecting" /\ described' = None /\ previous' = None
  /\ UNCHANGED <<wire, source, following, starts, formVars, workflowVars,
                 workerVars, postVars>>

Message(payload) == [done |-> FALSE, payload |-> payload]
DoneEvent == [done |-> TRUE, payload |-> None]

\* Mistake: the done event goes out ahead of the last payload.
EmitDoneFirst(payload) ==
  LET message == IF payload # previous THEN <<Message(payload)>> ELSE <<>>
      ending == IF payload.exec # "RUNNING" THEN <<DoneEvent>> ELSE <<>>
  IN  /\ wire' = wire \o ending \o message
      /\ previous' = payload
      /\ server' = IF payload.exec # "RUNNING" THEN "ended" ELSE "describe"
      /\ described' = None

\* One payload is sent if it differs from the last; an execution that describe()
\* did not find running ends the stream.
Emit(payload) ==
  LET message == IF payload # previous THEN <<Message(payload)>> ELSE <<>>
      ending == IF payload.exec # "RUNNING" THEN <<DoneEvent>> ELSE <<>>
  IN  /\ wire' = wire \o message \o ending
      /\ previous' = payload
      /\ server' = IF payload.exec # "RUNNING" THEN "ended" ELSE "describe"
      /\ described' = None

\* Mistake: a failed query is papered over with the last known status.
QueryOrLastKnown ==
  /\ server = "query"
  /\ \E s \in IF Answers THEN {status} ELSE {IF previous = None THEN None ELSE previous.status} :
       Emit([exec |-> described, status |-> s])
  /\ UNCHANGED <<drops, workflowVars, workerVars, screenVars, postVars>>

\* With no worker the query runs into its timeout; with one it may still do.
Query ==
  /\ server = "query"
  /\ \E s \in IF Answers THEN {status, None} ELSE {None} :
       Emit([exec |-> described, status |-> s])
  /\ UNCHANGED <<drops, workflowVars, workerVars, screenVars, postVars>>

-----------------------------------------------------------------------------
(* The browser *)

\* Mistake: the buttons are left to the click handler.
RenderedButtonsAside(s) ==
  /\ shown' = s /\ notice' = FALSE
  /\ UNCHANGED enabled

\* render() of a payload with a status.
Rendered(s) ==
  /\ shown' = s /\ notice' = FALSE
  /\ enabled' = IF s = Awaiting THEN ~ inFlight ELSE enabled

\* Mistake: a payload without a status is drawn like any other.
DrawnEmpty ==
  /\ notice' = TRUE /\ shown' = None
  /\ UNCHANGED enabled

\* render() of a payload without one keeps the view and says so.
Held ==
  /\ notice' = TRUE
  /\ UNCHANGED <<shown, enabled>>

OnMessage ==
  /\ source = "open" /\ wire # <<>> /\ ~ Head(wire).done
  /\ LET s == Head(wire).payload.status
     IN IF s = None THEN Held ELSE Rendered(s)
  /\ wire' = Tail(wire)
  /\ UNCHANGED <<source, scenarios, following, starts, server, described,
                 previous, drops, workflowVars, workerVars, postVars>>

OnDone ==
  /\ source = "open" /\ wire # <<>> /\ Head(wire).done
  /\ source' = "closed" /\ wire' = Tail(wire) /\ scenarios' = TRUE
  /\ UNCHANGED <<following, starts, formVars, server, described, previous,
                 drops, workflowVars, workerVars, postVars>>

\* The connection breaks: what was on the wire is gone, an open EventSource
\* connects again by itself, and the operator may start another run meanwhile.
ConnectionLost ==
  /\ source = "open" /\ server # "connecting" /\ drops < MaxDrops
  /\ drops' = drops + 1 /\ scenarios' = TRUE
  /\ server' = "connecting" /\ wire' = <<>>
  /\ described' = None /\ previous' = None
  /\ UNCHANGED <<source, following, starts, formVars, workflowVars, workerVars,
                 postVars>>

-----------------------------------------------------------------------------
(* Starting another run *)

\* startScenario up to its request: resetView closes the stream and empties
\* the view, and leaves the decision buttons and a decision in flight alone.
StartClicked ==
  /\ scenarios /\ starts < MaxStarts
  /\ starts' = starts + 1
  /\ scenarios' = FALSE /\ following' = FALSE
  /\ source' = "closed" /\ server' = "idle" /\ wire' = <<>>
  /\ described' = None /\ previous' = None /\ shown' = None
  /\ earlier' = inFlight /\ orphan' = None /\ unlocked' = TRUE
  /\ UNCHANGED <<drops, notice, enabled, inFlight, choice, post, workflowVars,
                 workerVars>>

Started ==
  /\ ~ following /\ ~ scenarios
  /\ phase' = "reviewing" /\ answer' = "none" /\ booked' = {}
  /\ status' = Reviewing /\ exec' = "RUNNING"
  /\ following' = TRUE /\ source' = "open" /\ server' = "connecting"
  /\ UNCHANGED <<limit, described, previous, wire, drops, scenarios, starts,
                 formVars, workerVars, postVars>>

StartFails ==
  /\ ~ following /\ ~ scenarios
  /\ scenarios' = TRUE
  /\ UNCHANGED <<source, following, starts, formVars, workflowVars, workerVars,
                 streamVars, postVars>>

-----------------------------------------------------------------------------
(* The decision *)

\* sendDecision; a second click while one is in flight does nothing.
Click ==
  /\ following /\ shown = Awaiting /\ enabled /\ ~ inFlight
  /\ choice' \in Choices
  /\ inFlight' = TRUE /\ enabled' = FALSE /\ post' = "sent" /\ earlier' = FALSE
  /\ UNCHANGED <<orphan, unlocked, source, scenarios, following, starts, shown,
                 notice, workflowVars, workerVars, streamVars>>

Pending(stage) == post = stage /\ ~ earlier

\* The request is handled; what becomes of the workflow is said elsewhere.
PostBecomes(stage) ==
  /\ post' = stage
  /\ UNCHANGED <<inFlight, choice, earlier, orphan, unlocked, workerVars,
                 streamVars, screenVars>>

\* The validator lets the update pass if the workflow awaits a decision.
UpdateAccepted ==
  /\ Pending("sent") /\ Live
  /\ C!Answer(choice)
  /\ PostBecomes("accepted")
  /\ UNCHANGED <<status, exec>>

UpdateRefused ==
  /\ Pending("sent") /\ Live
  /\ phase # "asking" \/ answer # "none"
  /\ PostBecomes("error")
  /\ UNCHANGED workflowVars

\* Mistake: the update answers when it is accepted and not when the wait is
\* over.
UpdateReturnsEarly ==
  /\ Pending("accepted") /\ Answers
  /\ PostBecomes("ok")
  /\ UNCHANGED workflowVars

\* The handler returns once run() has left the wait.
UpdateReturns ==
  /\ Pending("accepted") /\ Answers
  /\ phase # "asking"
  /\ PostBecomes("ok")
  /\ UNCHANGED workflowVars

UpdateOfClosed ==
  /\ Pending("sent") /\ exec # "RUNNING"
  /\ PostBecomes("error")
  /\ UNCHANGED workflowVars

\* The request fails on the way there, the server keeping the update or not, or
\* on the way back.
RequestFails ==
  /\ post \in {"sent", "accepted", "ok"} /\ ~ earlier
  /\ post' = "error"
  /\ orphan' \in IF post = "sent" THEN {orphan, choice} ELSE {orphan}
  /\ UNCHANGED <<inFlight, choice, earlier, unlocked, workflowVars, workerVars,
                 streamVars, screenVars>>

\* The answer of a run that the screen no longer follows.
EarlierAnswered ==
  /\ earlier /\ post \in {"sent", "accepted"}
  /\ \E result \in {"ok", "error"} : PostBecomes(result)
  /\ UNCHANGED workflowVars

\* An update whose caller has given up is still delivered.
OrphanHandled ==
  /\ orphan # None /\ Live
  /\ orphan' = None
  /\ \/ C!Answer(orphan)
     \/ (phase # "asking" \/ answer # "none") /\ UNCHANGED <<limit, phase, answer, booked>>
  /\ UNCHANGED <<status, exec, inFlight, choice, post, earlier, unlocked,
                 workerVars, streamVars, screenVars>>

\* The finally branch clears the flag and leaves the buttons as they are.
PostReturns ==
  /\ post \in {"ok", "error"}
  /\ post' = "none" /\ inFlight' = FALSE /\ choice' = None /\ earlier' = FALSE
  /\ unlocked' = (unlocked /\ post = "ok" /\ ~ earlier)
  /\ UNCHANGED <<orphan, workflowVars, workerVars, streamVars, screenVars>>

-----------------------------------------------------------------------------
StreamStep == Connect \/ Describe \/ Query
BrowserStep == OnMessage \/ OnDone
PostStep ==
  \/ UpdateAccepted \/ UpdateRefused \/ UpdateReturns \/ UpdateOfClosed
  \/ EarlierAnswered \/ PostReturns
StartStep == Started \/ StartFails

Next ==
  \/ WorkflowMoves \/ ErpAcceptsLate \/ OtherDecides
  \/ WorkerStops \/ WorkerStarts
  \/ StreamStep \/ DescribeFails \/ ConnectionLost
  \/ BrowserStep
  \/ StartClicked \/ StartStep
  \/ Click \/ PostStep \/ RequestFails \/ OrphanHandled

Spec == Init /\ [][Next]_vars

\* Workers are brought back, the stream polls on, and the browser handles what
\* it gets.  A query that is tried again and again with a worker up is answered.
FairSpec ==
  /\ Spec
  /\ WF_vars(WorkerStarts) /\ WF_vars(StreamStep) /\ WF_vars(BrowserStep)
  /\ WF_vars(WorkflowMoves) /\ WF_vars(PostStep) /\ WF_vars(StartStep)
  /\ SF_vars(Query /\ Answers /\ previous' # None /\ previous'.status # None)

-----------------------------------------------------------------------------
(* Properties *)

\* A stream that ends says the truth about the end: its last payload has no
\* status, or the status the execution closed with, never an older one.  It
\* rests on describe() coming before the query (main.py:158-189, 345-359).
LastPayloadIsFinal ==
  server = "ended" /\ exec = "COMPLETED" => previous.status \in {None, Closed}

\* Within a run the screen never goes back: neither a lost worker nor a
\* reconnect replaces what is shown by something older or by nothing
\* (app.js:206-224).
ViewNeverGoesBack ==
  [][following' /\ shown # None => shown' # None /\ shown' >= shown]_vars

\* What is shown has been true of the workflow, and once the operator's answer
\* has been confirmed it is the answer on record, it has been acted on, and a
\* later failure of the workflow does not take it back: what was rejected is
\* not in the ERP (main.py:310-320, po_approval.py:168-191).
ViewIsPastOrPresent ==
  /\ shown # None => following /\ shown <= status
  /\ Pending("ok") => /\ status > Awaiting /\ answer = choice
                      /\ choice = "reject" => phase = "declined" /\ booked = {}

\* The decision buttons are locked on a run that still waits for a decision
\* only while a request is in flight, or after one failed or came back from
\* the run that was followed before: nothing else takes the decision out of
\* the operator's hands (app.js:504-505, 539-563).
LockIsExplained ==
  shown = Awaiting /\ status = Awaiting /\ answer = "none" /\ ~ enabled
    => inFlight \/ ~ unlocked

\* A closed workflow is shown as closed, unless the last payload of its stream
\* had no status, or the operator turns to another run
\* (main.py:331-360, app.js:171-191).
ClosedIsShown ==
  exec = "COMPLETED" /\ following ~>
    \/ shown = Closed
    \/ server = "ended" /\ previous.status = None
    \/ ~ following
=============================================================================
