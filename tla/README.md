# Verification of the durable purchase order approval demo

TLA+ models of the program under `src/`, model-checked with TLC, and theorems
about them checked with TLAPS.

## 1. Inventory

### The parts and how they interact

A client (browser, script or the `temporal` CLI) starts one execution of
`POApprovalWorkflow` per purchase order. The workflow awaits activities that
workers run and the Temporal server hands out: five agents, the deterministic
guardrail and the ERP submission. The browser learns about the workflow through
an event stream of the API, which polls `describe()` and the `status` query, and
answers through an update. Nothing but the server keeps state across crashes.

| Part | State | Operations | Interacts through |
|---|---|---|---|
| Workflow (`workflows/po_approval.py`) | state, current step, step ledger, facts, decision | `run`, update `submit_decision` and its validator, signal `decide`, query `status`, deadline | activities; updates and signals |
| Guardrail, ERP (`activities/`) | none (the ERP keeps what it accepted) | one attempt at a time, retried by the server | activity results |
| Agents (`agents/react_agent.py` and five agents) | messages, turns, finding | `call_model`, `run_tools`, router | activities per node, router on the workflow thread |
| Specialists, supervisor, their tools (`agents/`) | vendor registry, cached | three tools, `to_finding`, `to_verdict` | tool calls of the turn loop; findings go to the workflow |
| API (`api/main.py`) | its client; last payload per connection | start-up, `start_workflow`, `_read_status`, `event_source`, decision route | start, query, describe, update; server-sent events |
| Browser (`ui/app.js`) | view, hold notice, buttons, request in flight | `startScenario`, `subscribe`, `render`, `sendDecision` | event stream, POST |
| Worker (`worker.py`) | its client, the tasks it holds | start, poll, end | task queue |
| Configuration, connection (`common/config.py`, `common/temporal_client.py`) | the settings each process has cached | `get_settings`, `build_tls_config`, `connect` | environment, credential files, server |
| Crash demo (`scripts/crash_demo.py`) | its worker process, counts | two runs, a kill, a comparison | task queue, history |
| Extraction agent (`agents/extraction_graph.py`, `common/bedrock.py`) | raw text, extracted figures | `extract_po` under two retry policies, `normalize` | Bedrock; its total is what the guardrail judges |
| Scenario runner (`scripts/run_scenario.py`) | none that lasts | start, poll, decide, wait for the result | query, update, result |
| Clean-up script (`scripts/cleanup.sh`) | none that lasts | select, walk, signal, verify | the process table |
| Preflight, Bedrock check | none | sequential scripts | external services |
| Scenarios, data | constants | - | imported |

### What is hard, and what makes each part correct

* Workflow: handlers run between awaits, and several of them before `run()` is
  resumed; a deadline races decisions; rules, supervisor and thresholds overlap;
  the ERP may have taken an order nobody hears of. Correct is: nothing is booked
  that was not cleared; the outcome, the step ledger and the reply of an update
  follow from the recorded facts; a decision is final; every request closes.
* Agents: the other party is a model that may answer anything. Correct is: the
  loop ends, its cost is bounded, and no message history is sent that the model
  API rejects.
* API and browser: two reads that are not atomic, lost workers and connections,
  requests that fail on the way back or belong to a run that is no longer looked
  at. Correct is: the view of a run never goes back, is never ahead of the workflow,
  and ends with the end of the workflow; what locks the operator's buttons has a
  reason.
* Crash demo: a worker killed at any point. Correct is: finished work is not
  repeated, a crash costs at most the attempts in flight, and the interruption
  that the demo shows is real.
* Specialists: three components compare vendor names, each in its own way, and a
  model chooses the names it asks about. Correct is: they mean one vendor, and no
  concern is lost between an answer and the verdict.
* Configuration: each process keeps the environment as it was when it started, and
  a start request may be answered, lost or repeated. Correct is: what serves has
  been let in with the credential it was set up with, a run's limits are settled
  when it starts, the health page tells by what the guardrail decides, and every
  run is served as long as a worker polls its queue.
* Extraction: a model may leave any figure blank, and two layers retry. Correct is:
  the total is the stated one, or else the value of the lines, and the number of
  requests is bounded.
* Scenario runner: it races the deadline and other reviewers. Correct is: a
  decision that it has announced is the one that counts, and its exit code and
  report are those of the closed request.
* Clean-up script: processes start and end while it looks at them. Correct is: it
  stops what is this checkout's and nothing else, kills only what ignored the
  request to end, and its exit code is true.

The list of hazards, each at its line and with the properties that would catch
it, is in `PROJECT.json`.

## 2. Modules

### POApproval: the workflow

One action is one workflow activation, from the await that was resolved to the
next await: between them nothing can be observed. The exception is the moment
after a handler has run and before `run()` is resumed, so `SubmitDecision` and
`Decide` are actions of their own and a second one may come before
`ReviewerApproved` or `ReviewerRejected`. `pc` names the await. `state`,
`currentStep`, `step`, `extracted`, `findings`, `supervisor`, `guardrail`,
`decision` and `erp` are the fields of the object; `exec` is the execution as the
server sees it; `guardAttempt`, `erpAttempt`, `erpTask` and `booked` are the
activities and the ERP; `update` and `reply` are the callers.

* `_begin`, `_finish` and `_skip` appear as what they do to `step` and
  `currentStep`; `_result` is `Close`.
* The deadline (`DeadlinePasses`) is looked at in an activation whose updates and
  signals have been applied first, as the SDK does, hence only without a decision.
* Everything a worker's death can do is an attempt that is lost
  (`GuardrailAttemptLost`, `ErpAttemptLost`); the workflow itself is rebuilt from
  history and unchanged. An ERP attempt may be lost after it was accepted, and one that
  was only too slow may be accepted later (`late`, `ErpAcceptsLate`), during another
  attempt or after the end of the workflow.
* `maxAttempts` may be 0, which the code accepts and Temporal takes for no limit
  (`Unlimited`, `Allowed`). Then attempts are told apart up to `AttemptBound`, and
  those after it count as that one.
* An agent completes, fails for good, or, if it has no tools, wedges: see
  ReactAgent. After a permanent failure the fields stay as they are, and the
  status query still answers with them.
* Abstracted: figures are small numbers, vendors are spellings with a canonical
  name (`Canonical` is `strip().lower()`), texts and times are left out.

### ApprovalContract: what a client is promised

Reviewing, asking, cleared, and the ways to end: declined, expired, submitted, broken by
an agent or an activity before the order was cleared, or abandoned after the last
attempt at the ERP. A submission that was taken to be lost may be booked after the last
two of these (`Bookable`). `POApproval` instantiates it with `Phase` and
`AnswerOnRecord`, and implements it: safety is also proved, progress is checked. Under a
limit of 0 it does not promise when a submission ends (`Promised`).

### ReactAgent: the turn loop

`node` is the graph node in flight. The model is the environment: each turn it
returns a valid, malformed or absent finding with any set of tool names, known or
not. `ModelAnswers` is the rest of `call_model` and the router. Which tools are
bound on a turn has no effect in the model, because it has none in the code: a
call of a name that was not bound is accepted all the same. `invocations` counts Bedrock
calls, those of lost attempts included; it stops one above the bound
that is checked.

### OperatorConsole: stream, screen and decision request

At the other end stands `ApprovalContract` (`C`): the workflow moves by the contract's
`Settle` and `Book` and takes a decision by its `Answer`, and `Reported` gives the
status and the execution status that clients read (1 reviewing to 4 closed). So what
the console relies on is what `POApproval` is shown to implement. `server`,
`described` and `previous` are `event_source`; `wire` is what was sent and not
handled; `source`, `shown`, `notice`, `enabled`, `scenarios` and `following` are the
browser; `post` and `choice` are the decision request, and `orphan` is an update that
the server still delivers after its caller has given up. Of a failed execution the
status stays what it was, and only a wedged one answers no query (`Wedged`). `describe()`
and the query are two actions, because the workflow may move between them.

The operator may turn to another run when the stream has ended or been interrupted.
`StartClicked` (`resetView`) and `Started` are two actions; a decision request for the
run that was left stays in flight (`earlier`), and its return clears the flag of the
run that is shown. `unlocked` is a history variable: it remembers that no request
has failed, or come back from an earlier run.

### CrashDemo: the demo, its workers and the history

`scheduled`, `closed` and `applied` are what history holds of each specialist, and
what the workflow has seen of it; `task` and `attempt` are the pending activity.
A killed worker's attempts become `"orphaned"` and end only by their timeout. The
server's rules (one scheduled event per activity, none per retry; a task
goes to one live worker) are external and modelled as the script relies on them.
Pass 1 of the demo is one step. Another worker may be there before the script
starts; none is started during it, as its documentation asks.

### Extraction: the figures of an order

`node` is the graph's node, `attempt` the activity's attempt, `sent` the requests of
that attempt and `requests` those of all. The thread of an attempt that has timed out
may go on with what is left of its SDK retries (`late`, `LateInvoke`), beside the
attempts that follow. Money is counted in tenths of a cent, so that rounding to cents
shows; a tie may go either way, because a float that prints as a half cent lies on
either side of it. What the model answers is any order over the given figures, 0 for a
blank one. The retries of the SDK client are external: `SdkRetries` is botocore's
`max_attempts`, which counts the retries after the initial request. (`invocations` of
ReactAgent counts `invoke()` calls, each of which may be two such requests.) Names,
currency and notes are left out.

### ScenarioRunner: the script and the workflow

It extends POApproval: the script is its reviewer `Cli`, whose update is handled by
`SubmitDecision` or `ValidatorRejects` of the workflow, in the same batches as the
others'. `Post` and `UpdateArrives` are two actions, since an update may arrive long
after its call has raised. `script` is the line `main()` stands at. A query, an
update call or the wait for the result may raise, and ends the script with a
traceback and exit code 1. It starts with the workflow started: an error before
that leaves nothing behind.

### Cleanup: the script among processes

`born`, `alive` and `parent` are the process table, in which processes start, end and
are adopted by pid 1 at any time. The script's `ps`, `pgrep` and `kill` are steps of
their own: the way up from the script (`Protect`), the candidates of each pattern
(`Pgrep`), the questions about one candidate (`Choose`, and `ChooseEnding` for one
that ends between the questions for its directory and its terminal), the children
of one process (`Walk`), one signal (`Signal`, `Insist`), one look at all targets
(`Look`). `ps` prints what it prints on macOS, for which the script is written
(`??` for no terminal). Pids are not reused. Both `--worker` and `--api` leave no
pattern, which old versions of bash take for an error.

### Deployment: processes, settings and requests

`env` and `files` are what a process would read if it started now, `loaded` what each
has cached. `Start`, `Connect`, `ConnectFails` and `Stop` are the life of a worker or of
the API; `Offer` is `TlsEnabled`, `build_tls_config` and the API key, and the server
(`Accepts`, external) insists on one kind of credential. `post` is one client's start
request, which may fail before or after the server has the run; `pending` are requests
whose client has given up and which the API may still serve (`StartsLate`), until it
ends; `input` is the `POWorkflowInput`, and `origin` remembers what the run was started
from. Of a run the guardrail and the ERP step are left, the two that depend on settings:
an attempt is taken by a worker that polls the run's queue (`TaskTaken`), executed by
that worker's settings (`Check`) and retried up to the limit of the input (`Limit`),
where 0 is none. The human's decision is a choice of `GuardrailReports`. Paths and keys
are only set or not set.

### Review: tools, findings and the verdict

A name is an opaque value with the two normal forms the code gives it: `Fold`
(`strip().lower()`, the guardrail's) and `Norm` (letters and digits, the tools');
`Inside` is containment of the latter. `MatchVendor` is `_match_vendor`, over a
registry in any order; each tool call adds to `evidence`, the answer included. Agents
report any finding that fits their schema, and `severity` and `verdict` are what
`to_finding` and `to_verdict` make of it. When agents run is `POApproval`'s.

## 3. Runs

| Run | Instance | Shows |
|---|---|---|
| `approval` | two reviewers, amounts 1 to 4 around thresholds 1 and 3, overrides on both sides, blocked, unblocked and empty vendor, 0, 1 or 3 seeded failures, 1, 3 or any number of attempts | safety, action property and contract |
| `approval_failure` | as above | `FailureIsReported` fails |
| `agent` | the source's limits: 6 turns, 5 attempts, 3 for tools; an agent with two tools and one with none | cost, answers, routing, termination |
| `console` | one outage, one lost connection, one change to another run, two events on the wire | view, lock and stream properties; a closed run is shown as closed |
| `crash_demo` | two specialists of up to three activities, two attempts, up to two slow attempts | durability and the demo's course |
| `crash_demo_counts` | up to two activities | a claim of the script's comment fails |
| `scenario_runner` | the script and one more reviewer, two polls, an amount on and one above the threshold, one, two or any number of attempts at the ERP | the script's promises and its end; the progress of the workflow |
| `scenario_runner_pause` | same | a claim of its comment and help fails |
| `cleanup` | six processes: a shell with the script and a worker in its terminal, an API with its reload child, a worker of another checkout; all options; two looks | selection, signals, exit code |
| `extraction` | five attempts, one SDK retry, up to two lines over blanks, credits and half cents | cost and totals |
| `deployment` | a worker, the API, four environments at first and one edit, two runs, a server that insists on TLS, up to two attempts or no limit | connection, start, limits, verdicts, service |
| `review` | three registered names that contain each other, in every order, three other spellings, two different tool calls | one vendor under a name, concerns kept |

Why the bounds are enough. The workflow has one decision slot, so two reviewers show
every race; four amounts lie below, on and above both thresholds, and the overrides put
the approval threshold below, at and above the hard limit; three attempts are enough to
lose an accepted submission and have another one accepted. Without a limit, attempts
past `AttemptBound` (3 in the approval runs, 2 in the others) only repeat what the last
one counted can do. The agent run uses the real limits. One outage and one lost
connection can fall into every step of the stream, and one change of run lets a request,
an orphaned update and the buttons of the old run meet the new one. Two specialists are
the least that make a fan-out partial: one done, one in flight. Two polls let the script
look before, at and after the pause, and give up before it. Six processes hold one of
each kind that the script tells apart, and one of each relation; two looks are the least
with one that is not the last. One worker that stops and starts again is, by the
settings it has, another worker; one edit makes two environments meet in any mixture of
worker, API and run, and two runs are a request and its repetition. Three of the four
first environments are mistakes, which the edit corrects: half a certificate pair, two
kinds of credential, and TLS turned off. Other combinations and other demands of a
server are left to `ConnectionSafety`. The one order is below the hard threshold, so
what this threshold does to a verdict is left to the theorem. Two tool calls are what
the properties of the tools compare; three names are the least with one that contains
two others. Two lines are enough for a sum of a filled and a stated amount that cancel
out; the figures hold ties, credits and blanks.

`CHECK_DEADLOCK FALSE` is set everywhere because every system here stops: a
workflow closes, a graph ends, a script exits.

### Fairness

* `POApproval!FairSpec`: weak fairness of everything workers and the server do
  (a worker polls, activities have start-to-close timeouts, the deadline is a
  durable timer). Reviewers are never obliged to act, nor is an attempt that was given
  up obliged to reach the ERP. Nothing ends a submission under a limit of 0: the
  contract promises no end of it, `KeepsPromisesInTime` and `ScriptEnds` except it.
* `ReactAgent!FairSpec`: weak fairness of the loop, for the same reason. Which
  answer the model gives is never fair.
* `OperatorConsole!FairSpec`: workers come back, the stream polls, the browser
  handles events, requests and starts return. A query with a worker up may time out,
  but one that is repeated for ever is answered (strong fairness). The operator is
  never obliged to click.
* `Deployment!FairSpec`: the server hands out and times out the activities of every
  open run. Nobody has to start a process or to keep one up; `RunsAreServed` therefore
  promises a run's end only while some worker polls its queue, and a run without a limit
  only that it gets to the ERP.
* `ScenarioRunner!FairRunnerSpec`: the fairness of the workflow's server side, and a
  script whose calls return or raise. The other reviewer is never obliged to act.
  The workflow's own progress is checked here, too: its callers' fairness is no help,
  as the script may end before it decides.
* `CrashDemo!FairSpec`: workers take and finish tasks, timeouts fire, the script goes on.

## 4. Proofs

Each `*Proofs` module proves theorems for all values of the constants that satisfy the
named assumptions of the module it extends. None of the invariants below is inductive
by itself; each module has an `IInv`, shows that every action preserves it, one lemma
for an action or a group of them, and derives the properties.

| Module | Theorems state | What `IInv` adds |
|---|---|---|
| `POApprovalProofs` | `TypeOK`, `BookedOnlyIfCleared`, `OutcomeIsJustified`, `ReplyIsTheCallersOwn`, `ConfirmationIsTheLatest`, `LedgerAgreesWithOutcome`, `CurrentStepIsInProgress`, `DecisionIsFinal`, `ImplementsContract`, `Contract!Promise`; of `ScenarioRunner` `AnnouncedDecisionStands`, `ExpiryWasNotSeen`, `ExitZeroMeansClosed` | what `run()` has established at each await (`StageInv`), what the ERP may hold (`BookingInv`), what callers wait for or were told (`CallerInv`), what the ledger says at each await (`StepInv`), and what the script knows at each of its steps (`RunnerInv`) |
| `ReactAgentProofs` | `IInv`, `CostIsBounded`, `EveryCallIsAnswered`, `EndsWithFinding`, `WedgesOnlyWithoutTools` | the calls made so far are those of the turns taken and of the current turn's attempts |
| `ExtractionProofs` | `CostIsBounded`, `StatedTotalIsKept`, `GuardrailsSeeTheOrder` | the account of the requests (`AccountInv`): those made, those that given-up attempts may still send and those left to the attempts to come are within both policies multiplied; the rest is about `Sum` |
| `CleanupProofs` | `TypeOK`, `OnlyOursAreStopped`, `ExitCodeIsTrue`, `KillIsTheLastResort` | who is above the script (`LineInv`), that each root and target descends from a wanted process (`Ours`), and which signals the targets have been sent (`SignalInv`) |
| `DeploymentProofs` | `TypeOK`, `UpIsConnected`, `AnsweredIsStarted`, `LimitsAreSettledAtStart`, `VerdictsAgreeWithHealth` | what a run's input owes to its origin, where an attempt may stand, and that runs are drawn one for each POST |
| `ReviewProofs` | `TypeOK`, `ToolsTellOneVendor`, `GuardrailVendorIsFound`, `ConcernsAreHeard` | each answer of a tool is `MatchVendor`'s, each level is that of the answer it was made from |
| `OperatorConsoleProofs` | `TypeOK`, `C!Promise`, `LastPayloadIsFinal`, `ViewIsPastOrPresent`, `LockIsExplained`, `ViewNeverGoesBack` | the events on the wire are sorted, and lie between what is shown and what is so; what a poll has read of an end is still so; whose the request is |
| `CrashDemoProofs` | `TypeOK`, `CrashCostsOneAttempt`, `FinishedWorkIsNotRepeated`, `InterruptionIsReal` | the account of a specialist: every attempt was completed, too slow, lost in a crash, or is being run |

Along which lines the longer arguments go:

* The contract. `ImplementsContract` maps every action of the workflow to a step of the
  contract or a stutter, and `PromiseKept` draws the client's view from it
  (`Promise`: what a human rejected is not in the ERP, what is called submitted is).
  `RunsFollowContract` shows that each step of the console is a step of the contract or
  the start of another run, so `Promise` holds of every run on the screen, and gives
  the last part of `ViewIsPastOrPresent`: a rejection that the screen has confirmed
  is a run that is declined with nothing in the ERP.
* `LargerIsNotMilder` is about the guardrail's rules alone: they are monotone in the
  amount, and no threshold of a request gets an order past the hard limit.
* `DriverKeepsWorkflow` shows that the scenario runner adds no behaviour to the workflow,
  so every theorem about POApproval holds beside it.
* How long a run takes. `StepsLeft` counts down: `RunsAreShort` proves, for a retry
  policy with a limit, that it is at most 2 * `maxAttempts` + 10, that every step of
  workers and server lowers it, whatever fails or is lost, that reviewers and late
  submissions do not touch it, and that it is 0 only if the execution is not open.
  `LoopIsShort` says the same of an agent, whatever its model answers: `MAX_TURNS` turns
  with every attempt of both nodes, and the attempts of the turn that is refused.
  `WorkIsBounded` bounds the runs of each specialist of the crash demo by its activities
  times `MaxAttempts`, however many workers die. That what can go on does go on is
  fairness, and left to TLC.
* The processes of the clean-up script. `Upwards` is the least set that is closed under
  the parent relation, so nothing needs to be climbed by recursion. A living process
  keeps its parent or falls to launchd (`Older`), which keeps a line that has been
  protected protected; and what a process has started descends from it for ever by
  `Creator`, however often it is adopted (`UpwardsGrows`, `ChildrenAreOurs`).
* The total of an order. `Sum` is a recursive function on the number of lines taken.
  The library's induction rules need an operator as a parameter, which the provers
  cannot instantiate, so the induction is on the set of the numbers of lines for which
  a claim holds: a counterexample would have a least one (`UpToInduction`, from
  `WFMin`). With it `SumsAreNear` shows that two sums of n lines that differ by at most a
  rounding on each line differ by n roundings, the tolerance `GuardrailsSeeTheOrder` grants.

Only model-checked: liveness under fairness (`AcceptedUpdateIsAnswered`,
`KeepsPromisesInTime`, `LoopEnds`, `ClosedIsShown`, `DemoEnds`, `ScriptEnds`,
`RunsAreServed`), which TLAPS cannot reach. Every invariant and every action property
of a passing run is a theorem.

## 5. Where code and documentation disagree

Three have a run that ends in a counterexample; `PROJECT.json` quotes the lines.

1. A failed execution is never reported as failed by the status query
   (`FailureIsReported`).
2. The demo's counts do not count retried attempts (`CountsAreExecutions`).
3. The scenario runner stops looking for the pause after a minute, and its request
   then expires (`PauseGetsTheDecision`).

The models follow the code in these as well, without a run of their own:

* Withholding the tools does not force an agent to conclude (`README.md:594-596`,
  `react_agent.py:150`): a call of a tool that was not bound is carried out all the
  same (`ModelAnswers`).
* The hold notice may stay for ever (`main.py:353`, `app.js:213-217`): the stream ends
  with the execution even if its last query went unanswered (`Query`, `OnDone`).
* The API always passes a threshold to the run, that of the scenario if the request has
  none, so `PO_APPROVAL_THRESHOLD` never affects a run that the API or the scenario
  runner starts, while `/api/health` shows it (`ThresholdOf`).
* A lone CA bundle or server name does not turn TLS on (`config.py:28-31`,
  `TlsEnabled`), and an API key with TLS forced off is not refused (`Offer`).
* `lookup_vendor` promises a not-found result for a vendor that is not registered at
  all, but a name that contains a registered one, or is contained in one, gets that
  one's record (`MatchVendor`).
* A risk rating with spaces around it is a caution whatever it says, while the
  supervisor's recommendation may have them (`Ratings`, `ParseRecommendation`).
* Some settings and inputs have no effect: `bedrock_model_extraction` (`config.py:98`;
  `extraction_graph.py:115` builds the default model) and `ERP_SEEDED_FAILURES`
  (`config.py:130`) steer nothing, and the policy agent's `vendor_context` is always
  empty (`po_approval.py:311`). `check_bedrock.py:8` says that exit code 0 means the
  demo can run, but does not look at the models set for single agents.
* An agent without tools is not limited to its "single turn"
  (`react_agent.py:326`): prose sends it round again, and a call of another name
  to a node its graph lacks (`Follow`), which gets its workflow stuck for good.
  `IInv` and `LoopEnds` keep that to such agents and calls.
* After a failed decision request the buttons stay disabled (`app.js:560`,
  `PostReturns`), although "you never need to refresh" (`README.md:312`).
  `LockIsExplained` therefore takes a failed request for an explanation.
* A request that fails on its way back is shown as "not accepted" (`app.js:560`), though
  its decision may count. `ViewIsPastOrPresent` is about what the screen confirms, not
  about that message.
* The crash demo "starts and kills its own worker" (`crash_demo.py:12`), but leaves
  it running when a run fails (`BaselineRaises`, `ResultRaises`).
* By default the clean-up script stops any process without a terminal, whether or
  not it was "reparented to PID 1" (`cleanup.sh:17`, `Choose`).
* It never stops a reload child whose supervisor is gone, as it leaves children to
  a walk from their supervisor (`cleanup.sh:97`, `Choose`).
* "The SDK-level client must not retry" (`bedrock.py:24`), but `max_attempts` of
  botocore is the number of retries after the first request (`Invoke`).

## 6. Not modelled, and why

* Preflight and Bedrock check: calls of external services in a fixed order, without
  state, retries or concurrency. A model would restate the sequence.
* Scenario texts and data files: constants, which the models take as constants.
* Addresses, model ids, log lines, advice on connection errors, the sandbox's runner,
  layout, wording and the telemetry tables: no property is about them. The routes of
  the API that return constants or files have no state.
* Prompts, and what a model makes of them: a model may answer anything.
* A negative `ERP_MAX_ATTEMPTS`: config and workflow input accept it, and Temporal's
  `RetryPolicy` refuses it when the submission is scheduled, so the workflow task fails
  again and again, as after a wedge. The models take a natural number.
* What becomes of a wedged workflow: `LoopEnds` is about the agent's loop, for which the
  wedge of an agent without tools is an end, while the workflow it belongs to is never
  closed (`exec` stays `"wedged"` in POApproval). Nor does Deployment have agents:
  `RunsAreServed` is about queues and the ERP.
* Liveness of the browser after a failed start or decision request: the operator is
  not obliged to act.

## 7. Plan

Done: POApproval with ApprovalContract, ReactAgent, ScenarioRunner, Extraction,
Deployment, Review, OperatorConsole over ApprovalContract, CrashDemo and Cleanup, each
with proofs of all its safety properties.

Left, in this order:

1. Bounds like `StepsLeft` for the other systems that end: the crash demo, a sum over
   its specialists, and the clean-up script, over its processes.
2. A second open stream on one run, and two browsers with one decision each: the
   contract already answers both, the console has one.
3. The guardrail of POApproval over the settings of Deployment, as one module, if
   the state space allows.
