----------------------------- MODULE POApproval -----------------------------
(***************************************************************************)
(* The purchase order workflow of src/workflows/po_approval.py: one        *)
(* execution of POApprovalWorkflow with its main coroutine, its update and *)
(* signal handlers, the approval deadline, and the activities it awaits.   *)
(*                                                                         *)
(* One action is one workflow activation: the main coroutine runs from the *)
(* await that was resolved to the next await, and nothing of it can be     *)
(* seen in between.  The one place where a half-done activation is visible *)
(* is after a handler has run and before the main coroutine has been       *)
(* resumed: the SDK applies every update and signal of a batch first, so a *)
(* second handler may see the decision of the first.                       *)
(*                                                                         *)
(* An agent is a single action here; its turns are in ReactAgent.          *)
(***************************************************************************)
EXTENDS Integers, FiniteSets

CONSTANTS
  None,               \* Python's None: not set yet
  Reviewers,          \* clients that may send a decision
  Vendors,            \* vendor spellings the extraction agent may return
  Canonical,          \* [Vendors -> names]: vendor.strip().lower()
  EmptyVendor,        \* the canonical name that is the empty string
  BlockedVendors,     \* settings.blocked_vendor_list, canonical names
  Amounts,            \* totals the extraction agent may return
  ApprovalThreshold,  \* settings.po_approval_threshold
  HardThreshold,      \* settings.po_hard_block_threshold
  ThresholdOverrides, \* values of input.approval_threshold other than None
  SeededFailures,     \* values of input.erp_seeded_failures
  ErpMaxAttempts,     \* values of input.erp_max_attempts; 0 sets no limit
  AttemptBound        \* bound: attempts counted when there is no limit

Specialists == {"vendor_risk", "policy_compliance", "duplicate_detection"}
Steps == {"extract", "supervisor", "guardrail", "approval", "erp"} \cup Specialists

\* Agents without tools: their graph has no "run_tools" branch.
ToolLessAgents == {"policy_compliance", "supervisor"}

StepStatus == {"pending", "running", "completed", "failed", "skipped", "waiting"}

ClosedStates == {"submitted", "rejected_by_policy", "rejected_by_supervisor",
                 "rejected_by_human", "approval_timed_out"}
WorkflowState == {"running", "awaiting_approval", "failed"} \cup ClosedStates

Recommendation == {"auto_approve", "escalate_to_human", "reject"}
GuardrailResult == {"clean", "requires_approval", "blocked"}
Decision == [approved : BOOLEAN, by : Reviewers]
ExtractedPO == [vendor : Vendors, amount : Amounts]
Input == [threshold : ThresholdOverrides \cup {None},
          seeded : SeededFailures, maxAttempts : ErpMaxAttempts]

\* The retry limit of check_guardrails.
GuardrailMaxAttempts == 3

ASSUME NoneAssumption ==
  /\ None \notin Decision \cup ExtractedPO \cup Recommendation \cup GuardrailResult
  /\ None \notin Nat
  /\ None \notin Steps
  /\ None \notin [state : WorkflowState, decision : Decision]

ASSUME PolicyAssumption ==
  /\ DOMAIN Canonical = Vendors
  /\ EmptyVendor \notin BlockedVendors   \* config.py drops empty entries
  /\ Amounts \subseteq Nat /\ ThresholdOverrides \subseteq Nat
  /\ ApprovalThreshold \in Nat /\ HardThreshold \in Nat

ASSUME AttemptAssumption ==
  /\ SeededFailures \subseteq Nat /\ ErpMaxAttempts \subseteq Nat
  /\ AttemptBound \in Nat \ {0}

VARIABLES
  input,         \* POWorkflowInput
  exec,          \* the execution as the server sees it; "wedged" is an open
                 \* execution whose workflow task fails on every attempt
  pc,            \* the await the main coroutine is parked at
  state,         \* _state
  currentStep,   \* _current_step
  step,          \* _steps, the status of each
  extracted,     \* _extracted
  findings,      \* the keys of _findings
  supervisor,    \* _supervisor.recommendation
  guardrail,     \* _guardrail
  decision,      \* _decision
  erp,           \* _erp: the attempt whose confirmation was recorded
  guardAttempt,  \* attempt of check_guardrails in flight, 0 before it starts
  erpAttempt,    \* attempt of submit_to_erp in flight, 0 before it starts
  erpTask,       \* "none", "running", or "accepted" once the ERP has taken it
  booked,        \* attempts whose submission the ERP accepted
  late,          \* attempts given up whose worker may still submit
  update,        \* [Reviewers -> what became of the reviewer's update]
  reply          \* [Reviewers -> status the update call returned]

runVars == <<exec, pc, state, currentStep, step>>
factVars == <<extracted, findings, supervisor, guardrail, erp>>
activityVars == <<guardAttempt, erpAttempt, erpTask, booked, late>>
callerVars == <<update, reply>>
vars == <<input, runVars, factVars, decision, activityVars, callerVars>>

Reply == [state : WorkflowState, decision : Decision]

TypeOK ==
  /\ input \in Input
  /\ exec \in {"running", "wedged", "completed", "failed"}
  /\ pc \in {"start", "extract", "specialists", "supervise", "guardrail",
             "approval", "erp", "done"}
  /\ state \in WorkflowState
  /\ currentStep \in Steps \cup {None}
  /\ step \in [Steps -> StepStatus]
  /\ extracted \in ExtractedPO \cup {None}
  /\ findings \in SUBSET (Specialists \cup {"supervisor"})
  /\ supervisor \in Recommendation \cup {None}
  /\ guardrail \in GuardrailResult \cup {None}
  /\ decision \in Decision \cup {None}
  /\ erp \in Nat \cup {None}
  /\ guardAttempt \in Nat /\ erpAttempt \in Nat
  /\ erpTask \in {"none", "running", "accepted"}
  /\ booked \in SUBSET Nat /\ late \in SUBSET Nat
  /\ update \in [Reviewers -> {"idle", "accepted", "rejected", "replied"}]
  /\ reply \in [Reviewers -> Reply \cup {None}]

Init ==
  /\ input \in Input
  /\ exec = "running" /\ pc = "start"
  /\ state = "running" /\ currentStep = None
  /\ step = [s \in Steps |-> "pending"]
  /\ extracted = None /\ findings = {} /\ supervisor = None /\ guardrail = None
  /\ decision = None /\ erp = None
  /\ guardAttempt = 0 /\ erpAttempt = 0 /\ erpTask = "none"
  /\ booked = {} /\ late = {}
  /\ update = [c \in Reviewers |-> "idle"]
  /\ reply = [c \in Reviewers |-> None]

-----------------------------------------------------------------------------
(* check_guardrails, the deterministic rules *)

VendorIsBlocked(v) == Canonical[v] # EmptyVendor /\ Canonical[v] \in BlockedVendors

Threshold == IF input.threshold = None THEN ApprovalThreshold ELSE input.threshold

\* Mistake: the approval threshold is looked at before the hard limit.
ApprovalBeforeHardLimit(po) ==
  IF VendorIsBlocked(po.vendor) THEN "blocked"
  ELSE IF po.amount > Threshold THEN "requires_approval"
  ELSE IF po.amount > HardThreshold THEN "blocked"
  ELSE "clean"

CheckGuardrails(po) ==
  IF VendorIsBlocked(po.vendor) \/ po.amount > HardThreshold THEN "blocked"
  ELSE IF po.amount > Threshold THEN "requires_approval"
  ELSE "clean"

NeedsHuman(recommendation, result) ==
  recommendation = "escalate_to_human" \/ result = "requires_approval"

-----------------------------------------------------------------------------
(* The main coroutine *)

Parked(at) == exec = "running" /\ pc = at

\* Mistake: _finish leaves _current_step alone.
KeepCurrent(name) == currentStep

\* _finish clears _current_step only when it still names the finished step.
ClearCurrent(name) == IF currentStep = name THEN None ELSE currentStep

\* A close with _result: no step is current and the outcome is final.
Close(outcome) ==
  /\ exec' = "completed" /\ pc' = "done"
  /\ state' = outcome /\ currentStep' = None

RunStarts ==
  /\ Parked("start")
  /\ pc' = "extract"
  /\ step' = [step EXCEPT !["extract"] = "running"]
  /\ currentStep' = "extract"
  /\ UNCHANGED <<input, exec, state, factVars, decision, activityVars, callerVars>>

\* The three specialists begin in gather order, so the last one names the
\* current step.
ExtractCompletes ==
  /\ Parked("extract")
  /\ extracted' \in ExtractedPO
  /\ step' = [s \in Steps |-> CASE s = "extract" -> "completed"
                                [] s \in Specialists -> "running"
                                [] OTHER -> step[s]]
  /\ currentStep' = "duplicate_detection"
  /\ pc' = "specialists"
  /\ UNCHANGED <<input, exec, state, findings, supervisor, guardrail, erp,
                 decision, activityVars, callerVars>>

SpecialistCompletes(s) ==
  /\ Parked("specialists")
  /\ step[s] = "running"
  /\ findings' = findings \cup {s}
  /\ IF Specialists \subseteq findings'
     THEN /\ step' = [step EXCEPT ![s] = "completed", !["supervisor"] = "running"]
          /\ currentStep' = "supervisor"
          /\ pc' = "supervise"
     ELSE /\ step' = [step EXCEPT ![s] = "completed"]
          /\ currentStep' = ClearCurrent(s)
          /\ pc' = pc
  /\ UNCHANGED <<input, exec, state, extracted, supervisor, guardrail, erp,
                 decision, activityVars, callerVars>>

SupervisorCompletes ==
  /\ Parked("supervise")
  /\ supervisor' \in Recommendation
  /\ findings' = findings \cup {"supervisor"}
  /\ step' = [step EXCEPT !["supervisor"] = "completed", !["guardrail"] = "running"]
  /\ currentStep' = "guardrail"
  /\ pc' = "guardrail" /\ guardAttempt' = 1
  /\ UNCHANGED <<input, exec, state, extracted, guardrail, erp, decision,
                 erpAttempt, erpTask, booked, late, callerVars>>

\* The agents whose graph the main coroutine is awaiting.
RunningAgents ==
  CASE pc = "extract" -> {"extract"}
    [] pc = "specialists" -> {s \in Specialists : step[s] = "running"}
    [] pc = "supervise" -> {"supervisor"}
    [] OTHER -> {}

\* A permanent activity failure leaves run() as an ActivityError: nothing
\* catches it, so the execution fails with the workflow's fields as they are.
ExecutionFails ==
  /\ exec' = "failed"
  /\ UNCHANGED <<input, pc, state, currentStep, step, factVars, decision,
                 erpTask, booked, callerVars>>

AgentFails ==
  /\ exec = "running" /\ RunningAgents # {}
  /\ ExecutionFails
  /\ UNCHANGED <<guardAttempt, erpAttempt, late>>

\* A tool-less agent that names a tool is routed to a node its graph lacks.
\* That error is no activity failure: the workflow task fails, and is retried
\* with the same outcome for ever.
AgentWedges ==
  /\ exec = "running" /\ RunningAgents \cap ToolLessAgents # {}
  /\ exec' = "wedged"
  /\ UNCHANGED <<input, pc, state, currentStep, step, factVars, decision,
                 activityVars, callerVars>>

\* What every completion of check_guardrails does before run() looks at it.
GuardrailReports ==
  /\ Parked("guardrail")
  /\ guardrail' = CheckGuardrails(extracted)
  /\ UNCHANGED <<input, extracted, findings, supervisor, erp, decision,
                 guardAttempt, booked, late, callerVars>>

GuardrailBlocks ==
  /\ GuardrailReports
  /\ guardrail' = "blocked"
  /\ step' = [step EXCEPT !["guardrail"] = "completed",
                          !["approval"] = "skipped", !["erp"] = "skipped"]
  /\ Close("rejected_by_policy")
  /\ UNCHANGED <<erpAttempt, erpTask>>

\* Mistake: the supervisor is heard before the guardrail.
SupervisorOutranksGuardrail ==
  /\ GuardrailReports
  /\ supervisor = "reject"
  /\ step' = [step EXCEPT !["guardrail"] = "completed",
                          !["approval"] = "skipped", !["erp"] = "skipped"]
  /\ Close("rejected_by_supervisor")
  /\ UNCHANGED <<erpAttempt, erpTask>>

SupervisorRejects ==
  /\ GuardrailReports
  /\ guardrail' # "blocked" /\ supervisor = "reject"
  /\ step' = [step EXCEPT !["guardrail"] = "completed",
                          !["approval"] = "skipped", !["erp"] = "skipped"]
  /\ Close("rejected_by_supervisor")
  /\ UNCHANGED <<erpAttempt, erpTask>>

HumanIsAsked ==
  /\ GuardrailReports
  /\ guardrail' # "blocked" /\ supervisor # "reject"
  /\ NeedsHuman(supervisor, guardrail')
  /\ step' = [step EXCEPT !["guardrail"] = "completed", !["approval"] = "waiting"]
  /\ currentStep' = "approval"
  /\ state' = "awaiting_approval"
  /\ pc' = "approval"
  /\ UNCHANGED <<exec, erpAttempt, erpTask>>

\* Mistake: _begin records the label of the step instead of its name.
ErpStartsByLabel ==
  /\ pc' = "erp" /\ currentStep' = "ERP submission"
  /\ erpAttempt' = 1 /\ erpTask' = "running"

\* _begin(STEP_ERP) and the first attempt of submit_to_erp.
ErpStarts ==
  /\ pc' = "erp" /\ currentStep' = "erp"
  /\ erpAttempt' = 1 /\ erpTask' = "running"

AutoApproved ==
  /\ GuardrailReports
  /\ guardrail' # "blocked" /\ supervisor # "reject"
  /\ ~ NeedsHuman(supervisor, guardrail')
  /\ step' = [step EXCEPT !["guardrail"] = "completed",
                          !["approval"] = "skipped", !["erp"] = "running"]
  /\ ErpStarts
  /\ UNCHANGED <<exec, state>>

\* The worker running the attempt died or the attempt timed out.
GuardrailAttemptLost ==
  /\ Parked("guardrail")
  /\ \/ /\ guardAttempt < GuardrailMaxAttempts
        /\ guardAttempt' = guardAttempt + 1
        /\ UNCHANGED <<input, runVars, factVars, decision, erpAttempt, erpTask,
                       booked, late, callerVars>>
     \/ /\ guardAttempt >= GuardrailMaxAttempts
        /\ ExecutionFails
        /\ UNCHANGED <<guardAttempt, erpAttempt, late>>

-----------------------------------------------------------------------------
(* The human decision *)

\* Mistake: the validator asks for the state alone.
SubmitDecisionAnyTime(c, approved) ==
  /\ exec = "running" /\ update[c] \in {"idle", "rejected"}
  /\ state = "awaiting_approval"
  /\ decision' = [approved |-> approved, by |-> c]
  /\ update' = [update EXCEPT ![c] = "accepted"]
  /\ UNCHANGED <<input, runVars, factVars, activityVars, reply>>

\* The validator and the first part of the handler run without a break.
SubmitDecision(c, approved) ==
  /\ exec = "running" /\ update[c] \in {"idle", "rejected"}
  /\ state = "awaiting_approval" /\ decision = None
  /\ decision' = [approved |-> approved, by |-> c]
  /\ update' = [update EXCEPT ![c] = "accepted"]
  /\ UNCHANGED <<input, runVars, factVars, activityVars, reply>>

ValidatorRejects(c) ==
  /\ exec = "running" /\ update[c] \in {"idle", "rejected"}
  /\ state # "awaiting_approval" \/ decision # None
  /\ update' = [update EXCEPT ![c] = "rejected"]
  /\ UNCHANGED <<input, runVars, factVars, decision, activityVars, reply>>

\* The signal has no caller to answer: outside the wait it is dropped.
Decide(c, approved) ==
  /\ exec = "running"
  /\ decision' = IF state = "awaiting_approval" /\ decision = None
                 THEN [approved |-> approved, by |-> c] ELSE decision
  /\ UNCHANGED <<input, runVars, factVars, activityVars, callerVars>>

\* Mistakes: the wait has no timeout; the timeout wins over a decision that
\* has been recorded; the timeout branch forgets to skip the ERP step.
NoDeadline == FALSE

DeadlineBeatsDecision ==
  /\ Parked("approval")
  /\ step' = [step EXCEPT !["approval"] = "failed", !["erp"] = "skipped"]
  /\ Close("approval_timed_out")
  /\ UNCHANGED <<input, factVars, decision, activityVars, callerVars>>

DeadlineLeavesErpOpen ==
  /\ Parked("approval") /\ decision = None
  /\ step' = [step EXCEPT !["approval"] = "failed"]
  /\ Close("approval_timed_out")
  /\ UNCHANGED <<input, factVars, decision, activityVars, callerVars>>

\* The deadline timer is looked at only in an activation whose updates and
\* signals have been applied, hence with no decision recorded.
DeadlinePasses ==
  /\ Parked("approval") /\ decision = None
  /\ step' = [step EXCEPT !["approval"] = "failed", !["erp"] = "skipped"]
  /\ Close("approval_timed_out")
  /\ UNCHANGED <<input, factVars, decision, activityVars, callerVars>>

\* Mistake: the state is not left before run() goes on, so handlers wait on.
HandlersWaitOn == UNCHANGED callerVars

\* Leaving AWAITING_APPROVAL releases the handlers that wait for it: they
\* return self.status() in the same activation.
HandlersReturn ==
  /\ update' = [c \in Reviewers |->
                  IF update[c] = "accepted" THEN "replied" ELSE update[c]]
  /\ reply' = [c \in Reviewers |->
                 IF update[c] = "accepted"
                 THEN [state |-> state', decision |-> decision] ELSE reply[c]]

ReviewerApproved ==
  /\ Parked("approval") /\ decision # None /\ decision.approved
  /\ state' = "running"
  /\ step' = [step EXCEPT !["approval"] = "completed", !["erp"] = "running"]
  /\ ErpStarts
  /\ HandlersReturn
  /\ UNCHANGED <<input, exec, factVars, decision, guardAttempt, booked, late>>

ReviewerRejected ==
  /\ Parked("approval") /\ decision # None /\ ~ decision.approved
  /\ step' = [step EXCEPT !["approval"] = "completed", !["erp"] = "skipped"]
  /\ Close("rejected_by_human")
  /\ HandlersReturn
  /\ UNCHANGED <<input, factVars, decision, activityVars>>

-----------------------------------------------------------------------------
(* submit_to_erp, at least once *)

\* maximum_attempts = 0 is Temporal's way to set no limit; then attempts are
\* told apart up to AttemptBound, and those after it count as that one.
Unlimited == input.maxAttempts = 0

Allowed(n) == Unlimited \/ n <= input.maxAttempts

NextAttempt == IF Unlimited /\ erpAttempt = AttemptBound THEN erpAttempt ELSE erpAttempt + 1

\* Mistake: one attempt more than the policy allows.
RetryErpOnceMore ==
  \/ /\ Allowed(erpAttempt)
     /\ erpAttempt' = NextAttempt
     /\ erpTask' = "running"
     /\ UNCHANGED <<input, runVars, factVars, decision, guardAttempt, booked,
                    callerVars>>
  \/ /\ ~ Allowed(erpAttempt)
     /\ ExecutionFails
     /\ UNCHANGED <<guardAttempt, erpAttempt>>

\* The server starts the next attempt, or fails the activity for good.
RetryErp ==
  \/ /\ Allowed(erpAttempt + 1)
     /\ erpAttempt' = NextAttempt
     /\ erpTask' = "running"
     /\ UNCHANGED <<input, runVars, factVars, decision, guardAttempt, booked,
                    callerVars>>
  \/ /\ ~ Allowed(erpAttempt + 1)
     /\ ExecutionFails
     /\ UNCHANGED <<guardAttempt, erpAttempt>>

ErpAttemptFails ==
  /\ Parked("erp") /\ erpTask = "running"
  /\ erpAttempt <= input.seeded
  /\ RetryErp
  /\ UNCHANGED late

\* Every accepted submission gets a confirmation id of its own.
ErpAccepts ==
  /\ Parked("erp") /\ erpTask = "running"
  /\ erpAttempt > input.seeded
  /\ erpTask' = "accepted"
  /\ booked' = booked \cup {erpAttempt}
  /\ UNCHANGED <<input, runVars, factVars, decision, guardAttempt, erpAttempt,
                 late, callerVars>>

\* A dead or late worker reports nothing, even of a submission that was taken;
\* a late one may still be on its way to the ERP.
ErpAttemptLost ==
  /\ Parked("erp") /\ erpTask \in {"running", "accepted"}
  /\ RetryErp
  /\ late' \in {late} \cup (IF erpTask = "running" /\ erpAttempt > input.seeded
                            THEN {late \cup {erpAttempt}} ELSE {})

\* The ERP accepts what an attempt submits that was given up, and the server
\* drops the report: the workflow may be in a later attempt, closed or failed.
ErpAcceptsLate ==
  /\ \E n \in late : booked' = booked \cup {n} /\ late' = late \ {n}
  /\ UNCHANGED <<input, runVars, factVars, decision, guardAttempt, erpAttempt,
                 erpTask, callerVars>>

ErpReports ==
  /\ Parked("erp") /\ erpTask = "accepted"
  /\ erp' = erpAttempt
  /\ step' = [step EXCEPT !["erp"] = "completed"]
  /\ Close("submitted")
  /\ UNCHANGED <<input, extracted, findings, supervisor, guardrail, decision,
                 activityVars, callerVars>>

-----------------------------------------------------------------------------
\* Everything the server does on its own, and its workers in time.
WorkflowStep ==
  \/ RunStarts
  \/ ExtractCompletes
  \/ \E s \in Specialists : SpecialistCompletes(s)
  \/ SupervisorCompletes
  \/ AgentFails
  \/ AgentWedges
  \/ GuardrailBlocks
  \/ SupervisorRejects
  \/ HumanIsAsked
  \/ AutoApproved
  \/ GuardrailAttemptLost
  \/ DeadlinePasses
  \/ ReviewerApproved
  \/ ReviewerRejected
  \/ ErpAttemptFails
  \/ ErpAccepts
  \/ ErpAttemptLost
  \/ ErpReports

\* What reviewers may do, and need not.
ReviewerStep ==
  \E c \in Reviewers :
    \/ ValidatorRejects(c)
    \/ \E approved \in BOOLEAN : SubmitDecision(c, approved) \/ Decide(c, approved)

Next == WorkflowStep \/ ErpAcceptsLate \/ ReviewerStep

Spec == Init /\ [][Next]_vars

\* Some worker polls, activities have start-to-close timeouts and timers fire.
FairSpec == Spec /\ WF_vars(WorkflowStep)

-----------------------------------------------------------------------------
(* Safety *)

\* The ERP has taken a submission only of a purchase order that every agent
\* has reported on, that no rule blocks, that the supervisor did not reject,
\* and that a human approved if a human had to be asked: by the supervisor or
\* by the threshold in force.  The rule is restated on the extracted figures,
\* not on the recorded result (po_approval.py:210-252, guardrail.py:54-77).
BookedOnlyIfCleared ==
  booked # {} =>
    /\ Specialists \subseteq findings
    /\ extracted.amount <= HardThreshold
    /\ ~ VendorIsBlocked(extracted.vendor)
    /\ supervisor # "reject"
    /\ supervisor = "escalate_to_human" \/ extracted.amount > Threshold
         => decision # None /\ decision.approved

\* A closed workflow reports the outcome its recorded facts call for, and
\* exactly a submitted one has a confirmation; a late decision never turns a
\* timed-out request into something else, nor the other way round
\* (po_approval.py:217-257, 395-420).
OutcomeIsJustified ==
  exec = "completed" =>
    /\ (state = "rejected_by_policy") = (guardrail = "blocked")
    /\ (state = "rejected_by_supervisor")
         = (guardrail # "blocked" /\ supervisor = "reject")
    /\ (state = "approval_timed_out")
         = (/\ guardrail # "blocked" /\ supervisor # "reject"
            /\ NeedsHuman(supervisor, guardrail) /\ decision = None)
    /\ (state = "rejected_by_human") = (decision # None /\ ~ decision.approved)
    /\ (state = "submitted") = (erp # None)

\* The step ledger the UI draws tells the same story as the state, at every
\* close: nothing is left open, the approval step says how the wait ended and
\* the ERP step whether there was a submission (po_approval.py:114-144).
LedgerAgreesWithOutcome ==
  exec = "completed" =>
    /\ \A s \in Steps : step[s] \in {"completed", "failed", "skipped"}
    /\ (step["erp"] = "completed") = (state = "submitted")
    /\ (step["approval"] = "completed") = (decision # None)
    /\ (step["approval"] = "failed") = (state = "approval_timed_out")

\* While run() is between awaits the current step, if any, is a step in
\* progress: _finish of one specialist never hides another that has begun
\* since, and no closed step is still shown as current
\* (po_approval.py:119, 138-139, 467).
CurrentStepIsInProgress ==
  currentStep # None => step[currentStep] \in {"running", "waiting"}

\* A reviewer whose update was accepted is told of the decision that reviewer
\* made, never of another's, and in a state that has left the wait; a pending
\* acceptance is always that of the decision on record
\* (po_approval.py:168-191).
ReplyIsTheCallersOwn ==
  \A c \in Reviewers :
    /\ update[c] = "accepted" => decision # None /\ decision.by = c
    /\ reply[c] # None => /\ reply[c].decision.by = c
                          /\ reply[c].decision = decision
                          /\ reply[c].state \in {"running", "rejected_by_human"}

\* The confirmation on record is that of the last attempt, and what else the
\* ERP holds is of earlier ones, whenever it got it; submissions stay inside the
\* retry policy and outside the seeded failures, however attempts were lost; and
\* an execution gives up on a submission that the ERP holds, or may still get,
\* only with every attempt used (erp.py:44-72, po_approval.py:252, 448-454).
ConfirmationIsTheLatest ==
  /\ erp # None => erp \in booked /\ \A n \in booked \cup late : n <= erp
  /\ \A n \in booked \cup late : input.seeded < n /\ Allowed(n)
  /\ exec = "failed" /\ booked \cup late # {} => erpAttempt = input.maxAttempts

\* A decision, once recorded, is never replaced, whichever way a second one
\* arrives (po_approval.py:175, 190-191, 197).
DecisionIsFinal == [][decision # None => decision' = decision]_vars

-----------------------------------------------------------------------------
(* What run() has established at each of its awaits *)

\* The rules and the supervisor leave the request to go on.
Reviewable ==
  /\ extracted # None /\ Specialists \subseteq findings
  /\ guardrail = CheckGuardrails(extracted) /\ guardrail # "blocked"
  /\ supervisor \in Recommendation \ {"reject"}

Cleared ==
  /\ Reviewable
  /\ NeedsHuman(supervisor, guardrail) => decision # None /\ decision.approved

StageInv ==
  /\ (exec = "completed") = (pc = "done")
  /\ exec = "wedged" => pc \in {"specialists", "supervise"}
  /\ pc \notin {"start", "extract"} => extracted # None
  /\ pc \notin {"start", "extract", "specialists"} => Specialists \subseteq findings
  /\ pc \in {"guardrail", "approval", "erp", "done"} => supervisor # None
  /\ pc \notin {"approval", "erp", "done"} => guardrail = None /\ decision = None
  /\ pc = "approval" =>
       /\ exec = "running" /\ state = "awaiting_approval"
       /\ Reviewable /\ NeedsHuman(supervisor, guardrail)
  /\ pc = "erp" => Cleared
  /\ pc = "done" => state \in ClosedStates
  /\ pc \notin {"approval", "done"} => state = "running"
  /\ decision # None => Reviewable /\ NeedsHuman(supervisor, guardrail)

BookingInv ==
  /\ pc \notin {"erp", "done"} => booked = {} /\ late = {} /\ erpTask = "none"
  /\ pc = "erp" => erpAttempt >= 1 /\ Allowed(erpAttempt)
  /\ exec # "completed" => erp = None
  /\ booked \cup late # {} => Cleared
  /\ \A n \in booked \cup late : input.seeded < n /\ n <= erpAttempt /\ Allowed(n)
  /\ pc = "erp" /\ erpTask = "accepted" => erpAttempt \in booked
  /\ erp # None => erp = erpAttempt /\ erp \in booked
  /\ exec = "failed" /\ booked \cup late # {} => erpAttempt = input.maxAttempts

CallerInv ==
  \A c \in Reviewers :
    /\ update[c] = "accepted" => pc = "approval" /\ decision # None /\ decision.by = c
    /\ reply[c] # None =>
         /\ pc \in {"erp", "done"} /\ decision # None /\ decision.by = c
         /\ reply[c].decision = decision
         /\ reply[c].state \in {"running", "rejected_by_human"}

\* Which steps are closed, in progress and still to come at each await, and
\* what the current step may be.
AgentsHaveReported ==
  \A s \in {"extract", "supervisor"} \cup Specialists : step[s] = "completed"

StepInv ==
  /\ pc = "start" => currentStep = None /\ findings = {}
  /\ pc = "extract" => /\ step["extract"] = "running" /\ currentStep = "extract"
                       /\ findings = {}
  /\ pc \in {"specialists", "supervise"} => step["extract"] = "completed"
  /\ pc = "specialists" =>
       /\ \A s \in Specialists :
            step[s] = IF s \in findings THEN "completed" ELSE "running"
       /\ currentStep # None =>
            currentStep \in Specialists /\ step[currentStep] = "running"
  /\ pc = "supervise" => /\ \A s \in Specialists : step[s] = "completed"
                         /\ step["supervisor"] = "running"
                         /\ currentStep = "supervisor"
  /\ pc \in {"guardrail", "approval", "erp", "done"} => AgentsHaveReported
  /\ pc = "guardrail" => step["guardrail"] = "running" /\ currentStep = "guardrail"
  /\ pc \in {"approval", "erp", "done"} => step["guardrail"] = "completed"
  /\ pc = "approval" => step["approval"] = "waiting" /\ currentStep = "approval"
  /\ pc = "erp" => /\ step["erp"] = "running" /\ currentStep = "erp"
                   /\ step["approval"] = IF decision = None THEN "skipped"
                                         ELSE "completed"
  /\ pc = "done" =>
       /\ currentStep = None
       /\ step["erp"] = IF state = "submitted" THEN "completed" ELSE "skipped"
       /\ step["approval"] = IF decision # None THEN "completed"
                             ELSE IF state = "approval_timed_out" THEN "failed"
                             ELSE "skipped"

\* The invariant that carries the proofs: what has been established at each
\* await, what the ERP may hold, and what callers are waiting for or were told
\* (po_approval.py:202-257).
IInv == TypeOK /\ StageInv /\ BookingInv /\ CallerInv /\ OutcomeIsJustified

-----------------------------------------------------------------------------
(* Liveness, under FairSpec *)

\* A caller whose update was accepted gets its answer (po_approval.py:176-180).
AcceptedUpdateIsAnswered ==
  \A c \in Reviewers : (update[c] = "accepted") ~> (update[c] = "replied")

-----------------------------------------------------------------------------
(* The contract with the clients *)

Phase ==
  IF exec = "failed" /\ pc = "erp" THEN "abandoned"
  ELSE IF exec \in {"failed", "wedged"} THEN "broken"
  ELSE IF pc = "approval" THEN "asking"
  ELSE IF pc = "erp" THEN "cleared"
  ELSE IF pc # "done" THEN "reviewing"
  ELSE IF state = "submitted" THEN "submitted"
  ELSE IF state = "approval_timed_out" THEN "expired"
  ELSE "declined"

AnswerOnRecord ==
  IF decision = None THEN "none"
  ELSE IF decision.approved THEN "approve" ELSE "reject"

Contract == INSTANCE ApprovalContract WITH
  limit <- input.maxAttempts,
  phase <- Phase,
  answer <- AnswerOnRecord,
  booked <- booked

\* The workflow implements the contract: a request only ever leaves the wait
\* for a human by that human's answer or by the deadline, an answer is given
\* once and obeyed, and nothing is submitted that was not cleared
\* (po_approval.py:202-257, 375-420).
ImplementsContract == Contract!ContractSpec

\* With fair workers the request also gets out of every phase it can get out
\* of, so the contract's progress is kept as well; a submission under a policy
\* without a limit may be tried for ever (po_approval.py:202-257, 448-454).
KeepsPromisesInTime == Contract!FairContractSpec

-----------------------------------------------------------------------------
(* What the documentation says *)

\* README.md:583-586 calls the status query the single source of truth from
\* which nothing shown can drift from what the workflow did: so an execution
\* that failed would not be reported as running.  WorkflowState has FAILED for
\* it (models.py:46), and no code sets it.
FailureIsReported == exec = "failed" => state \notin {"running", "awaiting_approval"}
=============================================================================
