--------------------------- MODULE ScenarioRunner ---------------------------
(***************************************************************************)
(* The command line driver src/scripts/run_scenario.py together with the   *)
(* workflow it has started: it polls the status for the pause, sends its   *)
(* decision as an update, waits for the result and exits.  The workflow    *)
(* is the one of POApproval; the script is its reviewer Cli, and the       *)
(* others (the browser, the temporal CLI) may decide before it does.       *)
(***************************************************************************)
EXTENDS POApproval

CONSTANTS
  Cli,       \* the script as a reviewer, decided_by="cli-operator"
  MaxPolls   \* how often the script looks for the pause (120 in the code)

ASSUME RunnerAssumption == Cli \in Reviewers /\ MaxPolls \in Nat \ {0}

VARIABLES
  script,    \* where main() stands
  intended,  \* the decision it is to send, TRUE to approve
  polls,     \* status queries answered so far
  posted,    \* the update has left for the server
  sent,      \* "sent decision" has been printed
  result,    \* state of the POWorkflowResult, None before it arrives
  exitCode   \* None until the script has ended

scriptVars == <<script, intended, polls, posted, sent, result, exitCode>>
runnerVars == <<vars, scriptVars>>

RunnerTypeOK ==
  /\ script \in {"polling", "deciding", "calling", "waiting", "reporting", "exited"}
  /\ intended \in BOOLEAN /\ posted \in BOOLEAN /\ sent \in BOOLEAN
  /\ polls \in 0..MaxPolls /\ (script = "polling" => polls < MaxPolls)
  /\ result \in WorkflowState \cup {None}
  /\ exitCode \in {0, 1, None}

\* The script has connected and started the workflow; before that an error
\* ends it with nothing started.
RunnerInit ==
  /\ Init
  /\ script = "polling" /\ intended \in BOOLEAN /\ polls = 0
  /\ posted = FALSE /\ sent = FALSE /\ result = None /\ exitCode = None

-----------------------------------------------------------------------------
Exit(code) == script' = "exited" /\ exitCode' = code

\* One round of the polling loop.  No worker can answer the query of an
\* execution whose workflow task keeps failing.
Poll ==
  /\ script = "polling" /\ exec # "wedged"
  /\ polls' = IF state = "running" THEN polls + 1 ELSE polls
  /\ script' = IF state = "awaiting_approval" THEN "deciding"
               ELSE IF state # "running" \/ polls' = MaxPolls THEN "waiting"
               ELSE "polling"
  /\ UNCHANGED <<vars, intended, posted, sent, result, exitCode>>

\* No worker answers in time, or the server does not: nothing catches it.
QueryRaises ==
  /\ script \in {"polling", "reporting"}
  /\ Exit(1)
  /\ UNCHANGED <<vars, intended, polls, posted, sent, result>>

\* Mistake: the decision is sent as a signal, which has no answer.
PostSignal ==
  /\ script = "deciding" /\ exec = "running"
  /\ Decide(Cli, intended)
  /\ script' = "waiting" /\ posted' = TRUE /\ sent' = TRUE
  /\ UNCHANGED <<intended, polls, result, exitCode>>

\* handle.execute_update leaves for the server.
Post ==
  /\ script = "deciding"
  /\ script' = "calling" /\ posted' = TRUE
  /\ UNCHANGED <<vars, intended, polls, sent, result, exitCode>>

\* The update is handled, at once or long after the script has given up: the
\* server tells its caller by the update's id, and a second copy is dropped.
UpdateArrives ==
  /\ posted /\ update[Cli] = "idle"
  /\ SubmitDecision(Cli, intended)
  /\ UNCHANGED scriptVars

\* Refused by the validator: WorkflowUpdateFailedError ends the script.
UpdateRefused ==
  /\ posted /\ update[Cli] = "idle"
  /\ ValidatorRejects(Cli)
  /\ IF script = "calling" THEN Exit(1) ELSE UNCHANGED <<script, exitCode>>
  /\ UNCHANGED <<intended, polls, posted, sent, result>>

\* Mistake: a call that raises is taken for one that came too late to matter.
CallErrorIgnored ==
  /\ script = "calling"
  /\ script' = "waiting"
  /\ UNCHANGED <<vars, intended, polls, posted, sent, result, exitCode>>

\* An update of a closed execution, or a call that fails on its way there or
\* back, raises RPCError.
UpdateCallRaises ==
  /\ script = "calling"
  /\ Exit(1)
  /\ UNCHANGED <<vars, intended, polls, posted, sent, result>>

UpdateReturns ==
  /\ script = "calling" /\ update[Cli] = "replied"
  /\ script' = "waiting" /\ sent' = TRUE
  /\ UNCHANGED <<vars, intended, polls, posted, result, exitCode>>

\* Mistake: a reply to the update is taken for the result.
ReplyIsResult ==
  /\ script = "waiting"
  /\ \/ exec = "completed" /\ result' = state
     \/ reply[Cli] # None /\ result' = reply[Cli].state
  /\ script' = "reporting"
  /\ UNCHANGED <<vars, intended, polls, posted, sent, exitCode>>

ResultArrives ==
  /\ script = "waiting" /\ exec = "completed"
  /\ result' = state /\ script' = "reporting"
  /\ UNCHANGED <<vars, intended, polls, posted, sent, exitCode>>

\* Mistake: a failed execution is waited for like an open one.
FailureIsWaitedFor == FALSE

\* handle.result() raises WorkflowFailureError for a failed execution.
ResultRaises ==
  /\ script = "waiting" /\ exec = "failed"
  /\ Exit(1)
  /\ UNCHANGED <<vars, intended, polls, posted, sent, result>>

\* The last query has been answered.
Report ==
  /\ script = "reporting"
  /\ Exit(IF result = "failed" THEN 1 ELSE 0)
  /\ UNCHANGED <<vars, intended, polls, posted, sent, result>>

-----------------------------------------------------------------------------
ScriptStep ==
  \/ Poll \/ QueryRaises
  \/ Post \/ UpdateArrives \/ UpdateRefused \/ UpdateCallRaises \/ UpdateReturns
  \/ ResultArrives \/ ResultRaises \/ Report

\* The other reviewers act as in POApproval.
OthersStep ==
  \E c \in Reviewers \ {Cli} :
    \/ ValidatorRejects(c)
    \/ \E approved \in BOOLEAN : SubmitDecision(c, approved) \/ Decide(c, approved)

ServerStep == WorkflowStep /\ UNCHANGED scriptVars

RunnerNext ==
  \/ ServerStep
  \/ (OthersStep \/ ErpAcceptsLate) /\ UNCHANGED scriptVars
  \/ ScriptStep

RunnerSpec == RunnerInit /\ [][RunnerNext]_runnerVars

\* The workflow's fairness, and a script that keeps running and whose calls
\* return or raise.
FairRunnerSpec ==
  RunnerSpec /\ WF_runnerVars(ServerStep) /\ WF_runnerVars(ScriptStep)

-----------------------------------------------------------------------------
(* Safety *)

\* Once the script has said that it sent its decision, that decision is the
\* one on record, whoever else decides and however late, and the request ends
\* as it says: submitted or rejected, never expired
\* (run_scenario.py:83-91 on po_approval.py:168-191).
AnnouncedDecisionStands ==
  sent =>
    /\ decision = [approved |-> intended, by |-> Cli]
    /\ exec = "completed" =>
         state = IF intended THEN "submitted" ELSE "rejected_by_human"

\* Exit code 0 is that of a closed execution, what was printed as the final
\* state is its outcome, and every step in the table has ended
\* (run_scenario.py:97-110, 124).
ExitZeroMeansClosed ==
  exitCode = 0 =>
    /\ exec = "completed" /\ result = state /\ result \in ClosedStates
    /\ \A s \in Steps : step[s] \in {"completed", "failed", "skipped"}

\* An expired request is reported with exit code 0 only by a script that never
\* saw its pause: it may have looked too early or too late, but once it has
\* sent a decision that comes too late, it ends with an error
\* (run_scenario.py:76-97).
ExpiryWasNotSeen ==
  exitCode = 0 /\ state = "approval_timed_out" => ~ posted /\ decision = None

\* What the script knows of the workflow: a decision in its name is its own,
\* an answered call left a reply, it only goes on past a call that was
\* answered, and it reports the outcome of a closed execution
\* (run_scenario.py:76-110).
RunnerInv ==
  /\ decision # None /\ decision.by = Cli => decision.approved = intended
  /\ update[Cli] = "replied" => reply[Cli] # None
  /\ sent => reply[Cli] # None
  /\ script \in {"polling", "deciding"} => ~ posted
  /\ script \in {"waiting", "reporting"} \/ exitCode = 0 => (posted => sent)
  /\ script = "reporting" \/ exitCode = 0 => exec = "completed" /\ result = state
  /\ exitCode # None => script = "exited"

\* The types and the knowledge together, as the script's lines leave them
\* (run_scenario.py:36-124).
ScriptInv == RunnerTypeOK /\ RunnerInv

\* The script ends, with any outcome, unless it waits for ever for the result of
\* an execution that an agent has wedged, or whose submission is tried again and
\* again under a policy without a limit (run_scenario.py:76-124).
ScriptEnds ==
  \/ <>(script = "exited")
  \/ <>[](script = "waiting" /\ (exec = "wedged" \/ (pc = "erp" /\ Unlimited)))

-----------------------------------------------------------------------------
(* What the documentation says *)

\* run_scenario.py:75 has the script wait for the pause, if the scenario has
\* one, and then deliver the decision; its help (line 43) has it sent when the
\* workflow pauses.  So it would not give up looking, wait for the result of a
\* request that pauses after all, and leave it to expire.
PauseGetsTheDecision ==
  ~ (exitCode = 0 /\ polls = MaxPolls /\ state = "approval_timed_out")
=============================================================================
