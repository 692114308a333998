------------------------------ MODULE CrashDemo ------------------------------
(***************************************************************************)
(* The durability demo, src/scripts/crash_demo.py: a run of the workflow   *)
(* whose worker is killed while the three specialists are fanned out.      *)
(*                                                                         *)
(* Three parties: the script, which starts and kills a worker of its own;  *)
(* the workers, ours and perhaps another that was there before; and the    *)
(* Temporal server, which keeps the history, hands out activity attempts   *)
(* and starts another one when an attempt exceeds its timeout.  An agent   *)
(* is a chain of activities, one per graph node that it goes through.      *)
(***************************************************************************)
EXTENDS Integers, FiniteSets

CONSTANTS
  FANOUT_STEPS,
  None,
  MaxTurns,     \* bound: activities of one specialist
  MaxAttempts,  \* the retry limit of a node
  MaxSlow       \* bound: attempts that outlive their timeout, all of one agent

ASSUME DemoAssumption ==
  MaxTurns \in Nat \ {0} /\ MaxAttempts \in Nat \ {0} /\ MaxSlow \in Nat

VARIABLES
  force,      \* --force
  other,      \* a worker that is not ours: "none", "live" or "dead"
  fresh,      \* its poller entry is at most LIVE_POLLER_WINDOW_SECONDS old
  demo,       \* where main() is
  code,       \* its exit code, "raised" for a traceback
  worker,     \* the worker the script has started is running
  finishedBefore,
  counts,     \* activity_counts of the crash run
  exec,       \* the crash run: "none", "running", "completed", "failed"
              \* permanently, or "exhausted" for a lack of attempts
  turns,      \* the activities each specialist is going to take
  scheduled,  \* ActivityTaskScheduled events in history
  closed,     \* ActivityTaskCompleted events in history
  applied,    \* those the workflow has seen
  task,       \* the pending activity: "none", "queued", or who runs it;
              \* "orphaned" when its worker is dead
  attempt,
  ran,        \* how often an activity body of the specialist was run
  slow,       \* how often an attempt with a live worker timed out
  crashes     \* workers that died

scriptVars == <<force, demo, code, finishedBefore, counts>>
workerVars == <<other, fresh, worker, crashes>>
serverVars == <<exec, scheduled, closed, applied, task, attempt>>
vars == <<scriptVars, workerVars, serverVars, turns, ran, slow>>

ScriptOK ==
  /\ force \in BOOLEAN
  /\ demo \in {"checking", "baseline", "watching", "killing", "down",
               "recovering", "exited"}
  /\ code \in {"none", "0", "1", "2", "raised"}
  /\ finishedBefore \subseteq FANOUT_STEPS
  /\ counts \in [FANOUT_STEPS -> Nat] \cup {None}

WorkersOK ==
  /\ other \in {"none", "live", "dead"} /\ fresh \in BOOLEAN /\ worker \in BOOLEAN
  /\ crashes \in Nat

HistoryOK ==
  /\ exec \in {"none", "running", "completed", "failed", "exhausted"}
  /\ turns \in [FANOUT_STEPS -> 1..MaxTurns]
  /\ {scheduled, closed, applied, ran, slow} \subseteq [FANOUT_STEPS -> Nat]
  /\ task \in [FANOUT_STEPS -> {"none", "queued", "ours", "theirs", "orphaned"}]
  /\ attempt \in [FANOUT_STEPS -> 0..MaxAttempts]

TypeOK == ScriptOK /\ WorkersOK /\ HistoryOK

Zero == [s \in FANOUT_STEPS |-> 0]

Init ==
  /\ force \in BOOLEAN
  /\ other \in {"none", "live", "dead"} /\ fresh \in BOOLEAN
  /\ (other = "live" => fresh) /\ (other = "none" => ~ fresh)
  /\ demo = "checking" /\ code = "none" /\ worker = FALSE
  /\ finishedBefore = {} /\ counts = None
  /\ exec = "none" /\ turns \in [FANOUT_STEPS -> 1..MaxTurns]
  /\ scheduled = Zero /\ closed = Zero /\ applied = Zero
  /\ task = [s \in FANOUT_STEPS |-> "none"] /\ attempt = Zero
  /\ ran = Zero /\ slow = Zero /\ crashes = 0

-----------------------------------------------------------------------------
(* The server and the workers *)

Alive == {w \in {"ours", "theirs"} : IF w = "ours" THEN worker ELSE other = "live"}
Running == exec = "running"

\* Mistake: every idle specialist is started again, finished or not.
DueAgain == {s \in FANOUT_STEPS : scheduled[s] = closed[s]}

\* Specialists whose last activity is done and that have another one to take.
Due == {s \in FANOUT_STEPS : scheduled[s] = closed[s] /\ closed[s] < turns[s]}

\* A workflow task: the workflow is brought up to date, from its cache or by
\* replay, and asks for the activities that come next.  Replay finds the events
\* of those it asked for before, so it adds none.
WorkflowTask ==
  /\ Running /\ Alive # {}
  /\ applied # closed \/ scheduled = Zero
  /\ applied' = closed
  /\ scheduled' = [s \in FANOUT_STEPS |-> scheduled[s] + IF s \in Due THEN 1 ELSE 0]
  /\ task' = [s \in FANOUT_STEPS |-> IF s \in Due THEN "queued" ELSE task[s]]
  /\ attempt' = [s \in FANOUT_STEPS |-> IF s \in Due THEN 1 ELSE attempt[s]]
  /\ exec' = IF closed = turns THEN "completed" ELSE exec
  /\ UNCHANGED <<scriptVars, workerVars, closed, turns, ran, slow>>

\* No event is written: a retried attempt leaves no trace in the history.
AttemptStarts(s) ==
  /\ Running /\ task[s] = "queued"
  /\ \E w \in Alive : task' = [task EXCEPT ![s] = w]
  /\ ran' = [ran EXCEPT ![s] = @ + 1]
  /\ UNCHANGED <<scriptVars, workerVars, exec, scheduled, closed, applied,
                 attempt, turns, slow>>

AttemptCompletes(s) ==
  /\ Running /\ task[s] \in Alive
  /\ task' = [task EXCEPT ![s] = "none"]
  /\ closed' = [closed EXCEPT ![s] = @ + 1]
  /\ UNCHANGED <<scriptVars, workerVars, exec, scheduled, applied, attempt,
                 turns, ran, slow>>

\* Mistake: the last attempt is not taken.
RetryButLast(s) ==
  IF attempt[s] + 1 < MaxAttempts
  THEN /\ task' = [task EXCEPT ![s] = "queued"]
       /\ attempt' = [attempt EXCEPT ![s] = @ + 1]
       /\ exec' = exec
  ELSE exec' = "exhausted" /\ UNCHANGED <<task, attempt>>

Retry(s) ==
  IF attempt[s] < MaxAttempts
  THEN /\ task' = [task EXCEPT ![s] = "queued"]
       /\ attempt' = [attempt EXCEPT ![s] = @ + 1]
       /\ exec' = exec
  ELSE exec' = "exhausted" /\ UNCHANGED <<task, attempt>>

\* The start-to-close timeout: the only way an attempt of a dead worker ends.
OrphanTimesOut(s) ==
  /\ Running /\ task[s] = "orphaned"
  /\ Retry(s)
  /\ UNCHANGED <<scriptVars, workerVars, scheduled, closed, applied, turns, ran, slow>>

SlowTimesOut(s) ==
  /\ Running /\ task[s] \in Alive
  /\ slow[s] < MaxSlow /\ \A t \in FANOUT_STEPS \ {s} : slow[t] = 0
  /\ Retry(s)
  /\ slow' = [slow EXCEPT ![s] = @ + 1]
  /\ UNCHANGED <<scriptVars, workerVars, scheduled, closed, applied, turns, ran>>

\* A permanent error, of the fan-out or of a later step.
RunFails ==
  /\ Running /\ \E s \in FANOUT_STEPS : task[s] \in Alive
  /\ exec' = "failed"
  /\ UNCHANGED <<scriptVars, workerVars, scheduled, closed, applied, task,
                 attempt, turns, ran, slow>>

Orphaned(w) == [s \in FANOUT_STEPS |-> IF task[s] = w THEN "orphaned" ELSE task[s]]

OtherDies ==
  /\ other = "live"
  /\ other' = "dead" /\ crashes' = crashes + 1
  /\ task' = Orphaned("theirs")
  /\ UNCHANGED <<scriptVars, fresh, worker, exec, scheduled, closed, applied,
                 attempt, turns, ran, slow>>

\* The server keeps the entry of a dead poller for minutes.
EntryAges ==
  /\ other = "dead" /\ fresh
  /\ fresh' = FALSE
  /\ UNCHANGED <<scriptVars, other, worker, crashes, serverVars, turns, ran, slow>>

-----------------------------------------------------------------------------
(* The script *)

Exit(c) == demo' = "exited" /\ code' = c

\* Mistake: the pollers of the task queue are not looked at.
StartUnchecked ==
  /\ demo = "checking"
  /\ demo' = "baseline" /\ worker' = TRUE
  /\ UNCHANGED <<force, code, finishedBefore, counts, other, fresh, crashes,
                 serverVars, turns, ran, slow>>

Refuse ==
  /\ demo = "checking" /\ fresh /\ ~ force
  /\ Exit("2")
  /\ UNCHANGED <<force, finishedBefore, counts, workerVars, serverVars, turns, ran, slow>>

Start ==
  /\ demo = "checking" /\ (fresh => force)
  /\ demo' = "baseline" /\ worker' = TRUE
  /\ UNCHANGED <<force, code, finishedBefore, counts, other, fresh, crashes,
                 serverVars, turns, ran, slow>>

\* Pass 1 of 2, as one step.
BaselineCompletes ==
  /\ demo = "baseline"
  /\ demo' = "watching" /\ exec' = "running"
  /\ UNCHANGED <<force, code, finishedBefore, counts, workerVars, scheduled,
                 closed, applied, task, attempt, turns, ran, slow>>

BaselineRaises ==
  /\ demo = "baseline"
  /\ Exit("raised")
  /\ UNCHANGED <<force, finishedBefore, counts, workerVars, serverVars, turns, ran, slow>>

\* wait_for_partial_fanout asks the workflow, hence a live worker.
Finished == {s \in FANOUT_STEPS : applied[s] = turns[s]}

FanOutIsPartial ==
  /\ demo = "watching" /\ Alive # {} /\ scheduled # Zero
  /\ Finished # {} /\ Finished # FANOUT_STEPS
  /\ demo' = "killing" /\ finishedBefore' = Finished
  /\ UNCHANGED <<force, code, counts, workerVars, serverVars, turns, ran, slow>>

KillOurs ==
  /\ worker' = FALSE /\ crashes' = crashes + 1
  /\ task' = Orphaned("ours")

WatchTimesOut ==
  /\ demo = "watching"
  /\ KillOurs /\ Exit("1")
  /\ UNCHANGED <<force, finishedBefore, counts, other, fresh, exec, scheduled,
                 closed, applied, attempt, turns, ran, slow>>

Kill ==
  /\ demo = "killing"
  /\ KillOurs /\ demo' = "down"
  /\ UNCHANGED <<force, code, finishedBefore, counts, other, fresh, exec,
                 scheduled, closed, applied, attempt, turns, ran, slow>>

\* Mistake: the script waits for the result without a worker.
RestartNothing ==
  /\ demo = "down"
  /\ demo' = "recovering"
  /\ UNCHANGED <<force, code, finishedBefore, counts, workerVars, serverVars,
                 turns, ran, slow>>

Restart ==
  /\ demo = "down"
  /\ demo' = "recovering" /\ worker' = TRUE
  /\ UNCHANGED <<force, code, finishedBefore, counts, other, fresh, crashes,
                 serverVars, turns, ran, slow>>

\* The comparison, and a worker that is told to stop.
ResultArrives ==
  /\ demo = "recovering" /\ exec = "completed"
  /\ counts' = scheduled
  /\ worker' = FALSE /\ Exit("0")
  /\ UNCHANGED <<force, finishedBefore, other, fresh, crashes, serverVars, turns, ran, slow>>

\* handle.result() of a failed execution raises, and nothing catches it.
ResultRaises ==
  /\ demo = "recovering" /\ exec \in {"failed", "exhausted"}
  /\ Exit("raised")
  /\ UNCHANGED <<force, finishedBefore, counts, workerVars, serverVars, turns, ran, slow>>

-----------------------------------------------------------------------------
ServerStep ==
  \/ WorkflowTask
  \/ \E s \in FANOUT_STEPS :
       AttemptStarts(s) \/ AttemptCompletes(s) \/ OrphanTimesOut(s) \/ SlowTimesOut(s)

ScriptStep ==
  \/ Refuse \/ Start \/ BaselineCompletes \/ BaselineRaises
  \/ FanOutIsPartial \/ WatchTimesOut \/ Kill \/ Restart
  \/ ResultArrives \/ ResultRaises

Next == ServerStep \/ RunFails \/ OtherDies \/ EntryAges \/ ScriptStep

Spec == Init /\ [][Next]_vars

\* Live workers take and finish what is queued, timeouts fire, main() goes on.
FairSpec == Spec /\ WF_vars(ServerStep) /\ WF_vars(ScriptStep)

-----------------------------------------------------------------------------
(* Properties *)

\* What a specialist has finished stays finished: whatever happens to workers,
\* nothing of it is scheduled or run a second time (crash_demo.py:3-7,
\* po_approval.py:302-337).
FinishedWorkIsNotRepeated ==
  [][\A s \in FANOUT_STEPS :
       closed[s] = turns[s] => ran'[s] = ran[s] /\ scheduled'[s] = scheduled[s]]_vars

\* The run survives its crashes.  A dead worker costs each specialist at most
\* the one attempt it had in flight, beside the attempts that were too slow; and
\* attempts run out only if an agent was too slow as often as the crashes leave
\* attempts (crash_demo.py:3-7, 96-101, 237-246, 271-276).
CrashCostsOneAttempt ==
  /\ \A s \in FANOUT_STEPS : ran[s] <= turns[s] + slow[s] + crashes
  /\ exec = "exhausted" => \E s \in FANOUT_STEPS : slow[s] + crashes >= MaxAttempts

\* Between the kill and the restart nothing of the run happens, unless the
\* script was forced: another worker would take over, and the comparison would
\* show nothing (crash_demo.py:12-17, 180-203).
InterruptionIsReal ==
  [][demo = "down" /\ ~ force => UNCHANGED <<scheduled, closed, applied, ran>>]_vars

\* The script always comes to its end (crash_demo.py:151-165, 230-244).
DemoEnds == <>(demo = "exited")

-----------------------------------------------------------------------------
(* What the documentation says *)

\* crash_demo.py:250-253: "Every activity execution appends an
\* ActivityTaskScheduled event [...] So these counts are the true number of times
\* each activity body actually ran".
CountsAreExecutions == counts # None => counts = ran
=============================================================================
