--------------------------- MODULE CrashDemoProofs ---------------------------
(***************************************************************************)
(* For any number of specialists, of activities, attempts and slow         *)
(* attempts: what a crash costs, that finished work is not repeated, and   *)
(* that the interruption which the demo shows is one.                      *)
(*                                                                         *)
(* The attempts of a specialist are accounted for one by one: each was     *)
(* completed, was too slow, was lost in a crash, or is being run.          *)
(***************************************************************************)
EXTENDS CrashDemo, TLAPS

InFlight(s) == IF task[s] \in {"ours", "theirs"} THEN 1 ELSE 0
Lost(s) == IF task[s] = "orphaned" THEN 0 ELSE 1

Account(s) ==
  /\ scheduled[s] = IF task[s] = "none" THEN closed[s] ELSE closed[s] + 1
  /\ applied[s] <= closed[s] /\ scheduled[s] <= turns[s]
  /\ ran[s] <= closed[s] + slow[s] + crashes + InFlight(s)
  /\ task[s] # "none" => attempt[s] <= slow[s] + crashes + Lost(s)

Exhausted ==
  exec = "exhausted" => \E s \in FANOUT_STEPS : slow[s] + crashes >= MaxAttempts

\* Who may be there beside the script's own worker.
ScriptInv ==
  /\ other = "live" => fresh
  /\ ~ force /\ demo \notin {"checking", "exited"} => other # "live"
  /\ demo = "down" => ~ worker

IInv ==
  /\ TypeOK /\ Exhausted /\ ScriptInv
  /\ \A s \in FANOUT_STEPS : Account(s)

-----------------------------------------------------------------------------
(* Where it holds *)

\* Nothing has been asked for.
LEMMA InitInv == Init => IInv
<1> SUFFICES ASSUME Init PROVE IInv
  OBVIOUS
<1>1. ScriptOK /\ WorkersOK
  BY DEF Init, ScriptOK, WorkersOK
<1>2. Zero \in [FANOUT_STEPS -> Nat] /\ Zero \in [FANOUT_STEPS -> 0..MaxAttempts]
  BY DemoAssumption DEF Zero
<1>3. HistoryOK
  BY <1>2 DEF Init, HistoryOK
<1>4. \A s \in FANOUT_STEPS : Account(s)
  BY DemoAssumption DEF Init, Zero, Account, InFlight, Lost
<1>5. Exhausted /\ ScriptInv
  BY DEF Init, Exhausted, ScriptInv
<1> QED
  BY <1>1, <1>3, <1>4, <1>5 DEF IInv, TypeOK

\* What the accounts say of one specialist's numbers.
LEMMA Numbers ==
  ASSUME HistoryOK, WorkersOK, NEW s \in FANOUT_STEPS
  PROVE  /\ scheduled[s] \in Nat /\ closed[s] \in Nat /\ applied[s] \in Nat /\ ran[s] \in Nat
         /\ slow[s] \in Nat /\ crashes \in Nat /\ turns[s] \in Nat \ {0} /\ attempt[s] \in Nat
         /\ task[s] \in {"none", "queued", "ours", "theirs", "orphaned"}
  BY DemoAssumption DEF HistoryOK, WorkersOK

-----------------------------------------------------------------------------
(* The server *)

\* The workflow asks for what is due, and for each specialist once.
LEMMA TaskPreserves ==
  ASSUME HistoryOK, WorkersOK, Exhausted, \A s \in FANOUT_STEPS : Account(s), WorkflowTask
  PROVE  HistoryOK' /\ Exhausted' /\ \A s \in FANOUT_STEPS : Account(s)'
<1>1. /\ Running /\ applied' = closed
      /\ scheduled' = [s \in FANOUT_STEPS |-> scheduled[s] + IF s \in Due THEN 1 ELSE 0]
      /\ task' = [s \in FANOUT_STEPS |-> IF s \in Due THEN "queued" ELSE task[s]]
      /\ attempt' = [s \in FANOUT_STEPS |-> IF s \in Due THEN 1 ELSE attempt[s]]
      /\ exec' = IF closed = turns THEN "completed" ELSE exec
      /\ UNCHANGED <<closed, turns, ran, slow, crashes>>
  BY DEF WorkflowTask, workerVars
<1>2. HistoryOK'
  <2>1. 1 \in 0..MaxAttempts
    BY DemoAssumption
  <2>2. /\ scheduled' \in [FANOUT_STEPS -> Nat]
        /\ task' \in [FANOUT_STEPS -> {"none", "queued", "ours", "theirs", "orphaned"}]
        /\ attempt' \in [FANOUT_STEPS -> 0..MaxAttempts]
    BY <1>1, <2>1 DEF HistoryOK
  <2> QED
    BY <1>1, <2>2 DEF HistoryOK
<1>3. Exhausted'
  BY <1>1 DEF Exhausted, Running
<1>4. ASSUME NEW s \in FANOUT_STEPS PROVE Account(s)'
  <2>1. Account(s)
    OBVIOUS
  <2>2. CASE s \in Due
    <3>1. /\ task'[s] = "queued" /\ scheduled'[s] = scheduled[s] + 1 /\ attempt'[s] = 1
          /\ scheduled[s] = closed[s] /\ closed[s] < turns[s]
      BY <1>1, <2>2 DEF Due
    <3>2. task[s] = "none"
      BY <2>1, <3>1, Numbers DEF Account
    <3> QED
      BY <1>1, <2>1, <3>1, <3>2, Numbers DEF Account, InFlight, Lost
  <2>3. CASE s \notin Due
    <3>1. task'[s] = task[s] /\ scheduled'[s] = scheduled[s] /\ attempt'[s] = attempt[s]
      BY <1>1, <2>3, Numbers
    <3> QED
      BY <1>1, <2>1, <3>1, Numbers DEF Account, InFlight, Lost
  <2> QED
    BY <2>2, <2>3
<1> QED
  BY <1>2, <1>3, <1>4

\* An attempt starts, ends, or is timed out and tried again.
LEMMA AttemptPreserves ==
  ASSUME HistoryOK, WorkersOK, Exhausted, \A s \in FANOUT_STEPS : Account(s),
         NEW t \in FANOUT_STEPS,
         AttemptStarts(t) \/ AttemptCompletes(t) \/ OrphanTimesOut(t) \/ SlowTimesOut(t)
  PROVE  HistoryOK' /\ Exhausted' /\ \A s \in FANOUT_STEPS : Account(s)'
<1>1. /\ UNCHANGED <<scheduled, applied, turns, crashes>> /\ Running
      /\ Alive \subseteq {"ours", "theirs"}
  BY DEF AttemptStarts, AttemptCompletes, OrphanTimesOut, SlowTimesOut, workerVars, Alive
<1>2. /\ task[t] # "none" /\ Account(t)
      /\ \/ /\ task[t] = "queued" /\ UNCHANGED <<closed, attempt, slow, exec>>
            /\ \E w \in {"ours", "theirs"} : task' = [task EXCEPT ![t] = w]
            /\ ran' = [ran EXCEPT ![t] = @ + 1]
         \/ /\ task[t] \in {"ours", "theirs"} /\ UNCHANGED <<attempt, slow, exec, ran>>
            /\ task' = [task EXCEPT ![t] = "none"] /\ closed' = [closed EXCEPT ![t] = @ + 1]
         \/ /\ task[t] = "orphaned" /\ Retry(t) /\ UNCHANGED <<closed, slow, ran>>
         \/ /\ task[t] \in {"ours", "theirs"} /\ Retry(t) /\ UNCHANGED <<closed, ran>>
            /\ slow' = [slow EXCEPT ![t] = @ + 1]
  <2>1. CASE AttemptStarts(t)
    BY <1>1, <2>1 DEF AttemptStarts
  <2>2. CASE AttemptCompletes(t)
    BY <1>1, <2>2 DEF AttemptCompletes
  <2>3. CASE OrphanTimesOut(t)
    BY <2>3 DEF OrphanTimesOut
  <2>4. CASE SlowTimesOut(t)
    BY <1>1, <2>4 DEF SlowTimesOut
  <2> QED
    BY <2>1, <2>2, <2>3, <2>4
<1>3. /\ HistoryOK'
      /\ \A s \in FANOUT_STEPS \ {t} :
           /\ task'[s] = task[s] /\ closed'[s] = closed[s] /\ attempt'[s] = attempt[s]
           /\ slow'[s] = slow[s] /\ ran'[s] = ran[s]
  BY <1>1, <1>2, DemoAssumption, Numbers DEF HistoryOK, Retry
<1>4. ASSUME NEW s \in FANOUT_STEPS, s # t PROVE Account(s)'
  BY <1>1, <1>3, <1>4 DEF Account, InFlight, Lost
<1>5. Account(t)'
  BY <1>1, <1>2, DemoAssumption, Numbers DEF HistoryOK, Account, InFlight, Lost, Retry
<1>6. Exhausted'
  <2> SUFFICES ASSUME exec' = "exhausted" PROVE slow'[t] + crashes' >= MaxAttempts
    BY DEF Exhausted
  <2>1. exec = "running" /\ crashes' = crashes
    BY <1>1 DEF Running
  <2>2. exec' # exec
    BY <2>1
  <2>3. Retry(t) /\ ~ (attempt[t] < MaxAttempts)
    BY <1>2, <2>2 DEF Retry
  <2>4. attempt[t] >= MaxAttempts /\ attempt[t] \in Nat /\ slow[t] \in Nat /\ crashes \in Nat
    BY <2>3, DemoAssumption, Numbers
  <2>5. attempt[t] <= slow[t] + crashes + Lost(t)
    BY <1>2 DEF Account
  <2>6. CASE task[t] = "orphaned"
    BY <1>2, <2>1, <2>4, <2>5, <2>6, DemoAssumption DEF Lost
  <2>7. CASE task[t] # "orphaned"
    <3>1. slow'[t] = slow[t] + 1
      BY <1>2, <2>2, <2>7 DEF HistoryOK
    <3> QED
      BY <2>1, <2>4, <2>5, <2>7, <3>1, DemoAssumption DEF Lost
  <2> QED
    BY <2>6, <2>7
<1> QED
  BY <1>3, <1>4, <1>5, <1>6

\* A worker dies: each specialist loses at most the attempt that it was in.
LEMMA DeathPreserves ==
  ASSUME HistoryOK, WorkersOK, Exhausted, \A s \in FANOUT_STEPS : Account(s),
         NEW w \in {"ours", "theirs"}, task' = Orphaned(w), crashes' = crashes + 1,
         UNCHANGED <<exec, scheduled, closed, applied, attempt, turns, ran, slow>>
  PROVE  HistoryOK' /\ Exhausted' /\ \A s \in FANOUT_STEPS : Account(s)'
<1>1. HistoryOK'
  BY DEF HistoryOK, Orphaned
<1>2. Exhausted'
  <2> SUFFICES ASSUME exec' = "exhausted"
               PROVE  \E s \in FANOUT_STEPS : slow'[s] + crashes' >= MaxAttempts
    BY DEF Exhausted
  <2>1. PICK s \in FANOUT_STEPS : slow[s] + crashes >= MaxAttempts
    BY DEF Exhausted
  <2>2. slow[s] \in Nat /\ crashes \in Nat /\ MaxAttempts \in Nat /\ slow'[s] = slow[s]
    BY Numbers, DemoAssumption
  <2>3. slow'[s] + crashes' >= MaxAttempts
    BY <2>1, <2>2
  <2> QED
    BY <2>3
<1>3. ASSUME NEW s \in FANOUT_STEPS PROVE Account(s)'
  <2>1. /\ task'[s] = IF task[s] = w THEN "orphaned" ELSE task[s]
        /\ Account(s)
    BY DEF Orphaned
  <2> QED
    BY <2>1, Numbers DEF Account, InFlight, Lost
<1> QED
  BY <1>1, <1>2, <1>3

-----------------------------------------------------------------------------
(* Every step *)

\* The script: what it leaves alone, and who is there when it looks.
LEMMA ScriptPreserves ==
  ASSUME IInv,
         \/ RunFails \/ EntryAges \/ Refuse \/ Start \/ BaselineCompletes \/ BaselineRaises
         \/ FanOutIsPartial \/ Restart \/ ResultArrives \/ ResultRaises
  PROVE  IInv'
<1>0. ScriptOK /\ WorkersOK /\ HistoryOK /\ Exhausted /\ ScriptInv
  BY DEF IInv, TypeOK
<1>1. /\ UNCHANGED <<scheduled, closed, applied, task, attempt, turns, ran, slow, crashes, other, force>>
      /\ exec' \in {exec, "running", "failed"}
  BY DEF RunFails, EntryAges, Refuse, Start, BaselineCompletes, BaselineRaises, FanOutIsPartial, Restart,
         ResultArrives, ResultRaises, scriptVars, workerVars, serverVars
<1>2. /\ demo' \in {"checking", "baseline", "watching", "killing", "down", "recovering", "exited"}
      /\ code' \in {"none", "0", "1", "2", "raised"}
      /\ finishedBefore' \in {finishedBefore, Finished} /\ counts' \in {counts, scheduled}
      /\ fresh' \in BOOLEAN /\ worker' \in BOOLEAN
  BY <1>0 DEF RunFails, EntryAges, Refuse, Start, BaselineCompletes, BaselineRaises, FanOutIsPartial, Restart,
         ResultArrives, ResultRaises, Exit, scriptVars, workerVars, serverVars, ScriptOK, WorkersOK
<1>3. ScriptOK' /\ WorkersOK'
  <2>1. Finished \subseteq FANOUT_STEPS
    BY DEF Finished
  <2>2. scheduled \in [FANOUT_STEPS -> Nat]
    BY <1>0 DEF HistoryOK
  <2>3. force' \in BOOLEAN
    BY <1>0, <1>1 DEF ScriptOK
  <2> QED
    BY <1>0, <1>1, <1>2, <2>1, <2>2, <2>3 DEF ScriptOK, WorkersOK
<1>4. HistoryOK' /\ Exhausted'
  BY <1>0, <1>1 DEF HistoryOK, Exhausted
<1>5. ScriptInv'
  <2>1. CASE EntryAges \/ RunFails
    BY <1>0, <2>1 DEF EntryAges, RunFails, ScriptInv, scriptVars, workerVars
  <2>2. CASE Start
    BY <1>0, <2>2 DEF Start, ScriptInv
  <2>3. CASE BaselineCompletes \/ FanOutIsPartial \/ Restart
    BY <1>0, <2>3 DEF BaselineCompletes, FanOutIsPartial, Restart, ScriptInv, workerVars
  <2>4. CASE Refuse \/ BaselineRaises \/ ResultArrives \/ ResultRaises
    BY <1>0, <2>4 DEF Refuse, BaselineRaises, ResultArrives, ResultRaises, Exit, ScriptInv, workerVars
  <2> QED
    BY <2>1, <2>2, <2>3, <2>4
<1>6. ASSUME NEW s \in FANOUT_STEPS PROVE Account(s)'
  BY <1>1 DEF IInv, Account, InFlight, Lost
<1> QED
  BY <1>3, <1>4, <1>5, <1>6 DEF IInv, TypeOK

\* Every step keeps the accounts.
LEMMA StepInv == IInv /\ [Next]_vars => IInv'
<1> SUFFICES ASSUME IInv, [Next]_vars PROVE IInv'
  OBVIOUS
<1>0. /\ ScriptOK /\ WorkersOK /\ HistoryOK /\ Exhausted /\ ScriptInv
      /\ \A s \in FANOUT_STEPS : Account(s)
  BY DEF IInv, TypeOK
<1>1. CASE UNCHANGED vars
  BY <1>0, <1>1 DEF vars, scriptVars, workerVars, serverVars, IInv, TypeOK, ScriptOK, WorkersOK, HistoryOK,
                    Exhausted, ScriptInv, Account, InFlight, Lost
<1>2. CASE ServerStep
  <2>1. UNCHANGED <<force, demo, code, finishedBefore, counts, other, fresh, worker, crashes>>
    BY <1>2 DEF ServerStep, WorkflowTask, AttemptStarts, AttemptCompletes, OrphanTimesOut, SlowTimesOut,
                scriptVars, workerVars
  <2>2. ScriptOK' /\ WorkersOK' /\ ScriptInv'
    BY <1>0, <2>1 DEF ScriptOK, WorkersOK, ScriptInv
  <2>3. HistoryOK' /\ Exhausted' /\ \A s \in FANOUT_STEPS : Account(s)'
    BY <1>0, <1>2, TaskPreserves, AttemptPreserves DEF ServerStep
  <2> QED
    BY <2>2, <2>3 DEF IInv, TypeOK
<1>3. CASE OtherDies \/ WatchTimesOut \/ Kill
  <2>1. /\ crashes' = crashes + 1 /\ (\E w \in {"ours", "theirs"} : task' = Orphaned(w))
        /\ UNCHANGED <<exec, scheduled, closed, applied, attempt, turns, ran, slow>>
    BY <1>3 DEF OtherDies, WatchTimesOut, Kill, KillOurs
  <2>2. HistoryOK' /\ Exhausted' /\ \A s \in FANOUT_STEPS : Account(s)'
    BY <1>0, <2>1, DeathPreserves
  <2>3. /\ UNCHANGED <<force, fresh, finishedBefore, counts>>
        /\ demo' \in {demo, "exited", "down"} /\ code' \in {code, "1"} /\ other' \in {other, "dead"}
        /\ worker' \in {worker, FALSE}
    BY <1>3 DEF OtherDies, WatchTimesOut, Kill, KillOurs, Exit, scriptVars
  <2>4. ScriptOK' /\ WorkersOK'
    <3>1. force' \in BOOLEAN /\ fresh' \in BOOLEAN /\ worker' \in BOOLEAN
      BY <1>0, <2>3, Zenon DEF ScriptOK, WorkersOK
    <3>2. crashes' \in Nat /\ other' \in {"none", "live", "dead"}
      BY <1>0, <2>1, <2>3 DEF WorkersOK
    <3> QED
      BY <1>0, <2>3, <3>1, <3>2 DEF ScriptOK, WorkersOK
  <2>5. ScriptInv'
    BY <1>0, <1>3 DEF OtherDies, WatchTimesOut, Kill, KillOurs, Exit, scriptVars, ScriptInv
  <2> QED
    BY <2>2, <2>4, <2>5 DEF IInv, TypeOK
<1>4. CASE RunFails \/ EntryAges \/ (ScriptStep /\ ~ WatchTimesOut /\ ~ Kill)
  BY <1>4, ScriptPreserves DEF ScriptStep
<1> QED
  BY <1>1, <1>2, <1>3, <1>4 DEF Next

\* For any number of specialists, activities, attempts and crashes: the
\* attempts of each specialist are accounted for (crash_demo.py:96-101).
THEOREM Invariance == Spec => []IInv
<1> QED
  BY InitInv, StepInv, PTL DEF Spec

\* The variables keep their types.
THEOREM TypeCorrectness == Spec => []TypeOK
<1>1. IInv => TypeOK
  BY DEF IInv
<1> QED
  BY <1>1, Invariance, PTL

\* A crash costs a specialist one attempt at most, and by itself it does not
\* exhaust the attempts of an agent (crash_demo.py:96-101, 237-246, 271-276).
THEOREM CrashCost == Spec => []CrashCostsOneAttempt
<1>1. IInv => CrashCostsOneAttempt
  <2> SUFFICES ASSUME IInv PROVE CrashCostsOneAttempt
    OBVIOUS
  <2>1. HistoryOK /\ WorkersOK /\ Exhausted
    BY DEF IInv, TypeOK
  <2>2. ASSUME NEW s \in FANOUT_STEPS PROVE ran[s] <= turns[s] + slow[s] + crashes
    <3>1. Account(s)
      BY DEF IInv
    <3> QED
      BY <2>1, <3>1, Numbers DEF Account, InFlight
  <2> QED
    BY <2>1, <2>2 DEF CrashCostsOneAttempt, Exhausted
<1> QED
  BY <1>1, Invariance, PTL

\* What a specialist has finished is not asked for or run again, whatever
\* dies (crash_demo.py:3-7, po_approval.py:302-337).
THEOREM FinishedStaysFinished == Spec => FinishedWorkIsNotRepeated
<1>1. IInv /\ [Next]_vars
        => [\A s \in FANOUT_STEPS :
              closed[s] = turns[s] => ran'[s] = ran[s] /\ scheduled'[s] = scheduled[s]]_vars
  <2> SUFFICES ASSUME IInv, Next, NEW s \in FANOUT_STEPS, closed[s] = turns[s]
               PROVE  ran'[s] = ran[s] /\ scheduled'[s] = scheduled[s]
    OBVIOUS
  <2>1. HistoryOK /\ WorkersOK /\ Account(s)
    BY DEF IInv, TypeOK
  <2>2. task[s] = "none" /\ s \notin Due
    BY <2>1, Numbers DEF Account, Due
  <2>3. CASE WorkflowTask
    BY <2>1, <2>2, <2>3, Numbers DEF WorkflowTask
  <2>4. CASE \E t \in FANOUT_STEPS : AttemptStarts(t)
    BY <2>1, <2>2, <2>4 DEF AttemptStarts, HistoryOK
  <2> QED
    BY <2>3, <2>4
       DEF Next, ServerStep, AttemptCompletes, OrphanTimesOut, SlowTimesOut, RunFails, OtherDies, EntryAges,
           ScriptStep, Refuse, Start, BaselineCompletes, BaselineRaises, FanOutIsPartial, WatchTimesOut,
           Kill, Restart, ResultArrives, ResultRaises, serverVars
<1> QED
  BY <1>1, Invariance, PTL DEF Spec, FinishedWorkIsNotRepeated

\* Unless it was forced, the demo has no worker between the kill and the
\* restart, and the run stands still (crash_demo.py:12-17, 180-203).
THEOREM InterruptionStands == Spec => InterruptionIsReal
<1>1. IInv /\ [Next]_vars
        => [demo = "down" /\ ~ force => UNCHANGED <<scheduled, closed, applied, ran>>]_vars
  <2> SUFFICES ASSUME IInv, Next, demo = "down", ~ force
               PROVE  UNCHANGED <<scheduled, closed, applied, ran>>
    OBVIOUS
  <2>1. Alive = {}
    BY DEF IInv, ScriptInv, Alive
  <2> QED
    BY <2>1
       DEF Next, ServerStep, WorkflowTask, AttemptStarts, AttemptCompletes, OrphanTimesOut, SlowTimesOut,
           RunFails, OtherDies, EntryAges,
           ScriptStep, Refuse, Start, BaselineCompletes, BaselineRaises, FanOutIsPartial, WatchTimesOut,
           Kill, Restart, ResultArrives, ResultRaises, serverVars
<1> QED
  BY <1>1, Invariance, PTL DEF Spec, InterruptionIsReal

-----------------------------------------------------------------------------
(* How much is run in all *)

\* What the activities that are done have cost at most, and the one that is
\* pending so far.
Budget(s) ==
  closed[s] * MaxAttempts
    + IF task[s] = "none" THEN 0
      ELSE IF task[s] = "queued" THEN attempt[s] - 1 ELSE attempt[s]

WorkInv == \A s \in FANOUT_STEPS : ran[s] <= Budget(s)

LEMMA BudgetPreserves ==
  ASSUME IInv, WorkInv, [Next]_vars, NEW s \in FANOUT_STEPS
  PROVE  (ran[s] <= Budget(s))'
<1>1. /\ HistoryOK /\ WorkersOK /\ ran[s] <= Budget(s)
      /\ MaxAttempts \in Nat \ {0} /\ closed[s] * MaxAttempts \in Nat
      /\ attempt[s] \in 0..MaxAttempts
  <2>1. HistoryOK /\ WorkersOK
    BY DEF IInv, TypeOK
  <2> QED
    BY <2>1, Numbers, DemoAssumption DEF WorkInv, HistoryOK
<1>2. CASE WorkflowTask
  <2>1. UNCHANGED <<ran, closed>>
    BY <1>2 DEF WorkflowTask
  <2>2. CASE s \in Due
    <3>1. task'[s] = "queued" /\ attempt'[s] = 1 /\ task[s] = "none"
      BY <1>1, <1>2, <2>2, Numbers DEF WorkflowTask, Due, IInv, Account
    <3> QED
      BY <1>1, <2>1, <3>1 DEF Budget
  <2>3. CASE s \notin Due
    <3>1. task'[s] = task[s] /\ attempt'[s] = attempt[s]
      BY <1>1, <1>2, <2>3 DEF WorkflowTask
    <3> QED
      BY <1>1, <2>1, <3>1 DEF Budget
  <2> QED
    BY <2>2, <2>3
<1>3. ASSUME NEW t \in FANOUT_STEPS,
             AttemptStarts(t) \/ AttemptCompletes(t) \/ OrphanTimesOut(t) \/ SlowTimesOut(t)
      PROVE  (ran[s] <= Budget(s))'
  <2>0. Alive \subseteq {"ours", "theirs"}
    BY DEF Alive
  <2>1. CASE s # t
    <3>1. ran'[s] = ran[s] /\ closed'[s] = closed[s] /\ task'[s] = task[s] /\ attempt'[s] = attempt[s]
      BY <1>1, <1>3, <2>1
      DEF AttemptStarts, AttemptCompletes, OrphanTimesOut, SlowTimesOut, Retry, HistoryOK
    <3> QED
      BY <1>1, <3>1 DEF Budget
  <2>2. CASE s = t /\ AttemptStarts(t)
    <3>1. /\ ran'[s] = ran[s] + 1 /\ closed'[s] = closed[s] /\ attempt'[s] = attempt[s]
          /\ task[s] = "queued" /\ task'[s] \in {"ours", "theirs"}
      BY <1>1, <2>0, <2>2 DEF AttemptStarts, HistoryOK
    <3> QED
      BY <1>1, <3>1, Numbers DEF Budget
  <2>3. CASE s = t /\ AttemptCompletes(t)
    <3>1. /\ ran'[s] = ran[s] /\ closed'[s] = closed[s] + 1
          /\ task[s] \in {"ours", "theirs"} /\ task'[s] = "none"
      BY <1>1, <2>0, <2>3 DEF AttemptCompletes, HistoryOK
    <3>2. (closed[s] + 1) * MaxAttempts = closed[s] * MaxAttempts + MaxAttempts
      BY <1>1, Numbers
    <3> QED
      BY <1>1, <3>1, <3>2, Numbers DEF Budget
  <2>4. CASE s = t /\ (OrphanTimesOut(t) \/ SlowTimesOut(t))
    <3>1. ran'[s] = ran[s] /\ closed'[s] = closed[s] /\ task[s] \in {"ours", "theirs", "orphaned"}
      BY <2>0, <2>4 DEF OrphanTimesOut, SlowTimesOut
    <3>2. \/ task'[s] = "queued" /\ attempt'[s] = attempt[s] + 1
          \/ task'[s] = task[s] /\ attempt'[s] = attempt[s]
      BY <1>1, <2>4 DEF OrphanTimesOut, SlowTimesOut, Retry, HistoryOK
    <3> QED
      BY <1>1, <3>1, <3>2, Numbers DEF Budget
  <2> QED
    BY <1>3, <2>1, <2>2, <2>3, <2>4
<1>4. CASE OtherDies \/ WatchTimesOut \/ Kill
  <2>1. UNCHANGED <<ran, closed, attempt>>
    BY <1>4 DEF OtherDies, WatchTimesOut, Kill
  <2>2. task'[s] = task[s] \/ (task[s] \in {"ours", "theirs"} /\ task'[s] = "orphaned")
    BY <1>4 DEF OtherDies, WatchTimesOut, Kill, KillOurs, Orphaned
  <2> QED
    BY <1>1, <2>1, <2>2 DEF Budget
<1>5. CASE \/ UNCHANGED vars \/ RunFails \/ EntryAges
           \/ (ScriptStep /\ ~ WatchTimesOut /\ ~ Kill)
  <2>1. UNCHANGED <<ran, closed, attempt, task>>
    BY <1>5 DEF vars, RunFails, EntryAges, ScriptStep, Refuse, Start, BaselineCompletes, BaselineRaises,
                FanOutIsPartial, Restart, ResultArrives, ResultRaises, serverVars
  <2> QED
    BY <1>1, <2>1 DEF Budget
<1> QED
  BY <1>2, <1>3, <1>4, <1>5 DEF Next, ServerStep

\* However many workers die, no specialist is run more often than the retry
\* policy allows for its activities: what a crash takes, it takes from there
\* (crash_demo.py:3-7, po_approval.py:302-337).
THEOREM WorkIsBounded == Spec => [](\A s \in FANOUT_STEPS : ran[s] <= turns[s] * MaxAttempts)
<1>1. Init => WorkInv
  BY DemoAssumption DEF Init, Zero, WorkInv, Budget
<1>2. IInv /\ WorkInv /\ [Next]_vars => WorkInv'
  BY BudgetPreserves DEF WorkInv
<1>3. IInv /\ WorkInv => \A s \in FANOUT_STEPS : ran[s] <= turns[s] * MaxAttempts
  <2> SUFFICES ASSUME IInv, WorkInv, NEW s \in FANOUT_STEPS
               PROVE  ran[s] <= turns[s] * MaxAttempts
    OBVIOUS
  <2>1. HistoryOK /\ WorkersOK /\ Account(s) /\ ran[s] <= Budget(s)
    BY DEF IInv, TypeOK, WorkInv
  <2>2. MaxAttempts \in Nat /\ attempt[s] \in 0..MaxAttempts
    BY <2>1, DemoAssumption DEF HistoryOK
  <2>3. PICK d \in Nat : turns[s] = closed[s] + d /\ (task[s] # "none" => d >= 1)
    <3>1. turns[s] - closed[s] \in Nat /\ (task[s] # "none" => turns[s] - closed[s] >= 1)
      BY <2>1, Numbers DEF Account
    <3> QED
      BY <2>1, <3>1, Numbers
  <2>4. /\ turns[s] * MaxAttempts = closed[s] * MaxAttempts + d * MaxAttempts
        /\ closed[s] * MaxAttempts \in Nat /\ d * MaxAttempts \in Nat
    BY <2>1, <2>2, <2>3, Numbers
  <2>5. d >= 1 => d * MaxAttempts >= MaxAttempts
    <3>1. ASSUME d >= 1
          PROVE  d * MaxAttempts = (d - 1) * MaxAttempts + MaxAttempts /\ (d - 1) * MaxAttempts \in Nat
      BY <2>2, <3>1
    <3> QED
      BY <2>2, <3>1
  <2> QED
    BY <2>1, <2>2, <2>3, <2>4, <2>5, Numbers DEF Budget
<1> QED
  BY <1>1, <1>2, <1>3, Invariance, PTL DEF Spec
=============================================================================
