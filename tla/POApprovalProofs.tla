-------------------------- MODULE POApprovalProofs --------------------------
(***************************************************************************)
(* Theorems about POApproval, for every set of reviewers, every policy and *)
(* every retry policy; and, at the end, about ScenarioRunner, which adds   *)
(* the driver to it: the driver leaves the workflow what it is, so all     *)
(* that holds of the one holds of the two, and what it announces is true.  *)
(***************************************************************************)
EXTENDS ScenarioRunner, TLAPS

USE DEF Specialists, ToolLessAgents

-----------------------------------------------------------------------------
(* Type correctness *)

LEMMA InitTypeOK == Init => TypeOK
  BY NoneAssumption, AttemptAssumption
  DEF Init, TypeOK, Steps, StepStatus, WorkflowState, ClosedStates

\* The results of the deterministic rules are of their type.
LEMMA CheckGuardrailsType ==
  ASSUME NEW po PROVE CheckGuardrails(po) \in GuardrailResult
  BY DEF CheckGuardrails, GuardrailResult

LEMMA ClearCurrentType ==
  ASSUME currentStep \in Steps \cup {None}, NEW name
  PROVE  ClearCurrent(name) \in Steps \cup {None}
  BY DEF ClearCurrent

\* A failing execution only changes its status.
LEMMA FailsTypeOK ==
  ASSUME TypeOK, ExecutionFails, UNCHANGED <<guardAttempt, erpAttempt>>,
         late' \in SUBSET Nat
  PROVE  TypeOK'
  BY DEF ExecutionFails, TypeOK, factVars, callerVars

LEMMA RetryTypeOK == ASSUME TypeOK, RetryErp, late' \in SUBSET Nat PROVE TypeOK'
<1>1. CASE erpAttempt' = NextAttempt /\ erpTask' = "running"
           /\ UNCHANGED <<input, runVars, factVars, decision, guardAttempt, booked,
                          callerVars>>
  BY <1>1 DEF TypeOK, NextAttempt, runVars, factVars, callerVars
<1>2. CASE ExecutionFails /\ UNCHANGED <<guardAttempt, erpAttempt>>
  BY <1>2, FailsTypeOK
<1> QED
  BY <1>1, <1>2 DEF RetryErp

LEMMA NextTypeOK == TypeOK /\ [Next]_vars => TypeOK'
<1> SUFFICES ASSUME TypeOK, [Next]_vars PROVE TypeOK'
  OBVIOUS
<1> USE NoneAssumption, AttemptAssumption
    DEF TypeOK, Steps, StepStatus, WorkflowState, ClosedStates, vars, runVars,
        factVars, activityVars, callerVars, Parked, Close
<1>1. CASE RunStarts
  BY <1>1 DEF RunStarts
<1>2. CASE ExtractCompletes
  BY <1>2 DEF ExtractCompletes
<1>3. ASSUME NEW s \in Specialists, SpecialistCompletes(s) PROVE TypeOK'
  BY <1>3, ClearCurrentType DEF SpecialistCompletes
<1>4. CASE SupervisorCompletes
  BY <1>4 DEF SupervisorCompletes
<1>5. CASE AgentFails
  BY <1>5, FailsTypeOK DEF AgentFails
<1>6. CASE AgentWedges
  BY <1>6 DEF AgentWedges
<1>7. CASE GuardrailBlocks
  BY <1>7 DEF GuardrailBlocks, GuardrailReports, GuardrailResult
<1>8. CASE SupervisorRejects
  BY <1>8, CheckGuardrailsType DEF SupervisorRejects, GuardrailReports
<1>9. CASE HumanIsAsked
  BY <1>9, CheckGuardrailsType DEF HumanIsAsked, GuardrailReports
<1>10. CASE AutoApproved
  BY <1>10, CheckGuardrailsType DEF AutoApproved, GuardrailReports, ErpStarts
<1>11. CASE GuardrailAttemptLost
  <2>1. CASE guardAttempt' = guardAttempt + 1
             /\ UNCHANGED <<input, runVars, factVars, decision, erpAttempt, erpTask,
                            booked, late, callerVars>>
    BY <2>1
  <2>2. CASE ExecutionFails /\ UNCHANGED <<guardAttempt, erpAttempt, late>>
    BY <2>2, FailsTypeOK
  <2> QED
    BY <1>11, <2>1, <2>2 DEF GuardrailAttemptLost
<1>12. CASE DeadlinePasses
  BY <1>12 DEF DeadlinePasses
<1>13. CASE ReviewerApproved
  BY <1>13 DEF ReviewerApproved, ErpStarts, HandlersReturn, Reply
<1>14. CASE ReviewerRejected
  BY <1>14 DEF ReviewerRejected, HandlersReturn, Reply
<1>15. CASE ErpAttemptFails
  BY <1>15, RetryTypeOK DEF ErpAttemptFails
<1>16. CASE ErpAccepts
  BY <1>16 DEF ErpAccepts
<1>17. CASE ErpAttemptLost
  <2>1. late' \in SUBSET Nat
    BY <1>17 DEF ErpAttemptLost
  <2> QED
    BY <1>17, <2>1, RetryTypeOK DEF ErpAttemptLost
<1>18. CASE ErpReports
  BY <1>18 DEF ErpReports
<1>19. ASSUME NEW c \in Reviewers, ValidatorRejects(c) PROVE TypeOK'
  BY <1>19 DEF ValidatorRejects
<1>20. ASSUME NEW c \in Reviewers, NEW a \in BOOLEAN, SubmitDecision(c, a)
       PROVE  TypeOK'
  BY <1>20 DEF SubmitDecision, Decision
<1>21. ASSUME NEW c \in Reviewers, NEW a \in BOOLEAN, Decide(c, a)
       PROVE  TypeOK'
  BY <1>21 DEF Decide, Decision
<1>22. CASE UNCHANGED vars
  BY <1>22
<1>23. CASE ErpAcceptsLate
  BY <1>23 DEF ErpAcceptsLate
<1> QED
  BY <1>1, <1>2, <1>3, <1>4, <1>5, <1>6, <1>7, <1>8, <1>9, <1>10, <1>11, <1>12,
     <1>13, <1>14, <1>15, <1>16, <1>17, <1>18, <1>19, <1>20, <1>21, <1>22, <1>23
  DEF Next, WorkflowStep, ReviewerStep

\* Every field of the workflow, of its activities and of its callers keeps its
\* type (POApprovalWorkflow, po_approval.py:91-485).
THEOREM TypeCorrectness == Spec => []TypeOK
  BY InitTypeOK, NextTypeOK, PTL DEF Spec

-----------------------------------------------------------------------------
(* The rules *)

Severity(judged) ==
  CASE judged = "clean" -> 0 [] judged = "requires_approval" -> 1 [] OTHER -> 2

\* The rules never judge the larger of two orders of a vendor more leniently,
\* wherever the threshold in force lies, above the hard limit too; and an order
\* above the hard limit is blocked whatever that threshold is
\* (guardrail.py:54-77).
THEOREM LargerIsNotMilder ==
  ASSUME input \in Input, NEW po \in ExtractedPO, NEW larger \in ExtractedPO,
         larger.vendor = po.vendor, larger.amount >= po.amount
  PROVE  /\ Severity(CheckGuardrails(po)) <= Severity(CheckGuardrails(larger))
         /\ po.amount > HardThreshold => CheckGuardrails(po) = "blocked"
<1>1. po.amount \in Nat /\ larger.amount \in Nat /\ HardThreshold \in Nat
  BY PolicyAssumption DEF ExtractedPO
<1>2. Threshold \in Nat
  BY PolicyAssumption DEF Input, Threshold
<1>3. VendorIsBlocked(po.vendor) <=> VendorIsBlocked(larger.vendor)
  OBVIOUS
<1> QED
  BY <1>1, <1>2, <1>3 DEF CheckGuardrails, Severity

-----------------------------------------------------------------------------
(* The inductive invariant *)

\* Once the request is reviewable it stays so, whatever else happens.
LEMMA ReviewableStable ==
  ASSUME UNCHANGED <<input, extracted, findings, supervisor, guardrail>>
  PROVE  /\ Reviewable' <=> Reviewable
         /\ NeedsHuman(supervisor, guardrail)' <=> NeedsHuman(supervisor, guardrail)
  BY DEF Reviewable, CheckGuardrails, VendorIsBlocked, Threshold, NeedsHuman

\* The completion of the guardrail makes the request reviewable, unless it is
\* to be closed at once.
LEMMA GuardrailMakesReviewable ==
  ASSUME IInv, GuardrailReports, guardrail' # "blocked", supervisor # "reject"
  PROVE  Reviewable'
<1>1. CheckGuardrails(extracted)' = CheckGuardrails(extracted)
  BY DEF GuardrailReports, CheckGuardrails, VendorIsBlocked, Threshold
<1> QED
  BY <1>1, NoneAssumption
  DEF GuardrailReports, Reviewable, IInv, TypeOK, StageInv, Parked

\* Every retry policy allows a first attempt.
LEMMA FirstAttemptAllowed == ASSUME TypeOK PROVE Allowed(1)
<1>1. input.maxAttempts \in Nat
  BY AttemptAssumption DEF TypeOK, Input
<1> QED
  BY <1>1 DEF Allowed, Unlimited

\* An attempt that the policy does not allow comes after its last one.
LEMMA LastAttempt ==
  ASSUME TypeOK, Allowed(erpAttempt), ~ Allowed(erpAttempt + 1)
  PROVE  erpAttempt = input.maxAttempts
<1>1. input.maxAttempts \in Nat /\ erpAttempt \in Nat
  BY AttemptAssumption DEF TypeOK, Input
<1> QED
  BY <1>1 DEF Allowed, Unlimited

\* The attempt counted next is allowed, and none before this one.
LEMMA NextAttemptAllowed ==
  ASSUME TypeOK, Allowed(erpAttempt + 1)
  PROVE  NextAttempt \in Nat /\ NextAttempt >= erpAttempt /\ Allowed(NextAttempt)
<1>1. input.maxAttempts \in Nat /\ erpAttempt \in Nat
  BY AttemptAssumption DEF TypeOK, Input
<1> QED
  BY <1>1 DEF Allowed, Unlimited, NextAttempt

\* A retry keeps the attempt inside the policy and what is booked, or may still
\* be, below it.
LEMMA RetryKeepsBooking ==
  ASSUME IInv, Parked("erp"), RetryErp,
         late' \subseteq late \cup {n \in {erpAttempt} : n > input.seeded}
  PROVE  BookingInv'
<1>1. Cleared' <=> Cleared
  BY ReviewableStable
  DEF RetryErp, ExecutionFails, Cleared, factVars
<1>2. TypeOK /\ TypeOK' /\ exec = "running" /\ pc = "erp"
  <2>1. late' \in SUBSET Nat
    BY DEF IInv, TypeOK
  <2> QED
    BY <2>1, RetryTypeOK DEF IInv, Parked
<1>3. /\ input.maxAttempts \in Nat /\ input.seeded \in Nat
      /\ erpAttempt \in Nat /\ booked \subseteq Nat /\ late \subseteq Nat
  BY <1>2, AttemptAssumption DEF TypeOK, Input
<1>4. /\ Cleared /\ erp = None /\ erpAttempt >= 1 /\ Allowed(erpAttempt)
      /\ \A n \in booked \cup late :
           input.seeded < n /\ n <= erpAttempt /\ Allowed(n)
  BY <1>2 DEF IInv, StageInv, BookingInv
<1>5. /\ booked' = booked /\ input' = input /\ pc' = "erp" /\ erp' = None
      /\ exec' \in {"running", "failed"}
  BY <1>2, <1>4 DEF RetryErp, ExecutionFails, runVars, factVars
<1>6. \A n : Allowed(n)' <=> Allowed(n)
  BY <1>5 DEF Allowed, Unlimited
<1>7. \A n \in booked' \cup late' :
        input.seeded < n /\ n <= erpAttempt /\ Allowed(n) /\ n \in Nat
  BY <1>3, <1>4, <1>5
<1>8. CASE /\ Allowed(erpAttempt + 1) /\ erpAttempt' = NextAttempt
           /\ erpTask' = "running"
           /\ UNCHANGED <<input, runVars, factVars, decision, guardAttempt, booked,
                          callerVars>>
  <2>1. erpAttempt' \in Nat /\ erpAttempt' >= erpAttempt /\ Allowed(erpAttempt')
    BY <1>2, <1>8, NextAttemptAllowed
  <2>2. erpAttempt' >= 1 /\ Allowed(erpAttempt)'
    <3>1. erpAttempt' >= 1
      BY <1>3, <1>4, <2>1
    <3> QED
      BY <1>5, <2>1, <3>1 DEF Allowed, Unlimited
  <2>3. \A n \in booked' \cup late' : n <= erpAttempt'
    BY <1>3, <1>7, <2>1
  <2>4. exec' = "running"
    BY <1>2, <1>8 DEF runVars
  <2>5. \A n \in booked' \cup late' :
          input'.seeded < n /\ n <= erpAttempt' /\ Allowed(n)'
    BY <1>5, <1>6, <1>7, <2>3
  <2> QED
    BY <1>1, <1>4, <1>5, <1>8, <2>2, <2>4, <2>5 DEF BookingInv
<1>9. CASE /\ ~ Allowed(erpAttempt + 1)
           /\ ExecutionFails /\ UNCHANGED <<guardAttempt, erpAttempt>>
  <2>1. erpAttempt = input.maxAttempts
    BY <1>2, <1>4, <1>9, LastAttempt
  <2>2. UNCHANGED <<erpAttempt, erpTask>>
    BY <1>9 DEF ExecutionFails
  <2>3. erpTask = "accepted" => erpAttempt \in booked
    BY <1>2 DEF IInv, BookingInv
  <2>4. \A n \in booked' \cup late' :
          input'.seeded < n /\ n <= erpAttempt' /\ Allowed(n)'
    BY <1>5, <1>6, <1>7, <2>2
  <2> QED
    BY <1>1, <1>4, <1>5, <1>6, <2>1, <2>2, <2>3, <2>4, NoneAssumption
    DEF BookingInv, Allowed, Unlimited
<1> QED
  BY <1>8, <1>9 DEF RetryErp

LEMMA InitIInv == Init => IInv
  BY InitTypeOK, NoneAssumption
  DEF Init, IInv, StageInv, BookingInv, CallerInv, OutcomeIsJustified

LEMMA NextIInv == IInv /\ [Next]_vars => IInv'
<1> SUFFICES ASSUME IInv, [Next]_vars PROVE IInv'
  OBVIOUS
<1>0. TypeOK'
  BY NextTypeOK DEF IInv
<1> USE NoneAssumption, AttemptAssumption
    DEF Parked, Close, vars, runVars, factVars, activityVars, callerVars
<1>1. CASE RunStarts
  <2>1. StageInv'
    BY <1>1, <1>0, ReviewableStable DEF RunStarts, IInv, TypeOK, StageInv, BookingInv, CallerInv, OutcomeIsJustified, Cleared
  <2>2. BookingInv'
    BY <1>1, <1>0, ReviewableStable DEF RunStarts, IInv, TypeOK, StageInv, BookingInv, CallerInv, OutcomeIsJustified, Cleared
  <2>3. CallerInv'
    BY <1>1, <1>0, ReviewableStable DEF RunStarts, IInv, TypeOK, StageInv, BookingInv, CallerInv, OutcomeIsJustified, Cleared
  <2>4. OutcomeIsJustified'
    BY <1>1, <1>0, ReviewableStable DEF RunStarts, IInv, TypeOK, StageInv, BookingInv, CallerInv, OutcomeIsJustified, Cleared
  <2> QED
    BY <1>0, <2>1, <2>2, <2>3, <2>4 DEF IInv
<1>2. CASE ExtractCompletes
  <2>1. StageInv'
    BY <1>2, <1>0, ReviewableStable DEF ExtractCompletes, IInv, TypeOK, StageInv, BookingInv, CallerInv, OutcomeIsJustified, Cleared
  <2>2. BookingInv'
    BY <1>2, <1>0, ReviewableStable DEF ExtractCompletes, IInv, TypeOK, StageInv, BookingInv, CallerInv, OutcomeIsJustified, Cleared
  <2>3. CallerInv'
    BY <1>2, <1>0, ReviewableStable DEF ExtractCompletes, IInv, TypeOK, StageInv, BookingInv, CallerInv, OutcomeIsJustified, Cleared
  <2>4. OutcomeIsJustified'
    BY <1>2, <1>0, ReviewableStable DEF ExtractCompletes, IInv, TypeOK, StageInv, BookingInv, CallerInv, OutcomeIsJustified, Cleared
  <2> QED
    BY <1>0, <2>1, <2>2, <2>3, <2>4 DEF IInv
<1>3. ASSUME NEW s \in Specialists, SpecialistCompletes(s) PROVE IInv'
  <2>1. StageInv'
    BY <1>3, <1>0, ReviewableStable DEF SpecialistCompletes, IInv, TypeOK, StageInv, BookingInv, CallerInv, OutcomeIsJustified, Cleared
  <2>2. BookingInv'
    BY <1>3, <1>0, ReviewableStable DEF SpecialistCompletes, IInv, TypeOK, StageInv, BookingInv, CallerInv, OutcomeIsJustified, Cleared
  <2>3. CallerInv'
    BY <1>3, <1>0, ReviewableStable DEF SpecialistCompletes, IInv, TypeOK, StageInv, BookingInv, CallerInv, OutcomeIsJustified, Cleared
  <2>4. OutcomeIsJustified'
    BY <1>3, <1>0, ReviewableStable DEF SpecialistCompletes, IInv, TypeOK, StageInv, BookingInv, CallerInv, OutcomeIsJustified, Cleared
  <2> QED
    BY <1>0, <2>1, <2>2, <2>3, <2>4 DEF IInv
<1>4. CASE SupervisorCompletes
  <2>1. StageInv'
    BY <1>4, <1>0, ReviewableStable DEF SupervisorCompletes, IInv, TypeOK, StageInv, BookingInv, CallerInv, OutcomeIsJustified, Cleared
  <2>2. BookingInv'
    BY <1>4, <1>0, ReviewableStable DEF SupervisorCompletes, IInv, TypeOK, StageInv, BookingInv, CallerInv, OutcomeIsJustified, Cleared
  <2>3. CallerInv'
    BY <1>4, <1>0, ReviewableStable DEF SupervisorCompletes, IInv, TypeOK, StageInv, BookingInv, CallerInv, OutcomeIsJustified, Cleared
  <2>4. OutcomeIsJustified'
    BY <1>4, <1>0, ReviewableStable DEF SupervisorCompletes, IInv, TypeOK, StageInv, BookingInv, CallerInv, OutcomeIsJustified, Cleared
  <2> QED
    BY <1>0, <2>1, <2>2, <2>3, <2>4 DEF IInv
<1>5. CASE AgentFails
  <2>1. StageInv'
    BY <1>5, <1>0, ReviewableStable DEF AgentFails, ExecutionFails, RunningAgents, IInv, TypeOK, StageInv, BookingInv, CallerInv, OutcomeIsJustified, Cleared
  <2>2. BookingInv'
    BY <1>5, <1>0, ReviewableStable DEF AgentFails, ExecutionFails, RunningAgents, IInv, TypeOK, StageInv, BookingInv, CallerInv, OutcomeIsJustified, Cleared
  <2>3. CallerInv'
    BY <1>5, <1>0, ReviewableStable DEF AgentFails, ExecutionFails, RunningAgents, IInv, TypeOK, StageInv, BookingInv, CallerInv, OutcomeIsJustified, Cleared
  <2>4. OutcomeIsJustified'
    BY <1>5, <1>0, ReviewableStable DEF AgentFails, ExecutionFails, RunningAgents, IInv, TypeOK, StageInv, BookingInv, CallerInv, OutcomeIsJustified, Cleared
  <2> QED
    BY <1>0, <2>1, <2>2, <2>3, <2>4 DEF IInv
<1>6. CASE AgentWedges
  <2>1. StageInv'
    BY <1>6, <1>0, ReviewableStable DEF AgentWedges, RunningAgents, IInv, TypeOK, StageInv, BookingInv, CallerInv, OutcomeIsJustified, Cleared
  <2>2. BookingInv'
    BY <1>6, <1>0, ReviewableStable DEF AgentWedges, RunningAgents, IInv, TypeOK, StageInv, BookingInv, CallerInv, OutcomeIsJustified, Cleared
  <2>3. CallerInv'
    BY <1>6, <1>0, ReviewableStable DEF AgentWedges, RunningAgents, IInv, TypeOK, StageInv, BookingInv, CallerInv, OutcomeIsJustified, Cleared
  <2>4. OutcomeIsJustified'
    BY <1>6, <1>0, ReviewableStable DEF AgentWedges, RunningAgents, IInv, TypeOK, StageInv, BookingInv, CallerInv, OutcomeIsJustified, Cleared
  <2> QED
    BY <1>0, <2>1, <2>2, <2>3, <2>4 DEF IInv
<1>7. CASE GuardrailBlocks
  <2>1. StageInv'
    BY <1>7, <1>0, ReviewableStable DEF ClosedStates, GuardrailBlocks, GuardrailReports, IInv, TypeOK, StageInv, BookingInv, CallerInv, OutcomeIsJustified, Cleared
  <2>2. BookingInv'
    BY <1>7, <1>0, ReviewableStable DEF GuardrailBlocks, GuardrailReports, IInv, TypeOK, StageInv, BookingInv, CallerInv, OutcomeIsJustified, Cleared
  <2>3. CallerInv'
    BY <1>7, <1>0, ReviewableStable DEF GuardrailBlocks, GuardrailReports, IInv, TypeOK, StageInv, BookingInv, CallerInv, OutcomeIsJustified, Cleared
  <2>4. OutcomeIsJustified'
    BY <1>7, <1>0, ReviewableStable DEF GuardrailBlocks, GuardrailReports, IInv, TypeOK, StageInv, BookingInv, CallerInv, OutcomeIsJustified, Cleared
  <2> QED
    BY <1>0, <2>1, <2>2, <2>3, <2>4 DEF IInv
<1>8. CASE SupervisorRejects
  <2>1. StageInv'
    BY <1>8, <1>0, ReviewableStable DEF ClosedStates, SupervisorRejects, GuardrailReports, IInv, TypeOK, StageInv, BookingInv, CallerInv, OutcomeIsJustified, Cleared
  <2>2. BookingInv'
    BY <1>8, <1>0, ReviewableStable DEF SupervisorRejects, GuardrailReports, IInv, TypeOK, StageInv, BookingInv, CallerInv, OutcomeIsJustified, Cleared
  <2>3. CallerInv'
    BY <1>8, <1>0, ReviewableStable DEF SupervisorRejects, GuardrailReports, IInv, TypeOK, StageInv, BookingInv, CallerInv, OutcomeIsJustified, Cleared
  <2>4. OutcomeIsJustified'
    BY <1>8, <1>0, ReviewableStable DEF SupervisorRejects, GuardrailReports, IInv, TypeOK, StageInv, BookingInv, CallerInv, OutcomeIsJustified, Cleared
  <2> QED
    BY <1>0, <2>1, <2>2, <2>3, <2>4 DEF IInv
<1>9. CASE HumanIsAsked
  <2>1. StageInv'
    BY <1>9, <1>0, GuardrailMakesReviewable DEF NeedsHuman, HumanIsAsked, GuardrailReports, IInv, TypeOK, StageInv, BookingInv, CallerInv, OutcomeIsJustified, Cleared
  <2>2. BookingInv'
    BY <1>9, <1>0, ReviewableStable DEF HumanIsAsked, GuardrailReports, IInv, TypeOK, StageInv, BookingInv, CallerInv, OutcomeIsJustified, Cleared
  <2>3. CallerInv'
    BY <1>9, <1>0, ReviewableStable DEF HumanIsAsked, GuardrailReports, IInv, TypeOK, StageInv, BookingInv, CallerInv, OutcomeIsJustified, Cleared
  <2>4. OutcomeIsJustified'
    BY <1>9, <1>0, ReviewableStable DEF HumanIsAsked, GuardrailReports, IInv, TypeOK, StageInv, BookingInv, CallerInv, OutcomeIsJustified, Cleared
  <2> QED
    BY <1>0, <2>1, <2>2, <2>3, <2>4 DEF IInv
<1>10. CASE AutoApproved
  <2>1. StageInv'
    BY <1>10, <1>0, GuardrailMakesReviewable DEF NeedsHuman, AutoApproved, GuardrailReports, ErpStarts, IInv, TypeOK, StageInv, BookingInv, CallerInv, OutcomeIsJustified, Cleared
  <2>2. BookingInv'
    <3>1. /\ booked' = {} /\ late' = {} /\ erp' = None
          /\ erpTask' = "running" /\ pc' = "erp"
      BY <1>10 DEF AutoApproved, GuardrailReports, ErpStarts, IInv, StageInv, BookingInv
    <3>2. erpAttempt' = 1 /\ Allowed(1)' /\ exec' = "running"
      BY <1>10, FirstAttemptAllowed
      DEF AutoApproved, GuardrailReports, ErpStarts, IInv, Allowed, Unlimited
    <3> QED
      BY <3>1, <3>2 DEF BookingInv, Allowed, Unlimited
  <2>3. CallerInv'
    BY <1>10, <1>0, ReviewableStable DEF AutoApproved, GuardrailReports, ErpStarts, IInv, TypeOK, StageInv, BookingInv, CallerInv, OutcomeIsJustified, Cleared
  <2>4. OutcomeIsJustified'
    BY <1>10, <1>0, ReviewableStable DEF AutoApproved, GuardrailReports, ErpStarts, IInv, TypeOK, StageInv, BookingInv, CallerInv, OutcomeIsJustified, Cleared
  <2> QED
    BY <1>0, <2>1, <2>2, <2>3, <2>4 DEF IInv
<1>11. CASE GuardrailAttemptLost
  <2>1. StageInv'
    BY <1>11, <1>0, ReviewableStable DEF GuardrailAttemptLost, ExecutionFails, IInv, TypeOK, StageInv, BookingInv, CallerInv, OutcomeIsJustified, Cleared
  <2>2. BookingInv'
    BY <1>11, <1>0, ReviewableStable DEF GuardrailAttemptLost, ExecutionFails, IInv, TypeOK, StageInv, BookingInv, CallerInv, OutcomeIsJustified, Cleared
  <2>3. CallerInv'
    BY <1>11, <1>0, ReviewableStable DEF GuardrailAttemptLost, ExecutionFails, IInv, TypeOK, StageInv, BookingInv, CallerInv, OutcomeIsJustified, Cleared
  <2>4. OutcomeIsJustified'
    BY <1>11, <1>0, ReviewableStable DEF GuardrailAttemptLost, ExecutionFails, IInv, TypeOK, StageInv, BookingInv, CallerInv, OutcomeIsJustified, Cleared
  <2> QED
    BY <1>0, <2>1, <2>2, <2>3, <2>4 DEF IInv
<1>12. CASE DeadlinePasses
  <2>1. StageInv'
    BY <1>12, <1>0, ReviewableStable DEF ClosedStates, DeadlinePasses, IInv, TypeOK, StageInv, BookingInv, CallerInv, OutcomeIsJustified, Cleared
  <2>2. BookingInv'
    BY <1>12, <1>0, ReviewableStable DEF DeadlinePasses, IInv, TypeOK, StageInv, BookingInv, CallerInv, OutcomeIsJustified, Cleared
  <2>3. CallerInv'
    BY <1>12, <1>0, ReviewableStable DEF DeadlinePasses, IInv, TypeOK, StageInv, BookingInv, CallerInv, OutcomeIsJustified, Cleared
  <2>4. OutcomeIsJustified'
    BY <1>12, <1>0, ReviewableStable DEF Reviewable, NeedsHuman, DeadlinePasses, IInv, TypeOK, StageInv, BookingInv, CallerInv, OutcomeIsJustified, Cleared
  <2> QED
    BY <1>0, <2>1, <2>2, <2>3, <2>4 DEF IInv
<1>13. CASE ReviewerApproved
  <2>1. StageInv'
    BY <1>13, <1>0, ReviewableStable DEF ReviewerApproved, ErpStarts, HandlersReturn, IInv, TypeOK, StageInv, BookingInv, CallerInv, OutcomeIsJustified, Cleared
  <2>2. BookingInv'
    <3>1. /\ booked' = {} /\ late' = {} /\ erp' = None
          /\ erpTask' = "running" /\ pc' = "erp"
      BY <1>13 DEF ReviewerApproved, ErpStarts, HandlersReturn, IInv, StageInv, BookingInv
    <3>2. erpAttempt' = 1 /\ Allowed(1)' /\ exec' = "running"
      BY <1>13, FirstAttemptAllowed
      DEF ReviewerApproved, ErpStarts, HandlersReturn, IInv, Allowed, Unlimited
    <3> QED
      BY <3>1, <3>2 DEF BookingInv, Allowed, Unlimited
  <2>3. CallerInv'
    BY <1>13, <1>0, ReviewableStable DEF ReviewerApproved, ErpStarts, HandlersReturn, IInv, TypeOK, StageInv, BookingInv, CallerInv, OutcomeIsJustified, Cleared
  <2>4. OutcomeIsJustified'
    BY <1>13, <1>0, ReviewableStable DEF ReviewerApproved, ErpStarts, HandlersReturn, IInv, TypeOK, StageInv, BookingInv, CallerInv, OutcomeIsJustified, Cleared
  <2> QED
    BY <1>0, <2>1, <2>2, <2>3, <2>4 DEF IInv
<1>14. CASE ReviewerRejected
  <2>1. StageInv'
    BY <1>14, <1>0, ReviewableStable DEF ClosedStates, ReviewerRejected, HandlersReturn, IInv, TypeOK, StageInv, BookingInv, CallerInv, OutcomeIsJustified, Cleared
  <2>2. BookingInv'
    BY <1>14, <1>0, ReviewableStable DEF ReviewerRejected, HandlersReturn, IInv, TypeOK, StageInv, BookingInv, CallerInv, OutcomeIsJustified, Cleared
  <2>3. CallerInv'
    BY <1>14, <1>0, ReviewableStable DEF ReviewerRejected, HandlersReturn, IInv, TypeOK, StageInv, BookingInv, CallerInv, OutcomeIsJustified, Cleared
  <2>4. OutcomeIsJustified'
    BY <1>14, <1>0, ReviewableStable DEF Reviewable, NeedsHuman, ReviewerRejected, HandlersReturn, IInv, TypeOK, StageInv, BookingInv, CallerInv, OutcomeIsJustified, Cleared
  <2> QED
    BY <1>0, <2>1, <2>2, <2>3, <2>4 DEF IInv
<1>15. CASE ErpAttemptFails
  <2>1. StageInv'
    BY <1>15, <1>0, ReviewableStable DEF ErpAttemptFails, RetryErp, ExecutionFails, IInv, TypeOK, StageInv, BookingInv, CallerInv, OutcomeIsJustified, Cleared
  <2>2. BookingInv'
    <3>1. late' \subseteq late \cup {n \in {erpAttempt} : n > input.seeded}
      BY <1>15 DEF ErpAttemptFails
    <3> HIDE DEF Parked
    <3> QED
      BY <1>15, <3>1, RetryKeepsBooking DEF ErpAttemptFails
  <2>3. CallerInv'
    BY <1>15, <1>0, ReviewableStable DEF ErpAttemptFails, RetryErp, ExecutionFails, IInv, TypeOK, StageInv, BookingInv, CallerInv, OutcomeIsJustified, Cleared
  <2>4. OutcomeIsJustified'
    BY <1>15, <1>0, ReviewableStable DEF ErpAttemptFails, RetryErp, ExecutionFails, IInv, TypeOK, StageInv, BookingInv, CallerInv, OutcomeIsJustified, Cleared
  <2> QED
    BY <1>0, <2>1, <2>2, <2>3, <2>4 DEF IInv
<1>16. CASE ErpAccepts
  <2>1. StageInv'
    BY <1>16, <1>0, ReviewableStable DEF ErpAccepts, IInv, TypeOK, StageInv, BookingInv, CallerInv, OutcomeIsJustified, Cleared
  <2>2. BookingInv'
    BY <1>16, <1>0, ReviewableStable DEF Allowed, Unlimited, ErpAccepts, IInv, TypeOK, StageInv, BookingInv, CallerInv, OutcomeIsJustified, Cleared
  <2>3. CallerInv'
    BY <1>16, <1>0, ReviewableStable DEF ErpAccepts, IInv, TypeOK, StageInv, BookingInv, CallerInv, OutcomeIsJustified, Cleared
  <2>4. OutcomeIsJustified'
    BY <1>16, <1>0, ReviewableStable DEF ErpAccepts, IInv, TypeOK, StageInv, BookingInv, CallerInv, OutcomeIsJustified, Cleared
  <2> QED
    BY <1>0, <2>1, <2>2, <2>3, <2>4 DEF IInv
<1>17. CASE ErpAttemptLost
  <2>1. StageInv'
    BY <1>17, <1>0, ReviewableStable DEF ErpAttemptLost, RetryErp, ExecutionFails, IInv, TypeOK, StageInv, BookingInv, CallerInv, OutcomeIsJustified, Cleared
  <2>2. BookingInv'
    <3>1. late' \subseteq late \cup {n \in {erpAttempt} : n > input.seeded}
      BY <1>17 DEF ErpAttemptLost
    <3> HIDE DEF Parked
    <3> QED
      BY <1>17, <3>1, RetryKeepsBooking DEF ErpAttemptLost
  <2>3. CallerInv'
    BY <1>17, <1>0, ReviewableStable DEF ErpAttemptLost, RetryErp, ExecutionFails, IInv, TypeOK, StageInv, BookingInv, CallerInv, OutcomeIsJustified, Cleared
  <2>4. OutcomeIsJustified'
    BY <1>17, <1>0, ReviewableStable DEF ErpAttemptLost, RetryErp, ExecutionFails, IInv, TypeOK, StageInv, BookingInv, CallerInv, OutcomeIsJustified, Cleared
  <2> QED
    BY <1>0, <2>1, <2>2, <2>3, <2>4 DEF IInv
<1>18. CASE ErpReports
  <2>1. StageInv'
    BY <1>18, <1>0, ReviewableStable DEF ClosedStates, ErpReports, IInv, TypeOK, StageInv, BookingInv, CallerInv, OutcomeIsJustified, Cleared
  <2>2. BookingInv'
    BY <1>18, <1>0, ReviewableStable DEF Allowed, Unlimited, ErpReports, IInv, TypeOK, StageInv, BookingInv, CallerInv, OutcomeIsJustified, Cleared
  <2>3. CallerInv'
    BY <1>18, <1>0, ReviewableStable DEF ErpReports, IInv, TypeOK, StageInv, BookingInv, CallerInv, OutcomeIsJustified, Cleared
  <2>4. OutcomeIsJustified'
    BY <1>18, <1>0, ReviewableStable DEF Reviewable, NeedsHuman, ErpReports, IInv, TypeOK, StageInv, BookingInv, CallerInv, OutcomeIsJustified, Cleared
  <2> QED
    BY <1>0, <2>1, <2>2, <2>3, <2>4 DEF IInv
<1>19. ASSUME NEW c \in Reviewers, ValidatorRejects(c) PROVE IInv'
  <2>1. StageInv'
    BY <1>19, <1>0, ReviewableStable DEF ValidatorRejects, IInv, TypeOK, StageInv, BookingInv, CallerInv, OutcomeIsJustified, Cleared
  <2>2. BookingInv'
    BY <1>19, <1>0, ReviewableStable DEF Allowed, Unlimited, ValidatorRejects, IInv, TypeOK, StageInv, BookingInv, CallerInv, OutcomeIsJustified, Cleared
  <2>3. CallerInv'
    BY <1>19, <1>0, ReviewableStable DEF ValidatorRejects, IInv, TypeOK, StageInv, BookingInv, CallerInv, OutcomeIsJustified, Cleared
  <2>4. OutcomeIsJustified'
    BY <1>19, <1>0, ReviewableStable DEF ValidatorRejects, IInv, TypeOK, StageInv, BookingInv, CallerInv, OutcomeIsJustified, Cleared
  <2> QED
    BY <1>0, <2>1, <2>2, <2>3, <2>4 DEF IInv
<1>20. ASSUME NEW c \in Reviewers, NEW a \in BOOLEAN, SubmitDecision(c, a) PROVE IInv'
  <2>1. StageInv'
    BY <1>20, <1>0, ReviewableStable DEF SubmitDecision, IInv, TypeOK, StageInv, BookingInv, CallerInv, OutcomeIsJustified, Cleared
  <2>2. BookingInv'
    BY <1>20, <1>0, ReviewableStable DEF SubmitDecision, IInv, TypeOK, StageInv, BookingInv, CallerInv, OutcomeIsJustified, Cleared
  <2>3. CallerInv'
    <3>1. pc = "approval" /\ decision = None
      BY <1>20 DEF SubmitDecision, IInv, StageInv, ClosedStates
    <3>2. \A d \in Reviewers : update[d] # "accepted" /\ reply[d] = None
      BY <3>1 DEF IInv, CallerInv
    <3>3. decision' # None /\ decision'.by = c /\ pc' = "approval"
      BY <1>0, <1>20, <3>1 DEF SubmitDecision, Decision
    <3>4. \A d \in Reviewers : (update'[d] = "accepted" => d = c) /\ reply'[d] = None
      BY <1>20, <3>2 DEF SubmitDecision, IInv, TypeOK
    <3> QED
      BY <3>3, <3>4 DEF CallerInv
  <2>4. OutcomeIsJustified'
    BY <1>20, <1>0, ReviewableStable DEF SubmitDecision, IInv, TypeOK, StageInv, BookingInv, CallerInv, OutcomeIsJustified, Cleared
  <2> QED
    BY <1>0, <2>1, <2>2, <2>3, <2>4 DEF IInv
<1>21. ASSUME NEW c \in Reviewers, NEW a \in BOOLEAN, Decide(c, a) PROVE IInv'
  <2>1. StageInv'
    BY <1>21, <1>0, ReviewableStable DEF Decide, IInv, TypeOK, StageInv, BookingInv, CallerInv, OutcomeIsJustified, Cleared
  <2>2. BookingInv'
    BY <1>21, <1>0, ReviewableStable DEF Allowed, Unlimited, Decide, IInv, TypeOK, StageInv, BookingInv, CallerInv, OutcomeIsJustified, Cleared
  <2>3. CallerInv'
    BY <1>21, <1>0, ReviewableStable DEF Decide, IInv, TypeOK, StageInv, BookingInv, CallerInv, OutcomeIsJustified, Cleared
  <2>4. OutcomeIsJustified'
    BY <1>21, <1>0, ReviewableStable DEF Decide, IInv, TypeOK, StageInv, BookingInv, CallerInv, OutcomeIsJustified, Cleared
  <2> QED
    BY <1>0, <2>1, <2>2, <2>3, <2>4 DEF IInv
<1>22. CASE UNCHANGED vars
  <2>1. StageInv'
    BY <1>22, <1>0, ReviewableStable DEF vars, IInv, TypeOK, StageInv, BookingInv, CallerInv, OutcomeIsJustified, Cleared
  <2>2. BookingInv'
    BY <1>22, <1>0, ReviewableStable DEF Allowed, Unlimited, vars, IInv, TypeOK, StageInv, BookingInv, CallerInv, OutcomeIsJustified, Cleared
  <2>3. CallerInv'
    BY <1>22, <1>0, ReviewableStable DEF vars, IInv, TypeOK, StageInv, BookingInv, CallerInv, OutcomeIsJustified, Cleared
  <2>4. OutcomeIsJustified'
    BY <1>22, <1>0, ReviewableStable DEF vars, IInv, TypeOK, StageInv, BookingInv, CallerInv, OutcomeIsJustified, Cleared
  <2> QED
    BY <1>0, <2>1, <2>2, <2>3, <2>4 DEF IInv
<1>23. CASE ErpAcceptsLate
  <2>1. StageInv'
    BY <1>23, <1>0, ReviewableStable DEF ErpAcceptsLate, IInv, TypeOK, StageInv, BookingInv, CallerInv, OutcomeIsJustified, Cleared
  <2>2. BookingInv'
    BY <1>23, <1>0, ReviewableStable DEF ErpAcceptsLate, Allowed, Unlimited, IInv, TypeOK, StageInv, BookingInv, CallerInv, OutcomeIsJustified, Cleared
  <2>3. CallerInv'
    BY <1>23, <1>0, ReviewableStable DEF ErpAcceptsLate, IInv, TypeOK, StageInv, BookingInv, CallerInv, OutcomeIsJustified, Cleared
  <2>4. OutcomeIsJustified'
    BY <1>23, <1>0, ReviewableStable DEF ErpAcceptsLate, IInv, TypeOK, StageInv, BookingInv, CallerInv, OutcomeIsJustified, Cleared
  <2> QED
    BY <1>0, <2>1, <2>2, <2>3, <2>4 DEF IInv
<1> QED
  BY <1>1, <1>2, <1>3, <1>4, <1>5, <1>6, <1>7, <1>8, <1>9, <1>10, <1>11, <1>12, <1>13, <1>14, <1>15, <1>16, <1>17, <1>18, <1>19, <1>20, <1>21, <1>22, <1>23
  DEF Next, WorkflowStep, ReviewerStep

THEOREM Invariance == Spec => []IInv
  BY InitIInv, NextIInv, PTL DEF Spec

-----------------------------------------------------------------------------
(* What the invariant gives *)

\* The ERP never holds a submission that a rule, the supervisor or a human
\* stood against (po_approval.py:210-252, guardrail.py:54-77).
THEOREM BookingSafety == Spec => []BookedOnlyIfCleared
<1>1. IInv => BookedOnlyIfCleared
  <2> SUFFICES ASSUME IInv, booked # {} PROVE BookedOnlyIfCleared
    BY DEF BookedOnlyIfCleared
  <2>1. Cleared
    BY DEF IInv, BookingInv
  <2>2. extracted \in ExtractedPO
    BY <2>1 DEF Cleared, Reviewable, IInv, TypeOK
  <2>3. extracted.amount \in Nat /\ HardThreshold \in Nat
    BY <2>2, PolicyAssumption DEF ExtractedPO
  <2>4. ~ VendorIsBlocked(extracted.vendor) /\ extracted.amount <= HardThreshold
    BY <2>1, <2>3 DEF Cleared, Reviewable, CheckGuardrails
  <2>5. extracted.amount > Threshold => guardrail = "requires_approval"
    BY <2>1, <2>4, <2>3 DEF Cleared, Reviewable, CheckGuardrails
  <2> QED
    BY <2>1, <2>4, <2>5 DEF Cleared, Reviewable, NeedsHuman, BookedOnlyIfCleared
<1> QED
  BY <1>1, Invariance, PTL

\* A closed workflow reports the outcome its facts call for
\* (po_approval.py:217-257).
THEOREM OutcomeSafety == Spec => []OutcomeIsJustified
<1>1. IInv => OutcomeIsJustified
  BY DEF IInv
<1> QED
  BY <1>1, Invariance, PTL

\* A caller is answered with that caller's own decision
\* (po_approval.py:168-191).
THEOREM ReplySafety == Spec => []ReplyIsTheCallersOwn
<1>1. IInv => ReplyIsTheCallersOwn
  BY DEF IInv, CallerInv, ReplyIsTheCallersOwn
<1> QED
  BY <1>1, Invariance, PTL

\* The confirmation on record is that of the latest accepted submission
\* (erp.py:44-72, po_approval.py:448-454).
THEOREM ConfirmationSafety == Spec => []ConfirmationIsTheLatest
<1>1. IInv => ConfirmationIsTheLatest
  BY DEF IInv, BookingInv, ConfirmationIsTheLatest
<1> QED
  BY <1>1, Invariance, PTL

\* Whichever way a second decision arrives, the first one stands
\* (po_approval.py:175, 190-191, 197).
THEOREM DecisionStands == Spec => DecisionIsFinal
<1>1. [Next]_vars => (decision # None => decision' = decision)
  <2> SUFFICES ASSUME [Next]_vars, decision # None PROVE decision' = decision
    OBVIOUS
  <2> USE DEF vars
  <2>1. CASE WorkflowStep
    BY <2>1 DEF WorkflowStep, RunStarts, ExtractCompletes, SpecialistCompletes,
      SupervisorCompletes, AgentFails, AgentWedges, ExecutionFails, GuardrailReports,
      GuardrailBlocks, SupervisorRejects, HumanIsAsked, AutoApproved,
      GuardrailAttemptLost, DeadlinePasses, ReviewerApproved, ReviewerRejected,
      RetryErp, ErpAttemptFails, ErpAccepts, ErpAttemptLost, ErpReports
  <2>2. CASE ReviewerStep
    BY <2>2 DEF ReviewerStep, ValidatorRejects, SubmitDecision, Decide
  <2>3. CASE ErpAcceptsLate
    BY <2>3 DEF ErpAcceptsLate
  <2> QED
    BY <2>1, <2>2, <2>3 DEF Next
<1>2. [][Next]_vars => DecisionIsFinal
  BY <1>1, PTL DEF DecisionIsFinal
<1> QED
  BY <1>2, PTL DEF Spec

-----------------------------------------------------------------------------
(* The step ledger *)

LEMMA InitStepInv == Init => StepInv
  BY DEF Init, StepInv

LEMMA NextStepInv == IInv /\ IInv' /\ StepInv /\ [Next]_vars => StepInv'
<1> SUFFICES ASSUME IInv, IInv', StepInv, [Next]_vars PROVE StepInv'
  OBVIOUS
<1>0. /\ step \in [Steps -> StepStatus] /\ currentStep \in Steps \cup {None}
      /\ findings \subseteq Specialists \cup {"supervisor"}
  BY DEF IInv, TypeOK
<1> USE NoneAssumption, <1>0 DEF StepInv, AgentsHaveReported, Steps, Parked, Close, vars, runVars,
        factVars, activityVars, callerVars
<1>1. CASE RunStarts
  BY <1>1 DEF RunStarts, IInv, StageInv
<1>2. CASE ExtractCompletes
  BY <1>2 DEF ExtractCompletes
<1>3. ASSUME NEW s \in Specialists, SpecialistCompletes(s) PROVE StepInv'
  BY <1>3 DEF SpecialistCompletes, ClearCurrent
<1>4. CASE SupervisorCompletes
  BY <1>4 DEF SupervisorCompletes
<1>5. CASE AgentFails
  BY <1>5 DEF AgentFails, ExecutionFails
<1>6. CASE AgentWedges
  BY <1>6 DEF AgentWedges
<1>7. CASE GuardrailBlocks
  BY <1>7 DEF GuardrailBlocks, GuardrailReports, IInv, StageInv
<1>8. CASE SupervisorRejects
  BY <1>8 DEF SupervisorRejects, GuardrailReports, IInv, StageInv
<1>9. CASE HumanIsAsked
  BY <1>9 DEF HumanIsAsked, GuardrailReports, IInv, StageInv
<1>10. CASE AutoApproved
  BY <1>10 DEF AutoApproved, GuardrailReports, ErpStarts, IInv, StageInv
<1>11. CASE GuardrailAttemptLost
  BY <1>11 DEF GuardrailAttemptLost, ExecutionFails
<1>12. CASE DeadlinePasses
  BY <1>12 DEF DeadlinePasses
<1>13. CASE ReviewerApproved
  BY <1>13 DEF ReviewerApproved, ErpStarts
<1>14. CASE ReviewerRejected
  BY <1>14 DEF ReviewerRejected
<1>15. CASE ErpAttemptFails
  BY <1>15 DEF ErpAttemptFails, RetryErp, ExecutionFails
<1>16. CASE ErpAccepts
  BY <1>16 DEF ErpAccepts
<1>17. CASE ErpAttemptLost
  BY <1>17 DEF ErpAttemptLost, RetryErp, ExecutionFails
<1>18. CASE ErpReports
  BY <1>18 DEF ErpReports, IInv, StageInv
<1>19. ASSUME NEW c \in Reviewers, ValidatorRejects(c) PROVE StepInv'
  BY <1>19 DEF ValidatorRejects
<1>20. ASSUME NEW c \in Reviewers, NEW a \in BOOLEAN, SubmitDecision(c, a)
       PROVE  StepInv'
  BY <1>20 DEF SubmitDecision, IInv, StageInv, ClosedStates
<1>21. ASSUME NEW c \in Reviewers, NEW a \in BOOLEAN, Decide(c, a) PROVE StepInv'
  BY <1>21 DEF Decide, IInv, StageInv, ClosedStates
<1>22. CASE UNCHANGED vars
  BY <1>22
<1>23. CASE ErpAcceptsLate
  BY <1>23 DEF ErpAcceptsLate
<1> QED
  BY <1>1, <1>2, <1>3, <1>4, <1>5, <1>6, <1>7, <1>8, <1>9, <1>10, <1>11, <1>12,
     <1>13, <1>14, <1>15, <1>16, <1>17, <1>18, <1>19, <1>20, <1>21, <1>22, <1>23
  DEF Next, WorkflowStep, ReviewerStep

LEMMA StepInvariance == Spec => []StepInv
  BY InitStepInv, NextStepInv, Invariance, PTL DEF Spec

\* At every close the ledger the UI draws agrees with the outcome: no step is
\* left open, and the approval and the ERP step say how it ended
\* (po_approval.py:114-144).
THEOREM LedgerSafety == Spec => []LedgerAgreesWithOutcome
<1>1. IInv /\ StepInv => LedgerAgreesWithOutcome
  <2> SUFFICES ASSUME IInv, StepInv, exec = "completed" PROVE LedgerAgreesWithOutcome
    BY DEF LedgerAgreesWithOutcome
  <2>1. pc = "done" /\ state \in ClosedStates
    BY DEF IInv, StageInv
  <2>2. state = "approval_timed_out" => decision = None
    BY DEF IInv, OutcomeIsJustified
  <2> QED
    BY <2>1, <2>2 DEF StepInv, AgentsHaveReported, Steps, LedgerAgreesWithOutcome
<1> QED
  BY <1>1, Invariance, StepInvariance, PTL

\* The current step, if there is one, is a step in progress
\* (po_approval.py:119, 138-139, 467).
THEOREM CurrentStepSafety == Spec => []CurrentStepIsInProgress
<1>1. IInv /\ StepInv => CurrentStepIsInProgress
  BY DEF IInv, TypeOK, StepInv, CurrentStepIsInProgress
<1> QED
  BY <1>1, Invariance, StepInvariance, PTL

-----------------------------------------------------------------------------
(* The workflow implements the contract *)

LEMMA InitRefines == Init => Contract!ContractInit
  BY AttemptAssumption DEF Init, Input, Phase, AnswerOnRecord, Contract!ContractInit

\* What is still on its way to the ERP is of a cleared request.
LEMMA LateIsAfterClearance ==
  ASSUME IInv, NEW n \in late PROVE Phase \in Contract!Bookable
<1>1. pc \in {"erp", "done"} /\ Cleared
  BY DEF IInv, BookingInv
<1>2. CASE pc = "erp"
  BY <1>2 DEF IInv, TypeOK, StageInv, Phase, Contract!Bookable
<1>3. CASE pc = "done"
  BY <1>1, <1>3 DEF IInv, StageInv, OutcomeIsJustified, Cleared, Reviewable, Phase,
                    ClosedStates, Contract!Bookable
<1> QED
  BY <1>1, <1>2, <1>3

LEMMA NextRefines ==
  ASSUME IInv, IInv', [Next]_vars
  PROVE  [Contract!ContractNext]_Contract!contractVars
<1> DEFINE Stays == UNCHANGED <<input.maxAttempts, Phase, AnswerOnRecord, booked>>
<1> USE NoneAssumption DEF Parked, Close, Phase, AnswerOnRecord, Contract!Move, vars,
        runVars, factVars, activityVars, callerVars
<1>1. RunStarts => Stays
  BY DEF RunStarts, IInv, StageInv
<1>2. ExtractCompletes => Stays
  BY DEF ExtractCompletes, IInv, StageInv
<1>3. ASSUME NEW s \in Specialists, SpecialistCompletes(s)
      PROVE  Stays
  BY <1>3 DEF SpecialistCompletes, IInv, StageInv
<1>4. SupervisorCompletes => Stays
  BY DEF SupervisorCompletes, IInv, StageInv
<1>5. AgentFails => Contract!Break
  BY DEF AgentFails, ExecutionFails, RunningAgents, Contract!Break, IInv, StageInv
<1>6. AgentWedges => Contract!Break
  BY DEF AgentWedges, RunningAgents, Contract!Break, IInv, StageInv
<1>7. GuardrailBlocks => Contract!Decline
  BY DEF GuardrailBlocks, GuardrailReports, Contract!Decline, IInv, StageInv
<1>8. SupervisorRejects => Contract!Decline
  BY DEF SupervisorRejects, GuardrailReports, Contract!Decline, IInv, StageInv
<1>9. HumanIsAsked => Contract!Ask
  BY DEF HumanIsAsked, GuardrailReports, Contract!Ask, IInv, StageInv
<1>10. AutoApproved => Contract!Clear
  BY DEF AutoApproved, GuardrailReports, ErpStarts, Contract!Clear, IInv, StageInv
<1>11. GuardrailAttemptLost => Contract!Break \/ Stays
  BY DEF GuardrailAttemptLost, ExecutionFails, Contract!Break, IInv, StageInv
<1>12. DeadlinePasses => Contract!Expire
  BY DEF DeadlinePasses, Contract!Expire, IInv, StageInv
<1>13. ReviewerApproved => Contract!Grant
  BY DEF ReviewerApproved, ErpStarts, Contract!Grant, IInv, StageInv
<1>14. ReviewerRejected => Contract!Refuse
  BY DEF ReviewerRejected, Contract!Refuse, IInv, StageInv
<1>15. ErpAttemptFails => Contract!Abandon \/ Stays
  BY DEF ErpAttemptFails, RetryErp, Allowed, Unlimited, ExecutionFails, Contract!Abandon
<1>16. ErpAccepts => \E n \in booked' : Contract!Book(n)
  <2> SUFFICES ASSUME ErpAccepts PROVE Contract!Book(erpAttempt) /\ erpAttempt \in booked'
    OBVIOUS
  <2>1. /\ erpAttempt \in Nat \ {0} /\ Allowed(erpAttempt)
        /\ exec = "running" /\ pc = "erp"
    BY DEF ErpAccepts, IInv, TypeOK, BookingInv
  <2>2. /\ booked' = booked \cup {erpAttempt}
        /\ UNCHANGED <<input, runVars, decision>>
    BY DEF ErpAccepts
  <2> QED
    BY <2>1, <2>2 DEF Contract!Book, Contract!Bookable, Allowed, Unlimited
<1>17. ErpAttemptLost => Contract!Abandon \/ Stays
  BY DEF ErpAttemptLost, RetryErp, Allowed, Unlimited, ExecutionFails, Contract!Abandon
<1>18. ErpReports => Contract!Confirm
  BY DEF ErpReports, Contract!Confirm, IInv, StageInv, BookingInv
<1>19. ASSUME NEW c \in Reviewers, ValidatorRejects(c)
       PROVE  Stays
  BY <1>19 DEF ValidatorRejects, IInv, StageInv
<1>20. ASSUME NEW c \in Reviewers, NEW a \in BOOLEAN, SubmitDecision(c, a)
       PROVE  \E b \in {"approve", "reject"} : Contract!Answer(b)
  <2>1. pc = "approval" /\ exec = "running" /\ decision = None
    BY <1>20 DEF SubmitDecision, IInv, StageInv, ClosedStates
  <2>2. decision' # None /\ decision'.approved = a
    BY <1>20 DEF SubmitDecision, Decision
  <2> QED
    BY <1>20, <2>1, <2>2 DEF SubmitDecision, Contract!Answer
<1>21. ASSUME NEW c \in Reviewers, NEW a \in BOOLEAN, Decide(c, a)
       PROVE  Stays \/ \E b \in {"approve", "reject"} : Contract!Answer(b)
  BY <1>21 DEF Decide, Contract!Answer, IInv, StageInv
<1>22. UNCHANGED vars => Stays
  BY DEF vars, IInv, StageInv
<1>23. ErpAcceptsLate => \E n \in booked' : Contract!Book(n)
  <2> SUFFICES ASSUME NEW n \in late, booked' = booked \cup {n},
                      UNCHANGED <<input, runVars, decision>>
               PROVE  Contract!Book(n)
    BY DEF ErpAcceptsLate
  <2>1. Cleared /\ Allowed(n) /\ n \in Nat /\ input.seeded < n
    BY DEF IInv, TypeOK, BookingInv
  <2>2. input.seeded \in Nat
    BY AttemptAssumption DEF IInv, TypeOK, Input
  <2>3. n \in Nat \ {0}
    BY <2>1, <2>2
  <2>4. Phase \in Contract!Bookable
    BY <2>1, LateIsAfterClearance DEF IInv
  <2> QED
    BY <2>1, <2>3, <2>4 DEF Contract!Book, Allowed, Unlimited
<1> QED
  <2>1. WorkflowStep => Stays \/ Contract!ContractNext
    BY <1>1, <1>2, <1>3, <1>4, <1>5, <1>6, <1>7, <1>8, <1>9, <1>10, <1>11, <1>12, <1>13, <1>14, <1>15, <1>16, <1>17, <1>18
    DEF WorkflowStep, Contract!ContractNext, Contract!Settle
  <2>2. ReviewerStep => Stays \/ Contract!ContractNext
    BY <1>19, <1>20, <1>21 DEF ReviewerStep, Contract!ContractNext
  <2> QED
    BY <2>1, <2>2, <1>22, <1>23 DEF Next, Contract!ContractNext, Contract!contractVars

\* The workflow implements the contract: an answer is given once and obeyed,
\* the wait ends by an answer or the deadline, and nothing that was not cleared
\* is submitted (po_approval.py:202-257, 375-420).
THEOREM Refinement == Spec => ImplementsContract
  BY InitRefines, NextRefines, Invariance, PTL
  DEF Spec, ImplementsContract, Contract!ContractSpec

\* What the contract promises a client holds of the workflow at every moment:
\* what a human rejected is not in the ERP, and what is called submitted is
\* (po_approval.py:217-257).
THEOREM PromiseKept == Spec => []Contract!Promise
<1>1. Contract!ContractInit => Contract!Promise
  BY DEF Contract!ContractInit, Contract!Promise
<1>2. ASSUME Contract!Promise, Contract!ContractNext PROVE Contract!Promise'
  <2>1. CASE Contract!Settle
    BY <1>2, <2>1
    DEF Contract!Promise, Contract!Settle, Contract!Decline, Contract!Clear, Contract!Ask,
        Contract!Expire, Contract!Grant, Contract!Refuse, Contract!Confirm, Contract!Break,
        Contract!Abandon, Contract!Bookable, Contract!Move
  <2>2. CASE \E a \in {"approve", "reject"} : Contract!Answer(a)
    BY <1>2, <2>2 DEF Contract!Promise, Contract!Answer
  <2>3. CASE \E n \in booked' : Contract!Book(n)
    BY <1>2, <2>3 DEF Contract!Promise, Contract!Book, Contract!Bookable
  <2> QED
    BY <1>2, <2>1, <2>2, <2>3 DEF Contract!ContractNext
<1>3. Contract!Promise /\ UNCHANGED Contract!contractVars => Contract!Promise'
  BY DEF Contract!Promise, Contract!contractVars
<1> QED
  BY <1>1, <1>2, <1>3, Refinement, PTL DEF ImplementsContract, Contract!ContractSpec

-----------------------------------------------------------------------------
(* Every run is short *)

Unreported(s) == IF s \in findings THEN 0 ELSE 1

\* How many steps of workers and server the execution can still take, at most:
\* two for each ERP attempt left, one for each specialist still at work and for
\* each guardrail attempt left, and one for every await in between.
StepsLeft ==
  LET erpSteps == 2 * input.maxAttempts
  IN  IF exec # "running" THEN 0
      ELSE CASE pc = "start" -> erpSteps + 10
             [] pc = "extract" -> erpSteps + 9
             [] pc = "specialists" ->
                  erpSteps + 5 + Unreported("vendor_risk")
                    + Unreported("policy_compliance") + Unreported("duplicate_detection")
             [] pc = "supervise" -> erpSteps + 5
             [] pc = "guardrail" -> erpSteps + 2 + GuardrailMaxAttempts - guardAttempt
             [] pc = "approval" -> erpSteps + 1
             [] pc = "erp" -> 2 * (input.maxAttempts - erpAttempt)
                                + IF erpTask = "running" THEN 2 ELSE 1
             [] OTHER -> 0

\* check_guardrails is tried once at least, and as often as its policy allows.
GuardInv == pc = "guardrail" => guardAttempt \in 1..GuardrailMaxAttempts
TaskInv == pc = "erp" /\ exec = "running" => erpTask \in {"running", "accepted"}

LEMMA InitAttemptInv == Init => GuardInv /\ TaskInv
  BY DEF Init, GuardInv, TaskInv

LEMMA NextAttemptInv ==
  ASSUME IInv, GuardInv, TaskInv, [Next]_vars
  PROVE  GuardInv' /\ TaskInv'
<1>0. guardAttempt \in Nat /\ erpTask \in {"none", "running", "accepted"}
  BY DEF IInv, TypeOK
<1> USE <1>0 DEF GuardInv, TaskInv, GuardrailMaxAttempts, Parked, Close, vars, runVars,
        activityVars
<1>1. CASE WorkflowStep
  <2>1. CASE RunStarts \/ ExtractCompletes \/ SupervisorCompletes
             \/ \E s \in Specialists : SpecialistCompletes(s)
    BY <2>1 DEF RunStarts, ExtractCompletes, SupervisorCompletes, SpecialistCompletes
  <2>2. CASE AgentFails \/ AgentWedges
    BY <2>2 DEF AgentFails, AgentWedges, ExecutionFails
  <2>3. CASE GuardrailBlocks \/ SupervisorRejects \/ HumanIsAsked \/ AutoApproved
    BY <2>3 DEF GuardrailBlocks, SupervisorRejects, HumanIsAsked, AutoApproved,
                GuardrailReports, ErpStarts
  <2>4. CASE GuardrailAttemptLost
    BY <2>4 DEF GuardrailAttemptLost, ExecutionFails
  <2>5. CASE DeadlinePasses \/ ReviewerApproved \/ ReviewerRejected
    BY <2>5 DEF DeadlinePasses, ReviewerApproved, ReviewerRejected, ErpStarts
  <2>6. CASE ErpAttemptFails \/ ErpAttemptLost
    BY <2>6 DEF ErpAttemptFails, ErpAttemptLost, RetryErp, ExecutionFails
  <2>7. CASE ErpAccepts \/ ErpReports
    BY <2>7 DEF ErpAccepts, ErpReports
  <2> QED
    BY <1>1, <2>1, <2>2, <2>3, <2>4, <2>5, <2>6, <2>7 DEF WorkflowStep
<1>2. CASE ReviewerStep
  BY <1>2 DEF ReviewerStep, ValidatorRejects, SubmitDecision, Decide
<1>3. CASE UNCHANGED vars
  BY <1>3
<1>4. CASE ErpAcceptsLate
  BY <1>4 DEF ErpAcceptsLate
<1> QED
  BY <1>1, <1>2, <1>3, <1>4 DEF Next

LEMMA AttemptInvariance == Spec => [](GuardInv /\ TaskInv)
  BY InitAttemptInv, NextAttemptInv, Invariance, PTL DEF Spec

\* What the numbers of StepsLeft are made of.
LEMMA AttemptNumbers ==
  ASSUME TypeOK
  PROVE  /\ input.maxAttempts \in Nat
         /\ guardAttempt \in Nat /\ erpAttempt \in Nat
  BY AttemptAssumption DEF TypeOK, Input

\* A run that is open has a step left, and never more than it began with.
LEMMA StepsLeftBounds ==
  ASSUME IInv, GuardInv, TaskInv, ~ Unlimited
  PROVE  /\ StepsLeft \in 0 .. 2 * input.maxAttempts + 10
         /\ exec = "running" => StepsLeft > 0
<1>1. TypeOK /\ input.maxAttempts \in Nat /\ guardAttempt \in Nat /\ erpAttempt \in Nat
  BY AttemptNumbers DEF IInv
<1>2. pc = "erp" => erpAttempt \in 1..input.maxAttempts
  BY <1>1 DEF IInv, BookingInv, Allowed
<1>3. exec = "running" => pc # "done"
  BY DEF IInv, StageInv
<1> QED
  BY <1>1, <1>2, <1>3 DEF TypeOK, StepsLeft, Unreported, GuardInv, GuardrailMaxAttempts

LEMMA WorkflowStepCounts ==
  ASSUME IInv, StepInv, GuardInv, TaskInv, IInv', WorkflowStep, ~ Unlimited
  PROVE  StepsLeft' < StepsLeft
<1>1. /\ input.maxAttempts \in Nat /\ guardAttempt \in Nat /\ erpAttempt \in Nat
      /\ findings \subseteq Specialists \cup {"supervisor"}
  BY AttemptNumbers DEF IInv, TypeOK
<1>2. pc = "erp" => erpAttempt \in 1..input.maxAttempts
  BY <1>1 DEF IInv, BookingInv, Allowed
<1>3. StepsLeft \in Int /\ (exec = "running" => StepsLeft > 0)
  BY StepsLeftBounds
<1>4. exec' # "running" => StepsLeft' = 0
  BY DEF StepsLeft
<1>5. exec = "running" /\ input' = input
  BY DEF WorkflowStep, Parked, RunStarts, ExtractCompletes, SpecialistCompletes,
    SupervisorCompletes, AgentFails, AgentWedges, ExecutionFails, GuardrailReports,
    GuardrailBlocks, SupervisorRejects, HumanIsAsked, AutoApproved,
    GuardrailAttemptLost, DeadlinePasses, ReviewerApproved, ReviewerRejected,
    RetryErp, ErpAttemptFails, ErpAccepts, ErpAttemptLost, ErpReports
<1>6. CASE exec' # "running"
  BY <1>3, <1>4, <1>5, <1>6
<1>7. CASE exec' = "running"
  <2> USE <1>1, <1>5, <1>7 DEF Parked, StepsLeft, runVars, factVars, activityVars
  <2>1. CASE RunStarts
    BY <2>1 DEF RunStarts
  <2>2. CASE ExtractCompletes
    BY <2>2 DEF ExtractCompletes, Unreported
  <2>3. ASSUME NEW s \in Specialists, SpecialistCompletes(s)
        PROVE  StepsLeft' < StepsLeft
    <3>1. s \notin findings /\ findings' = findings \cup {s} /\ pc = "specialists"
      BY <2>3 DEF SpecialistCompletes, StepInv
    <3>2. /\ \A t \in Specialists : Unreported(t) \in 0..1
          /\ Unreported("vendor_risk") + Unreported("policy_compliance")
               + Unreported("duplicate_detection") > 0
      BY <3>1 DEF Unreported
    <3>3. CASE Specialists \subseteq findings'
      <4>1. pc' = "supervise"
        BY <2>3, <3>3 DEF SpecialistCompletes
      <4>2. StepsLeft' = 2 * input.maxAttempts + 5
        BY <4>1
      <4>3. StepsLeft > 2 * input.maxAttempts + 5
        BY <3>1, <3>2
      <4> QED
        BY <4>2, <4>3
    <3>4. CASE ~ (Specialists \subseteq findings')
      <4>1. pc' = pc
        BY <2>3, <3>4 DEF SpecialistCompletes
      <4> QED
        BY <3>1, <4>1 DEF Unreported
    <3> QED
      BY <3>3, <3>4
  <2>4. CASE SupervisorCompletes
    BY <2>4 DEF SupervisorCompletes, GuardrailMaxAttempts
  <2>5. CASE HumanIsAsked
    BY <2>5 DEF HumanIsAsked, GuardrailReports, GuardInv, GuardrailMaxAttempts
  <2>6. CASE AutoApproved
    BY <2>6 DEF AutoApproved, GuardrailReports, ErpStarts, GuardInv, GuardrailMaxAttempts
  <2>7. CASE GuardrailAttemptLost
    BY <2>7 DEF GuardrailAttemptLost, ExecutionFails, GuardrailMaxAttempts
  <2>8. CASE ReviewerApproved
    BY <2>8 DEF ReviewerApproved, ErpStarts
  <2>9. CASE ErpAttemptFails \/ ErpAttemptLost
    BY <1>2, <2>9 DEF ErpAttemptFails, ErpAttemptLost, RetryErp, NextAttempt, ExecutionFails
  <2>10. CASE ErpAccepts
    BY <1>2, <2>10 DEF ErpAccepts
  <2>11. CASE AgentFails \/ AgentWedges \/ GuardrailBlocks \/ SupervisorRejects
              \/ DeadlinePasses \/ ReviewerRejected \/ ErpReports
    BY <2>11 DEF AgentFails, AgentWedges, ExecutionFails, GuardrailBlocks,
                 SupervisorRejects, DeadlinePasses, ReviewerRejected, ErpReports, Close
  <2> QED
    BY <2>1, <2>2, <2>3, <2>4, <2>5, <2>6, <2>7, <2>8, <2>9, <2>10, <2>11 DEF WorkflowStep
<1> QED
  BY <1>6, <1>7

\* No reviewer, however often trying, and no late worker keeps the run from
\* coming to its end.
LEMMA OthersCostNothing ==
  ASSUME ReviewerStep \/ ErpAcceptsLate PROVE StepsLeft' = StepsLeft
<1>1. UNCHANGED <<input, exec, pc, findings, guardAttempt, erpAttempt, erpTask>>
  BY DEF ReviewerStep, ValidatorRejects, SubmitDecision, Decide, ErpAcceptsLate,
         runVars, factVars, activityVars
<1> QED
  BY <1>1 DEF StepsLeft, Unreported

\* Under a retry policy with a limit, workers and server take at most
\* 2 * maxAttempts + 10 steps for one request, whatever is lost or retried and
\* whatever reviewers do: an execution is open as long as a step is left, and
\* each step leaves fewer (po_approval.py:202-257, 395-454).
THEOREM RunsAreShort ==
  Spec => /\ [](~ Unlimited => StepsLeft \in 0 .. 2 * input.maxAttempts + 10)
          /\ [](~ Unlimited /\ exec = "running" => StepsLeft > 0)
          /\ [][WorkflowStep /\ ~ Unlimited => StepsLeft' < StepsLeft]_vars
          /\ [][ReviewerStep \/ ErpAcceptsLate => StepsLeft' = StepsLeft]_vars
<1>1. IInv /\ GuardInv /\ TaskInv
        => /\ ~ Unlimited => StepsLeft \in 0 .. 2 * input.maxAttempts + 10
           /\ ~ Unlimited /\ exec = "running" => StepsLeft > 0
  BY StepsLeftBounds
<1>2. IInv /\ IInv' /\ StepInv /\ GuardInv /\ TaskInv
        => [WorkflowStep /\ ~ Unlimited => StepsLeft' < StepsLeft]_vars
  BY WorkflowStepCounts
<1>3. [ReviewerStep \/ ErpAcceptsLate => StepsLeft' = StepsLeft]_vars
  BY OthersCostNothing
<1> QED
  BY <1>1, <1>2, <1>3, Invariance, StepInvariance, AttemptInvariance, PTL

-----------------------------------------------------------------------------
(* The scenario runner *)

\* A step of the driver and its workflow is a step of the workflow or none.
LEMMA StepProjects ==
  ASSUME intended \in BOOLEAN, [RunnerNext]_runnerVars
  PROVE  [Next]_vars /\ intended' = intended
<1> USE RunnerAssumption DEF scriptVars
<1>1. CASE ServerStep
  BY <1>1 DEF ServerStep, Next
<1>2. CASE (OthersStep \/ ErpAcceptsLate) /\ UNCHANGED scriptVars
  BY <1>2 DEF OthersStep, Next, ReviewerStep
<1>3. CASE UpdateArrives
  BY <1>3 DEF UpdateArrives, Next, ReviewerStep
<1>4. CASE UpdateRefused
  BY <1>4 DEF UpdateRefused, Next, ReviewerStep
<1>5. CASE Poll \/ QueryRaises \/ Post \/ UpdateCallRaises \/ UpdateReturns
           \/ ResultArrives \/ ResultRaises \/ Report
  BY <1>5 DEF Poll, QueryRaises, Post, UpdateCallRaises, UpdateReturns,
              ResultArrives, ResultRaises, Report
<1>6. CASE UNCHANGED runnerVars
  BY <1>6 DEF runnerVars
<1> QED
  BY <1>1, <1>2, <1>3, <1>4, <1>5, <1>6 DEF RunnerNext, ScriptStep

\* The driver with its workflow implements the workflow, so each property of
\* POApproval holds while a driver runs (run_scenario.py:59-91).
THEOREM DriverKeepsWorkflow == RunnerSpec => Spec
<1>1. RunnerInit => Init /\ intended \in BOOLEAN
  BY DEF RunnerInit
<1>2. intended \in BOOLEAN /\ [RunnerNext]_runnerVars
        => [Next]_vars /\ (intended \in BOOLEAN)'
  BY StepProjects
<1> QED
  BY <1>1, <1>2, PTL DEF RunnerSpec, Spec

-----------------------------------------------------------------------------
(* What steps of the workflow leave alone *)

\* A closed execution takes no step that changes its outcome.
LEMMA ClosedStays ==
  ASSUME IInv, [Next]_vars, exec = "completed"
  PROVE  exec' = exec /\ state' = state
<1>1. pc = "done"
  BY DEF IInv, StageInv
<1>2. CASE WorkflowStep
  BY <1>1, <1>2
  DEF WorkflowStep, RunStarts, ExtractCompletes, SpecialistCompletes,
      SupervisorCompletes, AgentFails, AgentWedges, GuardrailBlocks,
      SupervisorRejects, HumanIsAsked, AutoApproved, GuardrailReports,
      GuardrailAttemptLost, DeadlinePasses, ReviewerApproved, ReviewerRejected,
      ErpAttemptFails, ErpAccepts, ErpAttemptLost, ErpReports, Parked
<1>3. CASE ReviewerStep
  BY <1>3 DEF ReviewerStep, ValidatorRejects, SubmitDecision, Decide
<1>4. CASE ErpAcceptsLate
  BY <1>4 DEF ErpAcceptsLate, runVars
<1> QED
  BY <1>2, <1>3, <1>4 DEF Next, vars, runVars

\* HandlersReturn leaves a reply with every caller it answers.
LEMMA HandlersLeaveReplies ==
  ASSUME TypeOK, TypeOK', decision # None, HandlersReturn, NEW c \in Reviewers
  PROVE  /\ reply[c] # None => reply'[c] # None
         /\ update'[c] = "replied" => update[c] = "replied" \/ reply'[c] # None
<1>1. [state |-> state', decision |-> decision] # None
  BY NoneAssumption DEF TypeOK
<1> QED
  BY <1>1 DEF HandlersReturn, TypeOK

\* The workflow's own steps leave the decision alone and take no reply back.
LEMMA WorkflowStepKeepsCalls ==
  ASSUME TypeOK, TypeOK', WorkflowStep, NEW c \in Reviewers
  PROVE  /\ decision' = decision
         /\ reply[c] # None => reply'[c] # None
         /\ update'[c] = "replied" => update[c] = "replied" \/ reply'[c] # None
<1>1. CASE ReviewerApproved \/ ReviewerRejected
  BY <1>1, HandlersLeaveReplies DEF ReviewerApproved, ReviewerRejected
<1>2. CASE ~ (ReviewerApproved \/ ReviewerRejected)
  <2>1. UNCHANGED <<decision, callerVars>>
    BY <1>2
    DEF WorkflowStep, RunStarts, ExtractCompletes, SpecialistCompletes,
        SupervisorCompletes, AgentFails, AgentWedges, GuardrailBlocks,
        SupervisorRejects, HumanIsAsked, AutoApproved, GuardrailReports,
        GuardrailAttemptLost, DeadlinePasses, ErpAttemptFails, ErpAccepts,
        ErpAttemptLost, ErpReports, RetryErp, ExecutionFails, callerVars
  <2> QED
    BY <2>1 DEF callerVars
<1> QED
  BY <1>1, <1>2

-----------------------------------------------------------------------------
(* What the script knows *)

\* The two invariants together, with the type of the decision to send.
DriverInv == IInv /\ RunnerInv /\ intended \in BOOLEAN

LEMMA InitDriverInv == RunnerInit => DriverInv
<1> SUFFICES ASSUME RunnerInit PROVE DriverInv
  OBVIOUS
<1>1. IInv
  BY InitIInv DEF RunnerInit
<1>2. None # 0 /\ None # 1
  BY NoneAssumption
<1> QED
  BY <1>1, <1>2, RunnerAssumption DEF RunnerInit, DriverInv, RunnerInv, Init

LEMMA NextDriverInv == DriverInv /\ [RunnerNext]_runnerVars => DriverInv'
<1> SUFFICES ASSUME DriverInv, [RunnerNext]_runnerVars PROVE DriverInv'
  OBVIOUS
<1>1. [Next]_vars /\ intended' = intended
  BY StepProjects DEF DriverInv
<1>2. IInv'
  BY <1>1, NextIInv DEF DriverInv
<1>3. TypeOK /\ TypeOK'
  BY <1>2 DEF DriverInv, IInv
<1>4. exec = "completed" => exec' = exec /\ state' = state
  BY <1>1, ClosedStays DEF DriverInv
<1>5. None # 0 /\ None # 1
  BY NoneAssumption
<1> USE RunnerAssumption DEF RunnerInv
<1>6. CASE ServerStep
  <2>1. /\ decision' = decision
        /\ reply[Cli] # None => reply'[Cli] # None
        /\ update'[Cli] = "replied" => update[Cli] = "replied" \/ reply'[Cli] # None
    BY <1>3, <1>6, WorkflowStepKeepsCalls DEF ServerStep
  <2> QED
    BY <1>1, <1>2, <1>4, <1>6, <2>1 DEF DriverInv, ServerStep, scriptVars
<1>7. CASE OthersStep /\ UNCHANGED scriptVars
  <2>1. PICK c \in Reviewers \ {Cli} :
          \/ ValidatorRejects(c)
          \/ \E approved \in BOOLEAN : SubmitDecision(c, approved) \/ Decide(c, approved)
    BY <1>7 DEF OthersStep
  <2>2. reply' = reply /\ update'[Cli] = update[Cli]
    BY <2>1, <1>3 DEF ValidatorRejects, SubmitDecision, Decide, callerVars, TypeOK
  <2>3. decision' = decision \/ decision'.by = c
    BY <2>1 DEF ValidatorRejects, SubmitDecision, Decide
  <2> QED
    BY <1>1, <1>2, <1>4, <1>7, <2>2, <2>3 DEF DriverInv, scriptVars
<1>8. CASE UpdateArrives
  <2>1. /\ decision' = [approved |-> intended, by |-> Cli]
        /\ reply' = reply /\ update'[Cli] = "accepted"
    BY <1>3, <1>8 DEF UpdateArrives, SubmitDecision, TypeOK
  <2> QED
    BY <1>1, <1>2, <1>4, <1>8, <2>1 DEF DriverInv, UpdateArrives, scriptVars
<1>9. CASE UpdateRefused
  <2>1. decision' = decision /\ reply' = reply /\ update'[Cli] = "rejected"
    BY <1>3, <1>9 DEF UpdateRefused, ValidatorRejects, TypeOK
  <2>2. exec' = exec /\ state' = state
    BY <1>9 DEF UpdateRefused, ValidatorRejects, runVars
  <2> QED
    BY <1>1, <1>2, <1>5, <1>9, <2>1, <2>2 DEF DriverInv, UpdateRefused, Exit
<1>10. CASE Poll \/ QueryRaises \/ Post \/ UpdateCallRaises \/ UpdateReturns
            \/ ResultArrives \/ ResultRaises \/ Report
  <2>1. UNCHANGED <<decision, reply, update, exec, state>>
    BY <1>10 DEF Poll, QueryRaises, Post, UpdateCallRaises, UpdateReturns,
                 ResultArrives, ResultRaises, Report, vars, runVars, callerVars
  <2>2. RunnerInv'
    BY <1>5, <1>10, <2>1
    DEF DriverInv, Poll, QueryRaises, Post, UpdateCallRaises, UpdateReturns,
        ResultArrives, ResultRaises, Report, Exit
  <2> QED
    BY <1>1, <1>2, <2>2 DEF DriverInv
<1>11. CASE UNCHANGED runnerVars
  BY <1>1, <1>2, <1>11 DEF DriverInv, runnerVars, scriptVars, vars, runVars, callerVars
<1>12. CASE ErpAcceptsLate /\ UNCHANGED scriptVars
  <2>1. UNCHANGED <<decision, reply, update, exec, state>>
    BY <1>12 DEF ErpAcceptsLate, runVars, callerVars
  <2> QED
    BY <1>1, <1>2, <1>12, <2>1 DEF DriverInv, scriptVars
<1> QED
  BY <1>6, <1>7, <1>8, <1>9, <1>10, <1>11, <1>12 DEF RunnerNext, ScriptStep

\* Types: the result is a state of the workflow.
LEMMA RunnerTypes == RunnerSpec => []RunnerTypeOK
<1>1. ASSUME RunnerInit PROVE RunnerTypeOK
  <2>1. polls \in 0..MaxPolls /\ polls < MaxPolls
    BY <1>1, RunnerAssumption DEF RunnerInit
  <2>2. intended \in BOOLEAN /\ posted \in BOOLEAN /\ sent \in BOOLEAN
    BY <1>1 DEF RunnerInit
  <2>3. /\ script = "polling" /\ result = None /\ exitCode = None
    BY <1>1 DEF RunnerInit
  <2> QED
    BY <2>1, <2>2, <2>3, Zenon DEF RunnerTypeOK
<1>2. DriverInv /\ RunnerTypeOK /\ [RunnerNext]_runnerVars => RunnerTypeOK'
  <2> SUFFICES ASSUME DriverInv, RunnerTypeOK, [RunnerNext]_runnerVars
               PROVE  RunnerTypeOK'
    OBVIOUS
  <2> USE RunnerAssumption DEF RunnerTypeOK
  <2>1. state \in WorkflowState
    BY DEF DriverInv, IInv, TypeOK
  <2>2. CASE Poll
    <3>1. polls' \in 0..MaxPolls /\ (script' = "polling" => polls' < MaxPolls)
      BY <2>2 DEF Poll
    <3>2. script' \in {"polling", "deciding", "waiting"}
      BY <2>2 DEF Poll
    <3>3. UNCHANGED <<intended, posted, sent, result, exitCode>>
      BY <2>2 DEF Poll
    <3> QED
      BY <3>1, <3>2, <3>3, Zenon
  <2>3. CASE ResultArrives
    <3>1. UNCHANGED <<intended, polls, posted, sent, exitCode>>
      BY <2>3 DEF ResultArrives
    <3>2. script' = "reporting" /\ result' \in WorkflowState
      BY <2>1, <2>3 DEF ResultArrives
    <3> QED
      BY <3>1, <3>2, Zenon
  <2>4. CASE QueryRaises \/ UpdateCallRaises \/ ResultRaises \/ Report \/ UpdateRefused
    BY <2>4 DEF QueryRaises, UpdateCallRaises, ResultRaises, Report, UpdateRefused, Exit
  <2>5. CASE Post \/ UpdateReturns
    BY <2>5 DEF Post, UpdateReturns
  <2>6. CASE UNCHANGED scriptVars
    BY <2>6 DEF scriptVars
  <2> QED
    BY <2>2, <2>3, <2>4, <2>5, <2>6
    DEF RunnerNext, ScriptStep, ServerStep, UpdateArrives, runnerVars
<1> QED
  BY <1>1, <1>2, InitDriverInv, NextDriverInv, PTL DEF RunnerSpec

\* The script goes on past its call only if it was answered, and reports only
\* the outcome of a closed execution (run_scenario.py:76-110).
THEOREM DriverKnows == RunnerSpec => []ScriptInv
<1>1. DriverInv => RunnerInv
  BY DEF DriverInv
<1>2. RunnerInv /\ RunnerTypeOK => ScriptInv
  BY DEF ScriptInv
<1> QED
  BY <1>1, <1>2, InitDriverInv, NextDriverInv, RunnerTypes, PTL DEF RunnerSpec

\* What the script announces is on record and decides the request
\* (run_scenario.py:83-91).
THEOREM AnnouncementIsTrue == RunnerSpec => []AnnouncedDecisionStands
<1>1. DriverInv => AnnouncedDecisionStands
  <2> SUFFICES ASSUME DriverInv, sent PROVE AnnouncedDecisionStands
    BY DEF AnnouncedDecisionStands
  <2>1. reply[Cli] # None
    BY DEF DriverInv, RunnerInv
  <2>2. decision # None /\ decision.by = Cli
    BY <2>1, RunnerAssumption DEF DriverInv, IInv, CallerInv
  <2>3. decision = [approved |-> intended, by |-> Cli]
    <3>1. decision.approved = intended
      BY <2>2 DEF DriverInv, RunnerInv
    <3>2. decision \in Decision
      BY <2>2 DEF DriverInv, IInv, TypeOK
    <3> QED
      BY <2>2, <3>1, <3>2 DEF Decision
  <2>4. ASSUME exec = "completed"
        PROVE  state = IF intended THEN "submitted" ELSE "rejected_by_human"
    <3>1. /\ guardrail # "blocked" /\ supervisor # "reject"
          /\ state \in ClosedStates
      BY <2>2, <2>4 DEF DriverInv, IInv, StageInv, Reviewable
    <3>2. state \notin {"rejected_by_policy", "rejected_by_supervisor",
                        "approval_timed_out"}
      BY <2>2, <2>4, <3>1 DEF DriverInv, IInv, OutcomeIsJustified
    <3>3. (state = "rejected_by_human") = ~ intended
      BY <2>2, <2>3, <2>4 DEF DriverInv, IInv, OutcomeIsJustified
    <3> QED
      BY <3>1, <3>2, <3>3 DEF ClosedStates, DriverInv
  <2> QED
    BY <2>3, <2>4 DEF AnnouncedDecisionStands
<1> QED
  BY <1>1, InitDriverInv, NextDriverInv, PTL DEF RunnerSpec

\* A script that ends well has not sent a decision to a request that expired
\* (run_scenario.py:76-97).
THEOREM SeenPausesDoNotExpire == RunnerSpec => []ExpiryWasNotSeen
<1>1. DriverInv => ExpiryWasNotSeen
  <2> SUFFICES ASSUME DriverInv, exitCode = 0, state = "approval_timed_out"
               PROVE  ~ posted /\ decision = None
    BY DEF ExpiryWasNotSeen
  <2>1. exec = "completed" /\ (posted => sent)
    BY DEF DriverInv, RunnerInv
  <2>2. decision = None
    BY <2>1 DEF DriverInv, IInv, OutcomeIsJustified
  <2>3. sent => decision # None
    BY RunnerAssumption DEF DriverInv, RunnerInv, IInv, CallerInv
  <2> QED
    BY <2>1, <2>2, <2>3
<1> QED
  BY <1>1, InitDriverInv, NextDriverInv, PTL DEF RunnerSpec

\* Exit code 0 is that of a closed execution whose outcome was printed and
\* whose steps have all ended (run_scenario.py:97-110, 124).
THEOREM GoodExitIsTrue == RunnerSpec => []ExitZeroMeansClosed
<1>1. DriverInv /\ StepInv => ExitZeroMeansClosed
  <2> SUFFICES ASSUME DriverInv, StepInv, exitCode = 0 PROVE ExitZeroMeansClosed
    BY DEF ExitZeroMeansClosed
  <2>1. exec = "completed" /\ result = state
    BY DEF DriverInv, RunnerInv
  <2>2. pc = "done" /\ state \in ClosedStates
    BY <2>1 DEF DriverInv, IInv, StageInv
  <2>3. \A s \in Steps : step[s] \in {"completed", "failed", "skipped"}
    BY <2>2 DEF StepInv, AgentsHaveReported, Steps
  <2> QED
    BY <2>1, <2>2, <2>3 DEF ExitZeroMeansClosed
<1> QED
  BY <1>1, InitDriverInv, NextDriverInv, DriverKeepsWorkflow, StepInvariance, PTL
  DEF RunnerSpec
=============================================================================
