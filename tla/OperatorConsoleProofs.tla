----------------------- MODULE OperatorConsoleProofs -----------------------
(***************************************************************************)
(* For any number of outages, lost connections and runs, and any number of *)
(* events under way: the screen is never ahead of the workflow and never   *)
(* goes back, a confirmed answer is the one on record, a lock of the       *)
(* buttons has its reason, and a stream ends with the truth.               *)
(*                                                                         *)
(* What is on the wire is sorted, between what is shown and what is so;    *)
(* that is what every step has to keep.                                    *)
(***************************************************************************)
EXTENDS OperatorConsole, SequenceTheorems, TLAPS

\* The status of the contract's phases, and the execution's.
RunInv ==
  /\ status = StatusOf(phase)
  /\ exec = "RUNNING" => phase \notin C!Final \ {"broken"}
  /\ exec = "COMPLETED" => phase \in C!Final \ {"broken", "abandoned"}
  /\ exec = "FAILED" => phase \in {"broken", "abandoned"}
  /\ answer # "none" => phase \notin {"reviewing", "broken"}

\* What an event lets the screen show.
Shows(event) == IF event.done THEN None ELSE event.payload.status

Between(w, low, high) ==
  \A i \in 1..Len(w) :
    /\ ~ w[i].done => w[i].payload \in Payload
    /\ Shows(w[i]) # None => Shows(w[i]) <= high /\ (low # None => low <= Shows(w[i]))

Sorted(w) ==
  \A i, j \in 1..Len(w) :
    i < j /\ Shows(w[i]) # None /\ Shows(w[j]) # None => Shows(w[i]) <= Shows(w[j])

ViewInv ==
  /\ shown # None => following /\ shown <= status
  /\ ~ following => wire = <<>> /\ server = "idle" /\ source = "closed"
  /\ Between(wire, shown, status) /\ Sorted(wire)

\* A decision request that is under way, and for which run.
PostInv ==
  /\ inFlight <=> post # "none"
  /\ post # "none" => choice \in Choices /\ (~ earlier => following)
  /\ Pending("accepted") \/ Pending("ok") => answer = choice
  /\ Pending("ok") => phase # "asking"

\* What a poll has read is still so, if it is the end.
StreamInv ==
  /\ server = "query" => described # None /\ (described # "RUNNING" => exec = described)
  /\ server = "ended" => previous # None /\ exec # "RUNNING"
  /\ LastPayloadIsFinal

IInv == TypeOK /\ RunInv /\ ViewInv /\ PostInv /\ StreamInv /\ LockIsExplained

-----------------------------------------------------------------------------
(* The wire *)

LEMMA EventFacts ==
  ASSUME NEW w \in Seq(Event), NEW i \in 1..Len(w)
  PROVE  /\ w[i] \in Event /\ w[i].done \in BOOLEAN
         /\ w[i].payload \in Payload => Shows(w[i]) \in Status \cup {None}
<1>1. w[i] \in Event
  OBVIOUS
<1> QED
  BY <1>1, Zenon DEF Event, Payload, Shows

\* The workflow may go on, and the screen may be emptied, under the events.
LEMMA WiderStillBetween ==
  ASSUME NEW w \in Seq(Event), NEW low \in Status \cup {None}, NEW high \in Status,
         NEW low2 \in {low, None}, NEW high2 \in Status, high <= high2,
         Between(w, low, high)
  PROVE  Between(w, low2, high2)
<1> SUFFICES ASSUME NEW i \in 1..Len(w)
    PROVE  /\ ~ w[i].done => w[i].payload \in Payload
           /\ Shows(w[i]) # None => Shows(w[i]) <= high2 /\ (low2 # None => low2 <= Shows(w[i]))
  BY DEF Between
<1>1. Shows(w[i]) \in Status \cup {None}
  BY EventFacts DEF Between, Shows
<1> QED
  BY <1>1 DEF Between, Status, Reviewing, Closed

\* Taking the first event off.
LEMMA TailStillBetween ==
  ASSUME NEW w \in Seq(Event), w # <<>>, NEW low \in Status \cup {None}, NEW high \in Status,
         Between(w, low, high), Sorted(w)
  PROVE  /\ Tail(w) \in Seq(Event)
         /\ Between(Tail(w), low, high) /\ Sorted(Tail(w))
         /\ Shows(Head(w)) # None => Between(Tail(w), Shows(Head(w)), high)
<1>1. /\ Tail(w) \in Seq(Event) /\ Len(Tail(w)) = Len(w) - 1 /\ Len(w) \in Nat \ {0}
      /\ \A i \in 1..Len(Tail(w)) : Tail(w)[i] = w[i + 1]
  BY HeadTailProperties, EmptySeq
<1>2. \A i \in 1..Len(Tail(w)) : i + 1 \in 1..Len(w) /\ 1 < i + 1
  BY <1>1
<1>3. Head(w) = w[1] /\ 1 \in 1..Len(w)
  BY <1>1
<1>4. Between(Tail(w), low, high)
  BY <1>1, <1>2 DEF Between
<1>5. Sorted(Tail(w))
  <2> SUFFICES ASSUME NEW i \in 1..Len(Tail(w)), NEW j \in 1..Len(Tail(w)), i < j,
                      Shows(Tail(w)[i]) # None, Shows(Tail(w)[j]) # None
               PROVE  Shows(Tail(w)[i]) <= Shows(Tail(w)[j])
    BY DEF Sorted
  <2>1. i + 1 < j + 1
    BY <1>1
  <2> QED
    BY <2>1, <1>1, <1>2 DEF Sorted
<1>6. ASSUME Shows(Head(w)) # None PROVE Between(Tail(w), Shows(Head(w)), high)
  BY <1>1, <1>2, <1>3, <1>6 DEF Between, Sorted
<1> QED
  BY <1>1, <1>4, <1>5, <1>6

\* Adding an event that shows what is so, or nothing.
LEMMA OneMoreStillBetween ==
  ASSUME NEW w \in Seq(Event), NEW e \in Event, NEW low \in Status \cup {None},
         NEW high \in Status, low # None => low <= high,
         ~ e.done => e.payload \in Payload, Shows(e) \in {None, high},
         Between(w, low, high), Sorted(w)
  PROVE  /\ w \o <<e>> \in Seq(Event)
         /\ Between(w \o <<e>>, low, high) /\ Sorted(w \o <<e>>)
<1> DEFINE v == w \o <<e>>
<1>1. /\ <<e>> \in Seq(Event) /\ Len(<<e>>) = 1 /\ <<e>>[1] = e
      /\ Len(w) \in Nat
  OBVIOUS
<1>2. /\ v \in Seq(Event) /\ Len(v) = Len(w) + 1
      /\ \A i \in 1..Len(w) + 1 : v[i] = IF i <= Len(w) THEN w[i] ELSE <<e>>[i - Len(w)]
  BY <1>1, ConcatProperties, Zenon
<1>3. \A i \in 1..Len(v) : IF i <= Len(w) THEN i \in 1..Len(w) /\ v[i] = w[i]
                           ELSE i = Len(w) + 1 /\ v[i] = e
  BY <1>1, <1>2
<1> HIDE DEF v
<1>4. high \in Nat
  BY DEF Status, Reviewing, Closed
<1>5. Between(v, low, high)
  BY <1>3, <1>4 DEF Between
<1>6. Sorted(v)
  <2> SUFFICES ASSUME NEW i \in 1..Len(v), NEW j \in 1..Len(v), i < j,
                      Shows(v[i]) # None, Shows(v[j]) # None
               PROVE  Shows(v[i]) <= Shows(v[j])
    BY DEF Sorted
  <2>1. CASE j <= Len(w)
    BY <2>1, <1>1, <1>2, <1>3 DEF Sorted
  <2>2. CASE ~ (j <= Len(w))
    <3>1. v[j] = e /\ Shows(v[j]) = high
      BY <2>2, <1>3
    <3> QED
      BY <3>1, <1>5 DEF Between
  <2> QED
    BY <2>1, <2>2
<1> QED
  BY <1>2, <1>5, <1>6 DEF v

-----------------------------------------------------------------------------
(* The workflow and its worker *)

\* The first poll of the first run.
LEMMA InitInv == Init => IInv
<1> SUFFICES ASSUME Init PROVE IInv
  OBVIOUS
<1> USE NoneAssumption, BoundsAssumption
    DEF Init, Status, Reviewing, Awaiting, Submitting, Closed, C!Final
<1>1. TypeOK
  <2>1. FlagsOK
    BY DEF FlagsOK
  <2>2. wire \in Seq(Event) /\ C!ContractTypeOK
    BY DEF C!ContractTypeOK
  <2> QED
    BY <2>1, <2>2 DEF TypeOK
<1>2. RunInv
  BY DEF RunInv, StatusOf
<1>3. ViewInv
  BY DEF ViewInv, Between, Sorted
<1>4. PostInv
  BY DEF PostInv, Pending
<1>5. StreamInv /\ LockIsExplained
  BY DEF StreamInv, LastPayloadIsFinal, LockIsExplained
<1> QED
  BY <1>1, <1>2, <1>3, <1>4, <1>5 DEF IInv

\* The workflow goes on, and its status never goes back.
LEMMA WorkflowStep == IInv /\ WorkflowMoves => IInv'
<1> SUFFICES ASSUME IInv, WorkflowMoves PROVE IInv'
  OBVIOUS
<1>0. /\ TypeOK /\ RunInv /\ ViewInv /\ PostInv /\ StreamInv /\ LockIsExplained
      /\ following /\ Answers /\ exec = "RUNNING" /\ Reported
      /\ C!Settle \/ C!Book(limit)
      /\ UNCHANGED <<worker, outages, server, described, previous, wire, drops, source, scenarios>>
      /\ UNCHANGED <<following, starts, shown, notice, enabled, inFlight, choice, post, earlier>>
      /\ UNCHANGED <<orphan, unlocked>>
  BY DEF IInv, WorkflowMoves, Live, workerVars, streamVars, screenVars, formVars, postVars
<1>1. /\ phase \in {"reviewing", "asking", "cleared"} /\ status = StatusOf(phase)
      /\ server # "ended" /\ (server = "query" => described = "RUNNING")
  BY <1>0 DEF RunInv, StreamInv, TypeOK, Answers, Wedged, C!ContractTypeOK, C!Final
<1>2. /\ answer' = answer /\ limit' = limit
      /\ booked' \subseteq Nat \ {0} /\ (limit' # 0 => booked' \subseteq 1..limit')
      /\ \/ phase' = phase
         \/ phase = "reviewing" /\ phase' \in {"asking", "cleared", "declined", "broken"}
         \/ phase = "asking" /\ phase' \in {"cleared", "declined", "expired"}
         \/ phase = "cleared" /\ phase' \in {"submitted", "abandoned"}
  <2>1. /\ limit \in Nat /\ booked \subseteq Nat \ {0}
        /\ limit # 0 => booked \subseteq 1..limit
    BY <1>0 DEF TypeOK, C!ContractTypeOK
  <2>2. CASE C!Settle
    <3>1. UNCHANGED <<limit, answer, booked>>
      BY <2>2 DEF C!Settle, C!Decline, C!Clear, C!Ask, C!Expire, C!Grant, C!Refuse, C!Confirm,
                  C!Break, C!Abandon, C!Move
    <3>2. \/ phase = "reviewing" /\ phase' \in {"asking", "cleared", "declined", "broken"}
          \/ phase = "asking" /\ phase' \in {"cleared", "declined", "expired"}
          \/ phase = "cleared" /\ phase' \in {"submitted", "abandoned"}
      BY <2>2, Zenon DEF C!Settle, C!Decline, C!Clear, C!Ask, C!Expire, C!Grant, C!Refuse, C!Confirm,
                         C!Break, C!Abandon, C!Move
    <3> QED
      BY <2>1, <3>1, <3>2
  <2>3. CASE C!Book(limit)
    <3>1. limit \in Nat \ {0}
      BY <2>3 DEF C!Book
    <3> QED
      BY <2>1, <2>3, <3>1 DEF C!Book
  <2> QED
    BY <1>0, <2>2, <2>3
<1>3. /\ status' = StatusOf(phase')
      /\ phase' \notin C!Final => exec' = "RUNNING"
      /\ phase' \in C!Final \ {"broken", "abandoned"} => exec' = "COMPLETED"
      /\ phase' = "broken" => exec' \in {"FAILED", "RUNNING"}
      /\ phase' = "abandoned" => exec' = "FAILED"
  BY <1>0 DEF Reported, C!Final
<1>4. /\ status \in Status /\ status' \in Status /\ status <= status'
      /\ status' = Awaiting => phase' = "asking" /\ (phase = "reviewing" \/ phase' = phase)
  BY <1>1, <1>2, <1>3 DEF StatusOf, Status, Reviewing, Awaiting, Submitting, Closed
<1>5. TypeOK'
  <2>1. C!ContractTypeOK'
    BY <1>0, <1>1, <1>2 DEF TypeOK, C!ContractTypeOK, C!Final
  <2>2. exec' \in {"RUNNING", "COMPLETED", "FAILED"}
    BY <1>1, <1>2, <1>3 DEF C!Final
  <2> QED
    BY <1>0, <2>1, <2>2, <1>4 DEF TypeOK, FlagsOK
<1>6. RunInv'
  <2>1. /\ exec' = "RUNNING" => phase' \notin C!Final \ {"broken"}
        /\ exec' = "COMPLETED" => phase' \in C!Final \ {"broken", "abandoned"}
        /\ exec' = "FAILED" => phase' \in {"broken", "abandoned"}
    BY <1>1, <1>2, <1>3 DEF C!Final
  <2>2. answer' # "none" => phase' \notin {"reviewing", "broken"}
    BY <1>0, <1>1, <1>2 DEF RunInv
  <2> QED
    BY <1>3, <2>1, <2>2 DEF RunInv, C!Final
<1>7. ViewInv'
  <2>1. Between(wire, shown, status')
    BY <1>0, <1>4, WiderStillBetween DEF ViewInv, TypeOK
  <2>2. shown # None => shown <= status'
    BY <1>0, <1>4, NoneAssumption DEF ViewInv, TypeOK, Status, Reviewing, Closed
  <2> QED
    BY <1>0, <2>1, <2>2 DEF ViewInv
<1>8. PostInv'
  <2>1. answer # "none" => phase' # "asking" \/ phase' = phase
    BY <1>0, <1>2 DEF RunInv
  <2> QED
    BY <1>0, <1>2, <2>1 DEF PostInv, Pending, Choices
<1>9. StreamInv'
  BY <1>0, <1>1 DEF StreamInv, LastPayloadIsFinal
<1>10. LockIsExplained'
  <2> SUFFICES ASSUME shown' = Awaiting, status' = Awaiting, answer' = "none", ~ enabled'
               PROVE  inFlight' \/ ~ unlocked'
    BY DEF LockIsExplained
  <2>1. shown = Awaiting /\ shown <= status /\ shown # None
    BY <1>0, NoneAssumption DEF ViewInv, Status, Reviewing, Awaiting, Closed
  <2>2. phase # "reviewing"
    BY <2>1, <1>1 DEF StatusOf, Reviewing, Awaiting
  <2> QED
    BY <1>0, <1>1, <1>2, <1>4, <2>1, <2>2 DEF LockIsExplained, StatusOf
<1> QED
  BY <1>5, <1>6, <1>7, <1>8, <1>9, <1>10 DEF IInv

\* A decision reaches the workflow, from here, from elsewhere, or late.
LEMMA DecisionStep ==
  IInv /\ (OtherDecides \/ UpdateAccepted \/ OrphanHandled) => IInv'
<1> SUFFICES ASSUME IInv, OtherDecides \/ UpdateAccepted \/ OrphanHandled PROVE IInv'
  OBVIOUS
<1>0. TypeOK /\ RunInv /\ ViewInv /\ PostInv /\ StreamInv /\ LockIsExplained
  BY DEF IInv
<1>1. /\ following
      /\ UNCHANGED <<limit, phase, booked, status, exec, worker, outages, inFlight, choice, earlier>>
      /\ UNCHANGED <<server, described, previous, wire, drops, source, scenarios, following, starts>>
      /\ UNCHANGED <<shown, notice, enabled, unlocked>>
  BY DEF OtherDecides, UpdateAccepted, OrphanHandled, C!Answer, PostBecomes, Live,
         workerVars, streamVars, screenVars, formVars, postVars
<1>2. /\ answer' = answer \/ (answer = "none" /\ phase = "asking" /\ answer' \in Choices)
      /\ post' = post \/ (Pending("sent") /\ post' = "accepted" /\ answer' = choice)
      /\ orphan' \in {orphan, None}
  <2>1. CASE OtherDecides
    BY <2>1 DEF OtherDecides, C!Answer, postVars
  <2>2. CASE UpdateAccepted
    BY <2>2, <1>0 DEF UpdateAccepted, C!Answer, PostBecomes, Pending, PostInv
  <2>3. CASE OrphanHandled
    BY <2>3, <1>0 DEF OrphanHandled, C!Answer, TypeOK
  <2> QED
    BY <2>1, <2>2, <2>3
<1>3. TypeOK'
  BY <1>0, <1>1, <1>2 DEF TypeOK, FlagsOK, C!ContractTypeOK, Choices
<1>4. RunInv'
  BY <1>0, <1>1, <1>2 DEF RunInv, C!Final
<1>5. ViewInv'
  BY <1>0, <1>1 DEF ViewInv
<1>6. PostInv'
  BY <1>0, <1>1, <1>2 DEF PostInv, Pending, Choices
<1>7. StreamInv' /\ LockIsExplained'
  BY <1>0, <1>1, <1>2 DEF StreamInv, LastPayloadIsFinal, LockIsExplained, Choices
<1> QED
  BY <1>3, <1>4, <1>5, <1>6, <1>7 DEF IInv

\* A late submission is in the ERP, and nothing else of it is seen.
LEMMA LateStep == IInv /\ ErpAcceptsLate => IInv'
<1> SUFFICES ASSUME IInv, ErpAcceptsLate PROVE IInv'
  OBVIOUS
<1>0. TypeOK /\ RunInv /\ ViewInv /\ PostInv /\ StreamInv /\ LockIsExplained
  BY DEF IInv
<1>1. /\ UNCHANGED <<limit, phase, answer, status, exec, inFlight, choice, earlier, orphan, post>>
      /\ UNCHANGED <<server, described, previous, wire, drops, source, scenarios, following, starts>>
      /\ UNCHANGED <<shown, notice, enabled, unlocked, worker, outages>>
  BY DEF ErpAcceptsLate, C!Book, workerVars, streamVars, screenVars, formVars, postVars
<1>2. C!ContractTypeOK'
  <2>1. limit \in Nat \ {0} /\ booked' = booked \cup {limit}
    BY DEF ErpAcceptsLate, C!Book
  <2> QED
    BY <1>0, <1>1, <2>1 DEF TypeOK, C!ContractTypeOK
<1>3. TypeOK' /\ RunInv' /\ ViewInv' /\ PostInv'
  BY <1>0, <1>1, <1>2 DEF TypeOK, FlagsOK, RunInv, ViewInv, PostInv, Pending
<1>4. StreamInv' /\ LockIsExplained'
  BY <1>0, <1>1 DEF StreamInv, LastPayloadIsFinal, LockIsExplained
<1> QED
  BY <1>3, <1>4 DEF IInv

\* The worker's coming and going is seen by nothing else.
LEMMA WorkerStep == IInv /\ (WorkerStops \/ WorkerStarts) => IInv'
<1> SUFFICES ASSUME IInv, WorkerStops \/ WorkerStarts PROVE IInv'
  OBVIOUS
<1>0. TypeOK /\ RunInv /\ ViewInv /\ PostInv /\ StreamInv /\ LockIsExplained
  BY DEF IInv
<1>1. /\ UNCHANGED <<limit, phase, answer, booked, status, exec, inFlight, choice, earlier, orphan>>
      /\ UNCHANGED <<server, described, previous, wire, drops, source, scenarios, following, starts>>
      /\ UNCHANGED <<shown, notice, enabled, unlocked, post>>
  BY DEF WorkerStops, WorkerStarts, workflowVars, streamVars, screenVars, formVars, postVars
<1>2. TypeOK'
  <2>1. worker' \in BOOLEAN
    BY Zenon DEF WorkerStops, WorkerStarts
  <2>2. FlagsOK'
    BY <2>1, <1>0, <1>1 DEF TypeOK, FlagsOK
  <2>3. outages' \in 0..MaxOutages
    BY <1>0, BoundsAssumption DEF TypeOK, WorkerStops, WorkerStarts
  <2> QED
    BY <1>0, <1>1, <2>2, <2>3 DEF TypeOK, C!ContractTypeOK
<1>3. RunInv' /\ ViewInv' /\ PostInv'
  BY <1>0, <1>1 DEF RunInv, ViewInv, PostInv, Pending
<1>4. StreamInv' /\ LockIsExplained'
  BY <1>0, <1>1 DEF StreamInv, LastPayloadIsFinal, LockIsExplained
<1> QED
  BY <1>2, <1>3, <1>4 DEF IInv

-----------------------------------------------------------------------------
(* The stream *)

\* A poll puts what it has read on the wire, behind what is there.
LEMMA EmitOnWire ==
  ASSUME TypeOK, ViewInv, NEW s \in {status, None}, described # None,
         Emit([exec |-> described, status |-> s])
  PROVE  /\ wire' \in Seq(Event) /\ Between(wire', shown, status) /\ Sorted(wire')
         /\ previous' = [exec |-> described, status |-> s] /\ previous' \in Payload
         /\ described' = None
         /\ server' = IF described # "RUNNING" THEN "ended" ELSE "describe"
<1> DEFINE payload == [exec |-> described, status |-> s]
           message == IF payload # previous THEN <<Message(payload)>> ELSE <<>>
           ending == IF payload.exec # "RUNNING" THEN <<DoneEvent>> ELSE <<>>
           Good(w) == w \in Seq(Event) /\ Between(w, shown, status) /\ Sorted(w)
<1>1. /\ payload \in Payload /\ payload.exec = described /\ payload.status = s
      /\ status \in Status /\ shown \in Status \cup {None} /\ (shown # None => shown <= status)
      /\ Good(wire)
  BY DEF TypeOK, ViewInv, Payload
<1>2. /\ wire' = (wire \o message) \o ending /\ previous' = payload /\ described' = None
      /\ server' = IF payload.exec # "RUNNING" THEN "ended" ELSE "describe"
  BY DEF Emit
<1>3. Message(payload) \in Event /\ Shows(Message(payload)) = s /\ ~ Message(payload).done
      /\ Message(payload).payload = payload
  BY <1>1 DEF Message, Event, Shows
<1>4. DoneEvent \in Event /\ Shows(DoneEvent) = None /\ DoneEvent.done
  BY DEF DoneEvent, Event, Shows
<1> HIDE DEF payload
<1>5. Good(wire \o message)
  <2>1. CASE payload # previous
    BY <2>1, <1>1, <1>3, OneMoreStillBetween
  <2>2. CASE payload = previous
    BY <2>2, <1>1, ConcatEmptySeq
  <2> QED
    BY <2>1, <2>2
<1>6. Good((wire \o message) \o ending)
  <2> HIDE DEF message
  <2>1. CASE payload.exec # "RUNNING"
    BY <2>1, <1>1, <1>4, <1>5, OneMoreStillBetween
  <2>2. CASE payload.exec = "RUNNING"
    BY <2>2, <1>5, ConcatEmptySeq
  <2> QED
    BY <2>1, <2>2
<1> QED
  BY <1>1, <1>2, <1>6 DEF payload

\* A poll: it reads how the execution ended before it reads the status.
LEMMA StreamPreserves ==
  IInv /\ (Connect \/ Describe \/ DescribeFails \/ Query \/ ConnectionLost) => IInv'
<1> SUFFICES ASSUME IInv, Connect \/ Describe \/ DescribeFails \/ Query \/ ConnectionLost
             PROVE  IInv'
  OBVIOUS
<1>0. TypeOK /\ RunInv /\ ViewInv /\ PostInv /\ StreamInv /\ LockIsExplained
  BY DEF IInv
<1>1. /\ UNCHANGED <<limit, phase, answer, booked, status, exec, worker, outages, inFlight, choice>>
      /\ UNCHANGED <<post, earlier, orphan, unlocked, source, following, starts, shown, notice, enabled>>
  BY DEF Connect, Describe, DescribeFails, Query, ConnectionLost,
         workflowVars, workerVars, screenVars, formVars, postVars
<1>2. scenarios' \in {scenarios, TRUE}
  BY DEF Connect, Describe, DescribeFails, Query, ConnectionLost, screenVars
<1>3. /\ drops' \in 0..MaxDrops /\ server' \in {"connecting", "describe", "query", "ended", "idle"}
      /\ described' \in {None, "RUNNING", "COMPLETED", "FAILED"} /\ previous' \in Payload \cup {None}
      /\ wire' \in Seq(Event) /\ Between(wire', shown, status) /\ Sorted(wire')
      /\ ~ following => wire' = <<>> /\ server' = "idle"
      /\ StreamInv'
  <2>1. CASE Connect
    BY <2>1, <1>0, <1>1 DEF Connect, TypeOK, ViewInv, StreamInv, LastPayloadIsFinal
  <2>2. CASE Describe
    BY <2>2, <1>0, <1>1, NoneAssumption DEF Describe, TypeOK, ViewInv, StreamInv, LastPayloadIsFinal
  <2>3. CASE DescribeFails
    BY <2>3, <1>0, <1>1, BoundsAssumption
       DEF DescribeFails, TypeOK, ViewInv, StreamInv, LastPayloadIsFinal
  <2>4. CASE ConnectionLost
    <3>1. <<>> \in Seq(Event) /\ Between(<<>>, shown, status) /\ Sorted(<<>>)
      BY DEF Between, Sorted
    <3>2. following
      BY <2>4, <1>0 DEF ConnectionLost, ViewInv
    <3> QED
      BY <2>4, <3>1, <3>2, <1>0, <1>1, BoundsAssumption
         DEF ConnectionLost, TypeOK, StreamInv, LastPayloadIsFinal
  <2>5. CASE Query
    <3>1. PICK s \in {status, None} : Emit([exec |-> described, status |-> s])
      BY <2>5 DEF Query
    <3>2. server = "query" /\ drops' = drops /\ following /\ described # None
      BY <2>5, <1>0 DEF Query, ViewInv, StreamInv
    <3>3. /\ wire' \in Seq(Event) /\ Between(wire', shown, status) /\ Sorted(wire')
          /\ previous' = [exec |-> described, status |-> s] /\ previous' \in Payload
          /\ described' = None
          /\ server' = IF described # "RUNNING" THEN "ended" ELSE "describe"
      BY <3>1, <3>2, <1>0, EmitOnWire
    <3>4. previous' # None /\ previous'.status = s
      BY <3>3, NoneAssumption
    <3>5. described # "RUNNING" => exec = described
      BY <3>2, <1>0 DEF StreamInv
    <3>6. exec = "COMPLETED" => status = Closed
      BY <1>0 DEF RunInv, StatusOf, C!Final
    <3>7. StreamInv'
      BY <3>3, <3>4, <3>5, <3>6, <1>1 DEF StreamInv, LastPayloadIsFinal
    <3> QED
      BY <3>2, <3>3, <3>7, <1>0 DEF TypeOK
  <2> QED
    BY <2>1, <2>2, <2>3, <2>4, <2>5
<1>4. TypeOK'
  <2>1. FlagsOK'
    BY <1>0, <1>1, <1>2 DEF TypeOK, FlagsOK
  <2> QED
    BY <2>1, <1>0, <1>1, <1>3 DEF TypeOK, C!ContractTypeOK
<1>5. RunInv' /\ PostInv' /\ LockIsExplained'
  BY <1>0, <1>1 DEF RunInv, PostInv, Pending, LockIsExplained
<1>6. ViewInv'
  BY <1>0, <1>1, <1>3 DEF ViewInv
<1> QED
  BY <1>3, <1>4, <1>5, <1>6 DEF IInv

-----------------------------------------------------------------------------
(* The browser *)

\* The first event on the wire is drawn, or ends the stream.
LEMMA BrowserPreserves == IInv /\ (OnMessage \/ OnDone) => IInv'
<1> SUFFICES ASSUME IInv, OnMessage \/ OnDone PROVE IInv'
  OBVIOUS
<1>0. TypeOK /\ RunInv /\ ViewInv /\ PostInv /\ StreamInv /\ LockIsExplained
  BY DEF IInv
<1>1. /\ UNCHANGED <<limit, phase, answer, booked, status, exec, worker, outages, inFlight, choice>>
      /\ UNCHANGED <<post, earlier, orphan, unlocked, following, starts, server, described, previous>>
      /\ UNCHANGED drops
  BY DEF OnMessage, OnDone, workflowVars, workerVars, postVars
<1>2. /\ wire # <<>> /\ wire' = Tail(wire) /\ wire \in Seq(Event)
      /\ source = "open" /\ following
  BY <1>0 DEF OnMessage, OnDone, TypeOK, ViewInv
<1>3. /\ wire' \in Seq(Event) /\ Between(wire', shown, status) /\ Sorted(wire')
      /\ Shows(Head(wire)) # None => Between(wire', Shows(Head(wire)), status)
      /\ Shows(Head(wire)) \in Status \cup {None}
      /\ Shows(Head(wire)) # None => Shows(Head(wire)) <= status
  <2>1. 1 \in 1..Len(wire) /\ Head(wire) = wire[1]
    BY <1>2, EmptySeq
  <2>2. Shows(wire[1]) \in Status \cup {None}
    BY <2>1, <1>0, <1>2, EventFacts DEF ViewInv, Between, Shows
  <2>3. Shows(wire[1]) # None => Shows(wire[1]) <= status
    BY <2>1, <1>0 DEF ViewInv, Between
  <2>4. shown \in Status \cup {None} /\ status \in Status /\ Between(wire, shown, status) /\ Sorted(wire)
    BY <1>0 DEF TypeOK, ViewInv
  <2> QED
    BY <1>2, <2>1, <2>2, <2>3, <2>4, TailStillBetween
<1>4. /\ source' \in {"open", "closed"} /\ scenarios' \in {scenarios, TRUE}
      /\ \/ UNCHANGED <<shown, enabled>> /\ notice' \in {notice, TRUE}
         \/ /\ shown' = Shows(Head(wire)) /\ shown' # None
            /\ notice' = FALSE /\ enabled' = IF shown' = Awaiting THEN ~ inFlight ELSE enabled
  <2>1. CASE OnMessage
    BY <2>1, <1>0 DEF OnMessage, Held, Rendered, Shows, TypeOK
  <2>2. CASE OnDone
    BY <2>2 DEF OnDone, formVars
  <2> QED
    BY <2>1, <2>2
<1>5. TypeOK'
  <2>1. notice' \in BOOLEAN /\ enabled' \in BOOLEAN /\ scenarios' \in BOOLEAN
    BY <1>0, <1>4 DEF TypeOK, FlagsOK
  <2>2. FlagsOK'
    BY <2>1, <1>0, <1>1 DEF TypeOK, FlagsOK
  <2> QED
    <3>1. shown' \in Status \cup {None}
      BY <1>0, <1>3, <1>4 DEF TypeOK
    <3> QED
      BY <2>2, <3>1, <1>0, <1>1, <1>3, <1>4 DEF TypeOK, C!ContractTypeOK
<1>6. RunInv' /\ PostInv' /\ StreamInv'
  BY <1>0, <1>1 DEF RunInv, PostInv, Pending, StreamInv, LastPayloadIsFinal
<1>7. ViewInv'
  BY <1>0, <1>1, <1>2, <1>3, <1>4 DEF ViewInv
<1>8. LockIsExplained'
  <2>1. CASE UNCHANGED <<shown, enabled>>
    BY <2>1, <1>0, <1>1 DEF LockIsExplained
  <2>2. CASE enabled' = IF shown' = Awaiting THEN ~ inFlight ELSE enabled
    <3>1. shown' = Awaiting /\ ~ enabled' => inFlight
      BY <2>2, Zenon
    <3> QED
      BY <3>1, <1>1 DEF LockIsExplained
  <2> QED
    BY <2>1, <2>2, <1>4
<1> QED
  BY <1>5, <1>6, <1>7, <1>8 DEF IInv

\* Another run: the view is emptied, and what remains of the last run's
\* decision is marked as such.
LEMMA StartPreserves == IInv /\ (StartClicked \/ Started \/ StartFails) => IInv'
<1> SUFFICES ASSUME IInv, StartClicked \/ Started \/ StartFails PROVE IInv'
  OBVIOUS
<1> USE NoneAssumption, BoundsAssumption
<1>0. TypeOK /\ RunInv /\ ViewInv /\ PostInv /\ StreamInv /\ LockIsExplained
  BY DEF IInv
<1>1. <<>> \in Seq(Event) /\ (\A low, high : Between(<<>>, low, high)) /\ Sorted(<<>>)
  BY DEF Between, Sorted
<1>2. CASE StartClicked
  <2>1. /\ UNCHANGED <<limit, phase, answer, booked, status, exec, worker, outages>>
        /\ UNCHANGED <<drops, notice, enabled, inFlight, choice, post>>
        /\ starts < MaxStarts /\ starts' = starts + 1
        /\ scenarios' = FALSE /\ following' = FALSE
        /\ source' = "closed" /\ server' = "idle" /\ wire' = <<>>
        /\ described' = None /\ previous' = None /\ shown' = None
        /\ earlier' = inFlight /\ orphan' = None /\ unlocked' = TRUE
    BY <1>2 DEF StartClicked, workflowVars, workerVars
  <2>2. FlagsOK'
    BY <2>1, <1>0 DEF TypeOK, FlagsOK
  <2>3. TypeOK'
    BY <2>1, <2>2, <1>0, <1>1 DEF TypeOK, C!ContractTypeOK
  <2>4. RunInv' /\ ViewInv' /\ LockIsExplained'
    BY <2>1, <1>0, <1>1 DEF RunInv, ViewInv, LockIsExplained, Awaiting, Status, Reviewing, Closed
  <2>5. PostInv' /\ StreamInv'
    BY <2>1, <1>0 DEF PostInv, Pending, StreamInv, LastPayloadIsFinal
  <2> QED
    BY <2>3, <2>4, <2>5 DEF IInv
<1>3. CASE Started
  <2>1. /\ ~ following
        /\ phase' = "reviewing" /\ answer' = "none" /\ booked' = {}
        /\ status' = Reviewing /\ exec' = "RUNNING"
        /\ following' = TRUE /\ source' = "open" /\ server' = "connecting"
        /\ UNCHANGED <<limit, described, previous, wire, drops, scenarios, starts>>
        /\ UNCHANGED <<shown, notice, enabled, worker, outages, inFlight, choice, post, earlier>>
        /\ UNCHANGED <<orphan, unlocked>>
    BY <1>3 DEF Started, formVars, workerVars, postVars
  <2>2. FlagsOK'
    BY <2>1, <1>0 DEF TypeOK, FlagsOK
  <2>3. TypeOK'
    BY <2>1, <2>2, <1>0 DEF TypeOK, C!ContractTypeOK, Status, Reviewing, Closed
  <2>4. RunInv' /\ ViewInv' /\ LockIsExplained'
    BY <2>1, <1>0, <1>1
       DEF RunInv, ViewInv, LockIsExplained, StatusOf, C!Final, Reviewing, Awaiting
  <2>5. PostInv' /\ StreamInv'
    BY <2>1, <1>0 DEF PostInv, Pending, StreamInv, LastPayloadIsFinal
  <2> QED
    BY <2>3, <2>4, <2>5 DEF IInv
<1>4. CASE StartFails
  <2>1. /\ UNCHANGED <<limit, phase, answer, booked, status, exec, worker, outages, inFlight, choice>>
        /\ UNCHANGED <<post, earlier, orphan, unlocked, following, starts, server, described>>
        /\ UNCHANGED <<previous, drops, wire, source, shown, notice, enabled>>
        /\ scenarios' = TRUE
    BY <1>4 DEF StartFails, workflowVars, workerVars, streamVars, formVars, postVars
  <2>2. FlagsOK'
    BY <2>1, <1>0 DEF TypeOK, FlagsOK
  <2>3. TypeOK'
    BY <2>1, <2>2, <1>0 DEF TypeOK, C!ContractTypeOK
  <2>4. RunInv' /\ ViewInv' /\ LockIsExplained'
    BY <2>1, <1>0 DEF RunInv, ViewInv, LockIsExplained
  <2>5. PostInv' /\ StreamInv'
    BY <2>1, <1>0 DEF PostInv, Pending, StreamInv, LastPayloadIsFinal
  <2> QED
    BY <2>3, <2>4, <2>5 DEF IInv
<1> QED
  BY <1>2, <1>3, <1>4

-----------------------------------------------------------------------------
(* The decision *)

\* The request goes out, is answered or lost, and comes back; the workflow
\* and the view are not touched by it.
LEMMA RequestPreserves ==
  IInv /\ (\/ Click \/ UpdateRefused \/ UpdateReturns \/ UpdateOfClosed \/ RequestFails
           \/ EarlierAnswered \/ PostReturns)
    => IInv'
<1> SUFFICES ASSUME IInv,
                    \/ Click \/ UpdateRefused \/ UpdateReturns \/ UpdateOfClosed \/ RequestFails
                    \/ EarlierAnswered \/ PostReturns
             PROVE  IInv'
  OBVIOUS
<1>0. TypeOK /\ RunInv /\ ViewInv /\ PostInv /\ StreamInv /\ LockIsExplained
  BY DEF IInv
<1>1. /\ UNCHANGED <<limit, phase, answer, booked, status, exec, worker, outages, source, scenarios>>
      /\ UNCHANGED <<following, starts, shown, notice, server, described, previous, wire, drops>>
  BY DEF Click, UpdateRefused, UpdateReturns, UpdateOfClosed, RequestFails, EarlierAnswered,
         PostReturns, PostBecomes, workflowVars, workerVars, streamVars, screenVars, formVars
<1>2. CASE Click
  <2>1. /\ following /\ choice' \in Choices /\ inFlight' = TRUE /\ enabled' = FALSE
        /\ post' = "sent" /\ earlier' = FALSE /\ UNCHANGED <<orphan, unlocked>>
    BY <1>2 DEF Click
  <2>2. FlagsOK'
    BY <2>1, <1>0, <1>1 DEF TypeOK, FlagsOK
  <2>3. TypeOK'
    BY <2>1, <2>2, <1>0, <1>1 DEF TypeOK, C!ContractTypeOK
  <2>4. PostInv'
    BY <2>1, <1>1 DEF PostInv, Pending
  <2>5. LockIsExplained'
    BY <2>1 DEF LockIsExplained
  <2> QED
    BY <2>3, <2>4, <2>5, <1>0, <1>1 DEF IInv, RunInv, ViewInv, StreamInv, LastPayloadIsFinal
<1>3. CASE UpdateRefused \/ UpdateReturns \/ UpdateOfClosed \/ RequestFails \/ EarlierAnswered
  <2>1. /\ UNCHANGED <<inFlight, choice, earlier, unlocked, enabled>>
        /\ post # "none" /\ post' \in {"ok", "error"}
        /\ post' = "ok" => earlier \/ (Pending("accepted") /\ phase # "asking")
        /\ orphan' \in {orphan, choice}
    <3>1. CASE UpdateRefused \/ UpdateReturns \/ UpdateOfClosed
      BY <3>1 DEF UpdateRefused, UpdateReturns, UpdateOfClosed, PostBecomes, Pending, screenVars, formVars
    <3>2. CASE RequestFails
      BY <3>2 DEF RequestFails, screenVars, formVars
    <3>3. CASE EarlierAnswered
      BY <3>3 DEF EarlierAnswered, PostBecomes, screenVars, formVars
    <3> QED
      BY <1>3, <3>1, <3>2, <3>3
  <2>2. FlagsOK'
    BY <2>1, <1>0, <1>1 DEF TypeOK, FlagsOK
  <2>3. TypeOK'
    BY <2>1, <2>2, <1>0, <1>1 DEF TypeOK, C!ContractTypeOK
  <2>4. PostInv'
    BY <2>1, <1>0, <1>1 DEF PostInv, Pending
  <2>5. LockIsExplained'
    BY <2>1, <1>0, <1>1 DEF LockIsExplained
  <2> QED
    BY <2>3, <2>4, <2>5, <1>0, <1>1 DEF IInv, RunInv, ViewInv, StreamInv, LastPayloadIsFinal
<1>4. CASE PostReturns
  <2>1. /\ post' = "none" /\ inFlight' = FALSE /\ choice' = None /\ earlier' = FALSE
        /\ unlocked' = (unlocked /\ post = "ok" /\ ~ earlier)
        /\ UNCHANGED <<orphan, enabled>> /\ post # "none"
    BY <1>4 DEF PostReturns, screenVars, formVars
  <2>2. FlagsOK'
    BY <2>1, <1>0, <1>1 DEF TypeOK, FlagsOK
  <2>3. TypeOK'
    BY <2>1, <2>2, <1>0, <1>1 DEF TypeOK, C!ContractTypeOK
  <2>4. PostInv'
    BY <2>1 DEF PostInv, Pending
  <2>5. LockIsExplained'
    <3>1. unlocked' => Pending("ok") /\ unlocked
      BY <2>1, <1>0 DEF Pending, TypeOK, FlagsOK
    <3>2. Pending("ok") => answer # "none"
      BY <1>0 DEF PostInv, Pending, Choices
    <3> QED
      BY <3>1, <3>2, <1>1 DEF LockIsExplained
  <2> QED
    BY <2>3, <2>4, <2>5, <1>0, <1>1 DEF IInv, RunInv, ViewInv, StreamInv, LastPayloadIsFinal
<1> QED
  BY <1>2, <1>3, <1>4

-----------------------------------------------------------------------------
(* Theorems *)

\* Every step keeps the invariant.
LEMMA StepInv == IInv /\ [Next]_vars => IInv'
<1> SUFFICES ASSUME IInv, [Next]_vars PROVE IInv'
  OBVIOUS
<1>1. CASE UNCHANGED vars
  BY <1>1 DEF vars, workflowVars, workerVars, streamVars, screenVars, formVars, postVars,
              IInv, TypeOK, FlagsOK, C!ContractTypeOK, RunInv, ViewInv, PostInv, Pending, StreamInv,
              LastPayloadIsFinal, LockIsExplained
<1>2. CASE Next
  <2>1. CASE WorkflowMoves
    BY <2>1, WorkflowStep
  <2>2. CASE OtherDecides \/ UpdateAccepted \/ OrphanHandled
    BY <2>2, DecisionStep
  <2>3. CASE WorkerStops \/ WorkerStarts
    BY <2>3, WorkerStep
  <2>4. CASE StreamStep \/ DescribeFails \/ ConnectionLost
    BY <2>4, StreamPreserves DEF StreamStep
  <2>5. CASE BrowserStep
    BY <2>5, BrowserPreserves DEF BrowserStep
  <2>6. CASE StartClicked \/ StartStep
    BY <2>6, StartPreserves DEF StartStep
  <2>7. CASE Click \/ RequestFails \/ (PostStep /\ ~ UpdateAccepted)
    BY <2>7, RequestPreserves DEF PostStep
  <2>8. CASE ErpAcceptsLate
    BY <2>8, LateStep
  <2> QED
    BY <1>2, <2>1, <2>2, <2>3, <2>4, <2>5, <2>6, <2>7, <2>8 DEF Next
<1> QED
  BY <1>1, <1>2

\* For any number of outages, drops, runs and events under way: what is on
\* the wire is sorted, between what is shown and what is so
\* (main.py:331-360, app.js:206-224).
THEOREM Invariance == Spec => []IInv
<1> QED
  BY InitInv, StepInv, PTL DEF Spec

\* The variables keep their types.
THEOREM TypeCorrectness == Spec => []TypeOK
<1>1. IInv => TypeOK
  BY DEF IInv
<1> QED
  BY <1>1, Invariance, PTL

\* A stream of a completed run ends with no status or with the closed one
\* (main.py:158-189, 345-359).
THEOREM EndSafety == Spec => []LastPayloadIsFinal
<1>1. IInv => LastPayloadIsFinal
  BY DEF IInv, StreamInv
<1> QED
  BY <1>1, Invariance, PTL

\* Whatever the worker, the stream, the browser and the operator do, the run on
\* the screen moves by the contract only, or is another run from the start
\* (po_approval.py:202-257, app.js:139-191).
THEOREM RunsFollowContract ==
  Spec => C!ContractInit /\ [][C!ContractNext \/ Started]_C!contractVars
<1>1. Init => C!ContractInit
  BY DEF Init, C!ContractInit
<1>2. IInv /\ [Next]_vars => [C!ContractNext \/ Started]_C!contractVars
  <2> SUFFICES ASSUME IInv, [Next]_vars
               PROVE  C!ContractNext \/ Started \/ UNCHANGED workflowVars
    BY DEF workflowVars, C!contractVars
  <2>1. orphan \in Choices \cup {None} /\ (post # "none" => choice \in Choices)
    BY DEF IInv, TypeOK, C!ContractTypeOK, PostInv
  <2>2. CASE WorkflowMoves \/ ErpAcceptsLate
    <3>1. C!Book(limit) => \E n \in booked' : C!Book(n)
      BY DEF C!Book
    <3> QED
      BY <2>2, <3>1 DEF WorkflowMoves, ErpAcceptsLate, C!ContractNext
  <2>3. ASSUME NEW a \in Choices, C!Answer(a) PROVE C!ContractNext
    BY <2>3 DEF Choices, C!ContractNext
  <2>4. CASE OtherDecides \/ UpdateAccepted
    BY <2>1, <2>3, <2>4 DEF OtherDecides, UpdateAccepted, Pending
  <2>5. CASE OrphanHandled
    BY <2>1, <2>3, <2>5 DEF OrphanHandled, workflowVars
  <2>6. CASE UNCHANGED vars \/ WorkerStops \/ WorkerStarts
    BY <2>6 DEF vars, WorkerStops, WorkerStarts
  <2>7. CASE StreamStep \/ DescribeFails \/ ConnectionLost \/ BrowserStep
    BY <2>7 DEF StreamStep, Connect, Describe, Query, DescribeFails, ConnectionLost,
        BrowserStep, OnMessage, OnDone
  <2>8. CASE StartClicked \/ StartStep
    BY <2>8 DEF StartClicked, StartStep, StartFails
  <2>9. CASE Click \/ RequestFails \/ (PostStep /\ ~ UpdateAccepted)
    BY <2>9 DEF Click, RequestFails, PostStep, UpdateRefused, UpdateReturns, UpdateOfClosed,
        EarlierAnswered, PostReturns
  <2> QED
    BY <2>2, <2>4, <2>5, <2>6, <2>7, <2>8, <2>9 DEF Next
<1> QED
  BY <1>1, <1>2, Invariance, PTL DEF Spec

\* What the contract promises holds of every run the screen follows.
THEOREM PromiseOnScreen == Spec => []C!Promise
<1>1. C!ContractInit => C!Promise
  BY DEF C!ContractInit, C!Promise
<1>2. ASSUME C!Promise, C!ContractNext PROVE C!Promise'
  <2>1. CASE C!Settle
    BY <1>2, <2>1 DEF C!Promise, C!Settle, C!Decline, C!Clear, C!Ask, C!Expire, C!Grant,
        C!Refuse, C!Confirm, C!Break, C!Abandon, C!Bookable, C!Move
  <2>2. CASE \E a \in {"approve", "reject"} : C!Answer(a)
    BY <1>2, <2>2 DEF C!Promise, C!Answer
  <2>3. CASE \E n \in booked' : C!Book(n)
    BY <1>2, <2>3 DEF C!Promise, C!Book, C!Bookable
  <2> QED
    BY <1>2, <2>1, <2>2, <2>3 DEF C!ContractNext
<1>3. C!Promise /\ Started => C!Promise'
  BY DEF C!Promise, Started
<1>4. C!Promise /\ UNCHANGED C!contractVars => C!Promise'
  BY DEF C!Promise, C!contractVars
<1> QED
  BY <1>1, <1>2, <1>3, <1>4, RunsFollowContract, PTL

\* The screen is never ahead of the workflow, and a confirmed answer is on
\* record and acted on: what was rejected is not in the ERP
\* (main.py:310-320, po_approval.py:168-191).
THEOREM ViewSafety == Spec => []ViewIsPastOrPresent
<1>1. IInv /\ C!Promise => ViewIsPastOrPresent
  <2> SUFFICES ASSUME IInv, C!Promise PROVE ViewIsPastOrPresent
    OBVIOUS
  <2>1. TypeOK /\ RunInv /\ ViewInv /\ PostInv
    BY DEF IInv
  <2>2. ASSUME Pending("ok")
        PROVE  /\ status > Awaiting /\ answer = choice
               /\ choice = "reject" => phase = "declined" /\ booked = {}
    <3>1. answer = choice /\ answer # "none" /\ phase # "asking"
      BY <2>1, <2>2 DEF PostInv, Pending, Choices
    <3>2. phase \notin {"reviewing", "broken"}
      BY <2>1, <3>1 DEF RunInv
    <3>3. choice = "reject" => phase = "declined" /\ booked = {}
      BY <3>1 DEF C!Promise, C!Bookable
    <3> QED
      BY <2>1, <3>1, <3>2, <3>3 DEF RunInv, StatusOf, Awaiting, Submitting, Closed
  <2> QED
    BY <2>1, <2>2 DEF ViewIsPastOrPresent, ViewInv
<1> QED
  BY <1>1, PromiseOnScreen, Invariance, PTL

\* The buttons of a run that waits are locked by a request under way, or by
\* one that failed or was for an earlier run (app.js:504-505, 539-563).
THEOREM LockSafety == Spec => []LockIsExplained
<1>1. IInv => LockIsExplained
  BY DEF IInv
<1> QED
  BY <1>1, Invariance, PTL

\* Whatever is lost and tried again, the screen does not go back within a run
\* (app.js:206-224).
THEOREM ViewOrder == Spec => ViewNeverGoesBack
<1>1. IInv /\ [Next]_vars => [following' /\ shown # None => shown' # None /\ shown' >= shown]_vars
  <2> SUFFICES ASSUME IInv, Next, following', shown # None PROVE shown' # None /\ shown' >= shown
    OBVIOUS
  <2>1. TypeOK /\ ViewInv /\ shown \in Status
    BY DEF IInv, TypeOK
  <2>2. CASE UNCHANGED shown
    BY <2>1, <2>2 DEF Status, Reviewing, Closed
  <2>3. CASE OnMessage
    <3>1. wire # <<>> /\ wire \in Seq(Event) /\ ~ Head(wire).done
      BY <2>1, <2>3 DEF OnMessage, TypeOK
    <3>2. 1 \in 1..Len(wire) /\ Head(wire) = wire[1]
      BY <3>1, EmptySeq
    <3>3. CASE Head(wire).payload.status = None
      BY <2>2, <2>3, <3>3 DEF OnMessage, Held
    <3>4. CASE Head(wire).payload.status # None
      <4>1. shown' = Head(wire).payload.status
        BY <2>3, <3>4 DEF OnMessage, Rendered
      <4>2. Shows(wire[1]) = Head(wire).payload.status
        BY <3>1, <3>2 DEF Shows
      <4>3. wire[1].payload \in Payload
        BY <2>1, <3>1, <3>2 DEF ViewInv, Between
      <4>4. shown <= shown' /\ shown' \in Status
        BY <2>1, <3>2, <3>4, <4>1, <4>2, <4>3 DEF ViewInv, Between, Payload
      <4> QED
        BY <2>1, <3>4, <4>1, <4>4 DEF Status, Reviewing, Closed
    <3> QED
      BY <3>3, <3>4
  <2>4. ~ StartClicked
    BY DEF StartClicked
  <2> QED
    BY <2>2, <2>3, <2>4
       DEF Next, WorkflowMoves, ErpAcceptsLate, OtherDecides, WorkerStops, WorkerStarts, StreamStep, Connect, Describe,
           Query, DescribeFails, ConnectionLost, BrowserStep, OnDone, StartStep, Started, StartFails,
           Click, PostStep, UpdateAccepted, UpdateRefused, UpdateReturns, UpdateOfClosed,
           EarlierAnswered, PostReturns, RequestFails, OrphanHandled, PostBecomes, screenVars, formVars
<1> QED
  BY <1>1, Invariance, PTL DEF Spec, ViewNeverGoesBack

=============================================================================
