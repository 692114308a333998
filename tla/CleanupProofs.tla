--------------------------- MODULE CleanupProofs ---------------------------
(***************************************************************************)
(* Theorems about Cleanup, for every set of processes, every family tree,  *)
(* every choice of options and every number of rounds.                     *)
(***************************************************************************)
EXTENDS Cleanup, TLAPS

-----------------------------------------------------------------------------
(* The inductive invariant *)

\* A process has its creator or launchd for a parent, and never a dead one.
TableInv ==
  /\ Script \in alive
  /\ \A q \in Procs : parent[q] \in (alive \cup {Launchd}) \cap {Creator[q], Launchd}

\* The way up from the script is protected, as far as it has been climbed.
LineInv ==
  /\ protected \subseteq born /\ queue \subseteq born
  /\ at = "start" => \A p, q \in queue : p = q
  /\ Script \in protected \/ (at = "start" /\ queue = {Script})
  /\ \A r \in protected \cap alive :
       parent[r] \in protected \cup {Launchd} \/ (at = "start" /\ parent[r] \in queue)

\* p may be stopped: it is not protected, it descends from a wanted process of
\* this checkout, and without --all it had no terminal while it was alive.
Ours(p) ==
  /\ p \notin protected
  /\ \E q \in Upwards(Creator, p) : q \in Here /\ Command[q] \in wanted
  /\ all \/ p \notin Terminal \/ p \notin alive

ChoiceInv ==
  /\ listed \subseteq born
  /\ at = "start" => patterns = wanted /\ listed = {} /\ candidates = {} /\ roots = {}
  /\ at \notin {"start", "scan"} => candidates = {}
  /\ \A p \in listed : Command[p] \in wanted
  /\ \A p \in roots : Ours(p)
  \* What pgrep returned is a root, or there was a reason to leave it alone.
  /\ \A p \in listed \ candidates :
       \/ p \in roots \cup protected
       \/ p \notin alive \cap Here
       \/ p \in Terminal /\ ~ all

TargetInv ==
  /\ targets \subseteq born
  /\ \A p \in targets : Ours(p)
  /\ at = "walk" => \A p \in queue : Ours(p)
  /\ at \in {"start", "scan"} => targets = {}
  /\ at = "walk" => roots \subseteq targets \cup queue
  /\ at \in {"signal", "wait", "insist", "verify"} => roots \subseteq targets
  /\ at \in {"signal", "insist"} => queue \subseteq targets

FirstSignal == IF hardKill THEN "KILL" ELSE "TERM"

SignalInv ==
  /\ Signalled \subseteq targets
  /\ ~ all => Signalled \cap Terminal = {}
  /\ at \in {"start", "scan", "walk"} => Signalled = {}
  /\ dryRun => at \notin {"signal", "wait", "insist", "verify"} /\ Signalled = {}
  /\ at = "signal" =>
       \A p \in targets \cap alive : p \in queue \/ FirstSignal \in signalled[p]
  /\ at \in {"wait", "insist", "verify"} =>
       \A p \in targets \cap alive : FirstSignal \in signalled[p]
  /\ at \in {"start", "scan", "walk", "signal"} => rounds = 0
  /\ at = "wait" => rounds < MaxRounds
  /\ at = "insist" =>
       /\ rounds = MaxRounds
       /\ \A p \in targets \cap alive : p \in queue \/ "KILL" \in signalled[p]
  /\ at = "verify" => \A p \in targets \cap alive : "KILL" \in signalled[p]

ExitInv ==
  /\ at # "exited" => exitCode = None
  /\ at = "exited" => ExitCodeIsTrue

IInv == TypeOK /\ TableInv /\ LineInv /\ ChoiceInv /\ TargetInv /\ SignalInv /\ ExitInv

\* What happens to the table in a step: processes are added, the dead stay
\* dead, and a living one keeps its parent or falls to launchd.
Older ==
  /\ born \subseteq born'
  /\ alive' \cap born \subseteq alive
  /\ \A r \in alive' \cap born : parent'[r] \in {parent[r], Launchd}

-----------------------------------------------------------------------------
(* The process table and family lines *)

\* What lies above a process is above all it has started.
LEMMA UpwardsGrows ==
  ASSUME NEW kin, NEW p \in Procs, NEW q \in Procs, kin[q] = p, Launchd \notin Procs
  PROVE  Upwards(kin, p) \subseteq Upwards(kin, q)
<1> SUFFICES ASSUME NEW r \in Upwards(kin, p), NEW S \in SUBSET Procs,
                    q \in S, \A t \in S : kin[t] \in S \cup {Launchd}
             PROVE  r \in S
  BY DEF Upwards
<1>1. p \in S
  OBVIOUS
<1> QED
  BY <1>1 DEF Upwards

LEMMA UpwardsStart == ASSUME NEW kin, NEW p \in Procs PROVE p \in Upwards(kin, p)
  BY DEF Upwards

LEMMA ProcessStepTable ==
  ASSUME TypeOK, TableInv, NEW p \in Procs, Starts(p) \/ Ends(p)
  PROVE  /\ alive' \subseteq born' /\ born' \subseteq Procs
         /\ parent' \in [Procs -> Procs \cup {Launchd}]
         /\ TableInv' /\ Older
<1> USE ProcsAssumption
<1>1. CASE Starts(p)
  <2> USE <1>1 DEF Starts, TypeOK, TableInv, Older
  <2>1. /\ alive' \subseteq born' /\ born' \subseteq Procs
        /\ parent' \in [Procs -> Procs \cup {Launchd}]
        /\ parent'[p] = Creator[p] /\ \A q \in Procs \ {p} : parent'[q] = parent[q]
    OBVIOUS
  <2>2. TableInv'
    BY <2>1
  <2> QED
    BY <2>1, <2>2
<1>2. CASE Ends(p)
  <2> USE <1>2 DEF Ends, TypeOK, TableInv, Older, Adopted
  <2>1. /\ alive' \subseteq born' /\ born' \subseteq Procs
        /\ parent' \in [Procs -> Procs \cup {Launchd}]
        /\ \A q \in Procs : parent'[q] = IF parent[q] = p THEN Launchd ELSE parent[q]
    OBVIOUS
  <2>2. TableInv'
    BY <2>1
  <2> QED
    BY <2>1, <2>2
<1> QED
  BY <1>1, <1>2

LEMMA TableStep ==
  ASSUME TypeOK, TableInv, [Next]_vars
  PROVE  /\ alive' \subseteq born' /\ born' \subseteq Procs
         /\ parent' \in [Procs -> Procs \cup {Launchd}]
         /\ TableInv' /\ Older
<1>1. CASE ProcessStep \/ \E p \in Procs : ChooseEnding(p)
  BY <1>1, ProcessStepTable DEF ProcessStep, ChooseEnding
<1>2. CASE UNCHANGED procVars
  BY <1>2 DEF procVars, TypeOK, TableInv, Older
<1>3. UNCHANGED procVars \/ ProcessStep \/ \E p \in Procs : ChooseEnding(p)
  BY DEF Next, ScriptStep, vars, NothingWanted, ScanEnds, WalkEnds, SignalsSent, Look,
         InsistEnds, Verify, Pgrep, Protect, Choose, Walk, Signal, Insist
<1> QED
  BY <1>1, <1>2, <1>3

\* Ours stays ours, whatever starts and ends.
LEMMA OursStays ==
  ASSUME NEW p, p \in born, Ours(p), Older, UNCHANGED <<protected, wanted, all>>
  PROVE  Ours(p)'
  BY DEF Ours, Older

\* A living child of one of ours is one of ours: protection and terminals are
\* handed down, or rather upwards (cleanup.sh:66-72, 80-85).
LEMMA ChildrenAreOurs ==
  ASSUME TypeOK, TableInv, LineInv, at # "start",
         NEW p \in Procs, Ours(p), NEW q \in Children(p)
  PROVE  Ours(q)
<1> USE ProcsAssumption DEF Children
<1>1. q \in Procs /\ q \in alive /\ parent[q] = p /\ Creator[q] = p /\ p \in alive
  BY DEF TypeOK, TableInv
<1>2. q \notin protected
  BY <1>1 DEF LineInv, Ours
<1>3. Upwards(Creator, p) \subseteq Upwards(Creator, q)
  BY <1>1, UpwardsGrows
<1>4. all \/ q \notin Terminal
  BY <1>1 DEF Ours
<1> QED
  BY <1>1, <1>2, <1>3, <1>4 DEF Ours

-----------------------------------------------------------------------------
(* Each part of the invariant is kept *)

LEMMA OptionsStay == ASSUME [Next]_vars PROVE UNCHANGED options
  BY DEF Next, ProcessStep, ScriptStep, vars, NothingWanted, ScanEnds, WalkEnds,
         SignalsSent, Look, InsistEnds, Verify, Pgrep, Protect, Choose, ChooseEnding,
         Walk, Signal, Insist

LEMMA TypeStep ==
  ASSUME TypeOK, TableInv, SignalInv, [Next]_vars PROVE TypeOK'
<1>1. /\ alive' \subseteq born' /\ born' \subseteq Procs
      /\ parent' \in [Procs -> Procs \cup {Launchd}]
  BY TableStep
<1>2. UNCHANGED <<all, dryRun, hardKill, wanted>>
  BY OptionsStay DEF options
<1>3. OptionsOK'
  BY <1>2 DEF TypeOK, OptionsOK
<1> DEFINE Rest ==
      /\ at \in {"start", "scan", "walk", "signal", "wait", "insist", "verify", "exited"}
      /\ patterns \subseteq wanted
      /\ protected \subseteq Procs /\ listed \subseteq Procs
      /\ candidates \subseteq listed /\ roots \subseteq listed
      /\ targets \subseteq Procs /\ queue \subseteq Procs
      /\ rounds \in 0..MaxRounds
      /\ signalled \in [Procs -> SUBSET {"TERM", "KILL"}]
      /\ exitCode \in {None, 0, 1}
<1>4. alive \subseteq Procs /\ Rest
  BY DEF TypeOK
<1> USE <1>2, <1>4 DEF choice
<1>5. ASSUME ProcessStep \/ UNCHANGED vars PROVE Rest'
  BY <1>5 DEF ProcessStep, vars
<1>7. ASSUME NothingWanted \/ ScanEnds \/ WalkEnds \/ SignalsSent \/ InsistEnds \/ Verify
      PROVE  Rest'
  BY <1>7 DEF NothingWanted, ScanEnds, WalkEnds, SignalsSent, InsistEnds, Verify, Exit
<1>8. ASSUME Look PROVE Rest'
  <2>1. rounds < MaxRounds
    BY <1>8 DEF Look, SignalInv
  <2> QED
    BY <1>8, <2>1, ProcsAssumption DEF Look
<1>9. ASSUME NEW kind \in Kinds, Pgrep(kind) PROVE Rest'
  BY <1>9 DEF Pgrep
<1>10. ASSUME NEW p \in Procs, Protect(p) \/ Choose(p) \/ ChooseEnding(p) PROVE Rest'
  BY <1>10 DEF Protect, Choose, ChooseEnding
<1>11. ASSUME NEW p \in Procs, Walk(p) \/ Signal(p) \/ Insist(p) PROVE Rest'
  <2>1. signalled' \in [Procs -> SUBSET {"TERM", "KILL"}]
    BY <1>11 DEF Walk, Signal, Insist, Receive
  <2> QED
    BY <1>11, <2>1 DEF Walk, Children, Signal, Insist
<1>12. Rest'
  BY <1>5, <1>7, <1>8, <1>9, <1>10, <1>11 DEF Next, ScriptStep
<1> QED
  BY <1>1, <1>2, <1>3, <1>12 DEF TypeOK

LEMMA LineStep ==
  ASSUME TypeOK, TableInv, LineInv, ChoiceInv, TargetInv, [Next]_vars PROVE LineInv'
<1>1. Older /\ alive' \subseteq born' /\ TableInv'
  BY TableStep
<1>2. /\ alive \subseteq born /\ protected \subseteq born /\ queue \subseteq born
      /\ roots \subseteq born /\ targets \subseteq born /\ born \subseteq Procs
  BY DEF TypeOK, LineInv, ChoiceInv, TargetInv
\* Above the script nothing changes but that processes end.
<1>3. ASSUME UNCHANGED <<at, protected, queue>> PROVE LineInv'
  BY <1>1, <1>2, <1>3 DEF LineInv, Older
<1>4. CASE ProcessStep \/ UNCHANGED vars \/ \E p \in Procs : Choose(p) \/ ChooseEnding(p)
  BY <1>3, <1>4 DEF ProcessStep, vars, choice, Choose, ChooseEnding
<1>5. ASSUME NEW p \in Procs, Protect(p) PROVE LineInv'
  <2>1. /\ at = "start" /\ at' = at /\ queue = {p} /\ protected' = protected \cup {p}
        /\ queue' = {q \in alive : p \in Children(q)} /\ UNCHANGED procVars
    BY <1>5 DEF Protect, LineInv
  <2>2. UNCHANGED <<born, alive, parent>>
    BY <2>1 DEF procVars
  <2>3. p \in alive => parent[p] \in queue' \cup {Launchd}
    BY <2>1 DEF Children, TableInv
  <2>4. queue' \subseteq alive /\ \A q \in queue' : q = parent[p]
    BY <2>1 DEF Children
  <2>5. ASSUME NEW r \in protected', r \in alive
        PROVE  parent[r] \in protected' \cup queue' \cup {Launchd}
    BY <2>1, <2>3, <2>5 DEF LineInv
  <2> HIDE DEF Children
  <2> QED
    BY <1>2, <2>1, <2>2, <2>4, <2>5 DEF LineInv
\* The way up has ended, and the queue is used for something else.
<1>6. ASSUME UNCHANGED <<born, alive, parent, protected>>, queue' \subseteq born,
             at' # "start", at # "start" \/ queue = {}
      PROVE  LineInv'
  BY <1>2, <1>6 DEF LineInv
<1>7. CASE NothingWanted \/ ScanEnds \/ WalkEnds \/ SignalsSent \/ Look \/ InsistEnds
           \/ Verify
  BY <1>2, <1>6, <1>7 DEF NothingWanted, ScanEnds, WalkEnds, SignalsSent, Look, InsistEnds,
      Verify, Exit, procVars, choice
<1>8. CASE \/ \E kind \in Kinds : Pgrep(kind)
           \/ \E p \in Procs : Walk(p) \/ Signal(p) \/ Insist(p)
  BY <1>2, <1>6, <1>8 DEF Pgrep, Walk, Children, Signal, Insist, procVars, choice
<1> QED
  BY <1>4, <1>5, <1>7, <1>8 DEF Next, ScriptStep

LEMMA ChoiceStep ==
  ASSUME TypeOK, TableInv, LineInv, ChoiceInv, [Next]_vars PROVE ChoiceInv'
<1>1. Older /\ UNCHANGED <<all, wanted>>
  BY TableStep, OptionsStay DEF options
<1>2. /\ listed \subseteq born /\ candidates \subseteq listed /\ roots \subseteq listed
      /\ alive \subseteq born /\ born \subseteq Procs
  BY DEF TypeOK, ChoiceInv
<1>3. ASSUME UNCHANGED choice, at' = at \/ at' # "start",
             at' \notin {"start", "scan"} => candidates = {}
      PROVE  ChoiceInv'
  <2>1. UNCHANGED <<protected, patterns, listed, candidates, roots>>
    BY <1>3 DEF choice
  <2>2. \A p \in roots : Ours(p)'
    BY <1>1, <1>2, <2>1, OursStays DEF ChoiceInv
  <2> QED
    BY <1>1, <1>2, <1>3, <2>1, <2>2 DEF ChoiceInv, Older
<1>4. CASE ProcessStep \/ UNCHANGED vars
  BY <1>3, <1>4 DEF ProcessStep, vars, ChoiceInv
<1>5. CASE NothingWanted \/ ScanEnds \/ WalkEnds \/ SignalsSent \/ Look \/ InsistEnds
           \/ Verify
  BY <1>3, <1>5 DEF NothingWanted, ScanEnds, WalkEnds, SignalsSent, Look, InsistEnds,
      Verify, Exit, ChoiceInv
<1>6. CASE \E p \in Procs : Walk(p) \/ Signal(p) \/ Insist(p)
  BY <1>3, <1>6 DEF Walk, Signal, Insist, ChoiceInv
\* While the way up is climbed there is nothing to protect yet.
<1>7. ASSUME NEW p \in Procs, Protect(p) PROVE ChoiceInv'
  BY <1>1, <1>7 DEF Protect, procVars, ChoiceInv
<1>8. ASSUME NEW kind \in Kinds, Pgrep(kind) PROVE ChoiceInv'
  <2>1. /\ at \in {"start", "scan"} /\ at' = "scan" /\ kind \in patterns /\ candidates = {}
        /\ candidates' = {p \in alive : Command[p] = kind}
        /\ listed' = listed \cup candidates' /\ kind \in wanted
        /\ UNCHANGED <<born, alive, protected, roots>>
    BY <1>8 DEF Pgrep, procVars, ChoiceInv, TypeOK
  <2>2. \A p \in roots : Ours(p)'
    BY <1>1, <1>2, <2>1, OursStays DEF ChoiceInv
  <2> QED
    BY <1>1, <1>2, <2>1, <2>2 DEF ChoiceInv
<1>9. ASSUME NEW p \in Procs, Choose(p) \/ ChooseEnding(p) PROVE ChoiceInv'
  <2>1. /\ at = "scan" /\ UNCHANGED <<at, protected, patterns, listed>>
        /\ p \in candidates /\ candidates' = candidates \ {p}
    BY <1>9 DEF Choose, ChooseEnding
  <2>2. roots' \in {roots, roots \cup {p}}
    BY <1>9 DEF Choose, ChooseEnding
  <2>3. \/ p \in roots'
        \/ p \notin alive' \cap Here
        \/ p \in protected
        \/ p \in Terminal /\ ~ all
    BY <1>9 DEF Choose, ChooseEnding, Ends, procVars
  <2>4. p \in roots' => \/ p \in roots
                        \/ /\ p \in Here \ protected
                           /\ all \/ p \notin Terminal \/ p \notin alive'
    BY <1>9 DEF Choose, ChooseEnding, Ends
  <2>5. \A q \in roots : Ours(q)'
    BY <1>1, <1>2, <2>1, OursStays DEF ChoiceInv
  <2>6. p \in roots' \ roots => Ours(p)'
    BY <1>1, <1>2, <2>1, <2>4, UpwardsStart DEF Ours, ChoiceInv
  <2>7. \A q \in roots' : Ours(q)'
    BY <2>2, <2>5, <2>6
  <2>8. \A q \in listed' \ candidates' :
          \/ q \in roots' \cup protected'
          \/ q \notin alive' \cap Here
          \/ q \in Terminal /\ ~ all'
    BY <1>1, <1>2, <2>1, <2>2, <2>3 DEF ChoiceInv, Older
  <2> QED
    BY <1>1, <1>2, <2>1, <2>7, <2>8 DEF ChoiceInv, Older
<1> QED
  BY <1>4, <1>5, <1>6, <1>7, <1>8, <1>9 DEF Next, ScriptStep

LEMMA TargetStep ==
  ASSUME TypeOK, TableInv, LineInv, ChoiceInv, TargetInv, [Next]_vars PROVE TargetInv'
<1>1. Older /\ UNCHANGED <<all, wanted>>
  BY TableStep, OptionsStay DEF options
<1>2. /\ targets \subseteq born /\ queue \subseteq born /\ roots \subseteq born
      /\ alive \subseteq born /\ born \subseteq Procs
  BY DEF TypeOK, LineInv, ChoiceInv, TargetInv
\* Nothing becomes a target, and what may be stopped may still be.
<1>3. ASSUME UNCHANGED <<targets, protected>> PROVE \A p \in targets' : Ours(p)'
  BY <1>1, <1>2, <1>3, OursStays DEF TargetInv
<1>4. ASSUME UNCHANGED <<at, queue, targets, protected>>, at = "scan" \/ roots' = roots
      PROVE  TargetInv'
  <2>1. at = "walk" => \A p \in queue : Ours(p)'
    BY <1>1, <1>2, <1>4, OursStays DEF TargetInv
  <2> QED
    BY <1>1, <1>2, <1>3, <1>4, <2>1 DEF TargetInv, Older
<1>5. CASE ProcessStep \/ UNCHANGED vars \/ \E p \in Procs : Choose(p) \/ ChooseEnding(p)
  BY <1>4, <1>5 DEF ProcessStep, vars, choice, Choose, ChooseEnding
\* Before the walk there is no target.
<1>6. CASE \/ NothingWanted \/ \E kind \in Kinds : Pgrep(kind)
           \/ \E p \in Procs : Protect(p)
  BY <1>1, <1>6 DEF NothingWanted, Exit, Pgrep, Protect, TargetInv
<1>7. CASE ScanEnds
  <2>1. /\ at = "scan" /\ at' \in {"exited", "walk"} /\ queue' = roots
        /\ UNCHANGED <<targets, roots, protected, born>>
    BY <1>7 DEF ScanEnds, Exit, procVars, choice
  <2>2. \A p \in roots : Ours(p)'
    BY <1>1, <1>2, <2>1, OursStays DEF ChoiceInv
  <2> QED
    BY <2>1, <2>2 DEF TargetInv
<1>8. ASSUME NEW p \in Procs, Walk(p) PROVE TargetInv'
  <2>1. /\ at = "walk" /\ at' = at /\ p \in queue /\ targets' = targets \cup {p}
        /\ queue' = (queue \ {p}) \cup Children(p)
        /\ UNCHANGED <<born, alive, protected, roots>>
    BY <1>8 DEF Walk, procVars, choice
  <2>2. Ours(p) /\ \A q \in Children(p) : Ours(q)
    BY <2>1, ChildrenAreOurs DEF TargetInv
  <2>3. Children(p) \subseteq born
    BY <1>2 DEF Children
  <2>4. \A q \in targets' \cup queue' : Ours(q) /\ q \in born
    BY <1>2, <2>1, <2>2, <2>3 DEF TargetInv
  <2>5. \A q \in targets' \cup queue' : Ours(q)'
    BY <1>1, <2>1, <2>4, OursStays
  <2> QED
    BY <2>1, <2>4, <2>5 DEF TargetInv
<1>9. CASE WalkEnds \/ SignalsSent \/ Look \/ InsistEnds \/ Verify
  <2>1. /\ at \in {"walk", "signal", "wait", "insist", "verify"}
        /\ at' \in {"signal", "wait", "insist", "verify", "exited"}
        /\ at = "walk" => queue = {}
        /\ at' \in {"signal", "insist"} => queue' \subseteq targets
        /\ UNCHANGED <<targets, roots, protected, born>>
    BY <1>9 DEF WalkEnds, SignalsSent, Look, InsistEnds, Verify, Exit, procVars, choice
  <2> QED
    BY <1>3, <2>1 DEF TargetInv
<1>10. CASE \E p \in Procs : Signal(p) \/ Insist(p)
  <2>1. /\ at \in {"signal", "insist"} /\ queue' \subseteq queue
        /\ UNCHANGED <<at, targets, roots, protected, born>>
    BY <1>10 DEF Signal, Insist, procVars, choice
  <2> QED
    BY <1>3, <2>1 DEF TargetInv
<1> QED
  BY <1>5, <1>6, <1>7, <1>8, <1>9, <1>10 DEF Next, ScriptStep

LEMMA SignalStep ==
  ASSUME TypeOK, TableInv, TargetInv, SignalInv, [Next]_vars PROVE SignalInv'
<1>1. Older /\ UNCHANGED <<all, dryRun, hardKill>>
  BY TableStep, OptionsStay DEF options
<1>2. /\ targets \subseteq born /\ born \subseteq Procs
      /\ signalled \in [Procs -> SUBSET {"TERM", "KILL"}]
      /\ rounds \in 0..MaxRounds /\ MaxRounds \in Nat \ {0}
  BY ProcsAssumption DEF TypeOK, TargetInv
<1>3. FirstSignal' = FirstSignal
  BY <1>1 DEF FirstSignal
\* As long as nobody is signalled, only deaths matter.
<1>4. ASSUME UNCHANGED <<at, targets, queue, rounds, signalled>> PROVE SignalInv'
  BY <1>1, <1>2, <1>3, <1>4 DEF SignalInv, Signalled, Older
<1>5. CASE \/ ProcessStep \/ UNCHANGED vars
           \/ \E p \in Procs : Choose(p) \/ ChooseEnding(p)
  BY <1>4, <1>5 DEF ProcessStep, vars, Choose, ChooseEnding
\* Up to the first signal, none has been sent and nobody has looked.
<1>6. ASSUME at \in {"start", "scan", "walk"}, at' \in {"start", "scan", "walk", "exited"},
             UNCHANGED <<rounds, signalled>>
      PROVE  SignalInv'
  BY <1>1, <1>6 DEF SignalInv, Signalled
<1>7. CASE \/ NothingWanted \/ ScanEnds \/ \E kind \in Kinds : Pgrep(kind)
           \/ \E p \in Procs : Protect(p) \/ Walk(p)
  BY <1>6, <1>7 DEF NothingWanted, ScanEnds, Exit, Pgrep, Protect, Walk
<1>8. CASE WalkEnds
  <2>1. CASE dryRun
    BY <1>6, <1>8, <2>1 DEF WalkEnds, Exit
  <2>2. CASE ~ dryRun
    <3>1. /\ at = "walk" /\ at' = "signal" /\ queue' = targets /\ ~ dryRun
          /\ UNCHANGED <<alive, targets, rounds, signalled>>
      BY <1>8, <2>2 DEF WalkEnds, procVars
    <3> QED
      BY <1>1, <3>1 DEF SignalInv, Signalled
  <2> QED
    BY <2>1, <2>2
<1>9. CASE SignalsSent
  <2>1. /\ at = "signal" /\ at' = "wait" /\ queue = {}
        /\ UNCHANGED <<alive, targets, rounds, signalled>>
    BY <1>9 DEF SignalsSent, procVars
  <2> QED
    BY <1>1, <1>2, <1>3, <2>1 DEF SignalInv, Signalled
<1>10. CASE Look
  <2>1. /\ at = "wait" /\ queue' = targets \cap alive
        /\ rounds' = IF queue' = {} THEN rounds ELSE rounds + 1
        /\ at' = IF queue' = {} THEN "verify"
                 ELSE IF rounds' = MaxRounds THEN "insist" ELSE "wait"
        /\ UNCHANGED <<alive, targets, signalled>>
    BY <1>10 DEF Look, procVars
  <2>2. rounds < MaxRounds
    BY <2>1 DEF SignalInv
  <2>3. CASE queue' = {}
    BY <1>1, <1>3, <2>1, <2>3 DEF SignalInv, Signalled
  <2>4. CASE queue' # {}
    BY <1>1, <1>2, <1>3, <2>1, <2>2, <2>4 DEF SignalInv, Signalled
  <2> QED
    BY <2>3, <2>4
<1>11. CASE InsistEnds \/ Verify
  <2>1. /\ at \in {"insist", "verify"} /\ at' \in {"verify", "exited"}
        /\ at = "insist" => queue = {} /\ at' = "verify"
        /\ at = "verify" => at' = "exited"
        /\ UNCHANGED <<alive, targets, rounds, signalled>>
    BY <1>11 DEF InsistEnds, Verify, Exit, procVars
  <2> QED
    BY <1>1, <1>2, <1>3, <2>1 DEF SignalInv, Signalled
<1>12. ASSUME NEW p \in Procs, Signal(p) \/ Insist(p) PROVE SignalInv'
  <2>1. /\ at \in {"signal", "insist"} /\ p \in queue /\ queue' = queue \ {p}
        /\ UNCHANGED <<at, alive, targets, rounds>>
    BY <1>12 DEF Signal, Insist, procVars
  <2> DEFINE sent == IF at = "insist" THEN "KILL" ELSE FirstSignal
  <2>2. /\ \A q \in Procs \ {p} : signalled'[q] = signalled[q]
        /\ \A q \in Procs : signalled[q] \subseteq signalled'[q]
        /\ p \in alive => sent \in signalled'[p]
    BY <1>2, <1>12 DEF Signal, Insist, Receive, FirstSignal
  <2>3. p \in targets
    BY <2>1 DEF TargetInv
  <2>4. Signalled' \subseteq Signalled \cup ({p} \cap alive)
    BY <1>12, <2>2 DEF Signal, Insist, Receive, Signalled
  <2>5. Signalled' \subseteq targets /\ (~ all => Signalled' \cap Terminal = {})
    BY <2>3, <2>4 DEF SignalInv, TargetInv, Ours
  <2> HIDE DEF sent
  <2>6. CASE at = "signal"
    <3>1. p \in alive => FirstSignal \in signalled'[p]
      BY <2>2, <2>6 DEF sent
    <3> QED
      BY <1>1, <1>2, <1>3, <2>1, <2>2, <2>5, <2>6, <3>1 DEF SignalInv
  <2>7. CASE at = "insist"
    <3>1. p \in alive => "KILL" \in signalled'[p]
      BY <2>2, <2>7 DEF sent
    <3> QED
      BY <1>1, <1>2, <1>3, <2>1, <2>2, <2>5, <2>7, <3>1 DEF SignalInv
  <2> QED
    BY <2>1, <2>6, <2>7
<1> QED
  BY <1>5, <1>7, <1>8, <1>9, <1>10, <1>11, <1>12 DEF Next, ScriptStep

\* The exit code is true when it is given; afterwards nothing happens.
LEMMA ExitStep ==
  ASSUME TypeOK, TableInv, LineInv, ChoiceInv, TargetInv, SignalInv, ExitInv, [Next]_vars
  PROVE  ExitInv'
<1>1. None \notin {0, 1}
  BY ProcsAssumption
<1>2. UNCHANGED <<all, dryRun, hardKill, wanted>>
  BY OptionsStay DEF options
\* While the script runs there is no exit code.
<1>3. ASSUME at # "exited", at' # "exited", UNCHANGED exitCode PROVE ExitInv'
  BY <1>3 DEF ExitInv
<1>4. CASE UNCHANGED vars
  BY <1>4 DEF vars, procVars, options, choice, ExitInv, ExitCodeIsTrue, Signalled
<1>5. CASE \/ ProcessStep \/ SignalsSent \/ Look \/ InsistEnds
           \/ \E kind \in Kinds : Pgrep(kind)
           \/ \E p \in Procs :
                \/ Protect(p) \/ Choose(p) \/ ChooseEnding(p)
                \/ Walk(p) \/ Signal(p) \/ Insist(p)
  BY <1>3, <1>5 DEF ProcessStep, SignalsSent, Look, InsistEnds, Pgrep, Protect, Choose,
      ChooseEnding, Walk, Signal, Insist
<1>6. CASE NothingWanted
  <2>1. /\ at = "start" /\ wanted = {} /\ at' = "exited"
        /\ UNCHANGED <<alive, protected, listed, targets, signalled>>
    BY <1>6 DEF NothingWanted, Exit, procVars, choice
  <2> QED
    BY <1>2, <2>1 DEF ExitInv, ExitCodeIsTrue, Signalled, ChoiceInv, TargetInv, SignalInv
<1>7. CASE ScanEnds
  <2>1. CASE roots # {}
    BY <1>3, <1>7, <2>1 DEF ScanEnds
  <2>2. CASE roots = {}
    <3>1. /\ at = "scan" /\ candidates = {} /\ at' = "exited" /\ exitCode' = 0
          /\ UNCHANGED <<alive, protected, listed, targets, signalled>>
      BY <1>7, <2>2 DEF ScanEnds, Exit, procVars, choice
    <3>2. Signalled' = {} /\ targets' = {}
      BY <3>1 DEF SignalInv, Signalled, TargetInv
    <3>3. \A p \in (listed \cap Here \cap alive) \ protected : p \in Terminal /\ ~ all
      BY <2>2, <3>1 DEF ChoiceInv
    <3> QED
      BY <1>2, <3>1, <3>2, <3>3 DEF ExitInv, ExitCodeIsTrue
  <2> QED
    BY <2>1, <2>2
<1>8. CASE WalkEnds
  <2>1. CASE ~ dryRun
    BY <1>3, <1>8, <2>1 DEF WalkEnds
  <2>2. CASE dryRun
    <3>1. at = "walk" /\ at' = "exited" /\ exitCode' = 0 /\ UNCHANGED signalled
      BY <1>8, <2>2 DEF WalkEnds, Exit
    <3>2. Signalled' = {}
      BY <3>1 DEF SignalInv, Signalled
    <3> QED
      BY <1>2, <2>2, <3>1, <3>2 DEF ExitInv, ExitCodeIsTrue
  <2> QED
    BY <2>1, <2>2
<1>9. CASE Verify
  <2>1. /\ at = "verify" /\ at' = "exited"
        /\ exitCode' = IF targets \cap alive = {} THEN 0 ELSE 1
        /\ UNCHANGED <<alive, protected, listed, targets, signalled>>
    BY <1>9 DEF Verify, Exit, procVars, choice
  <2>2. ~ dryRun /\ candidates = {} /\ roots \subseteq targets
    BY <2>1 DEF SignalInv, ChoiceInv, TargetInv
  <2>3. targets \cap alive = {} =>
          \A p \in (listed \cap Here \cap alive) \ protected : p \in Terminal /\ ~ all
    BY <2>2 DEF ChoiceInv
  <2>4. targets \cap alive # {} => \E p \in targets : "KILL" \in signalled[p]
    BY <2>1 DEF SignalInv
  <2> QED
    BY <1>2, <2>1, <2>2, <2>3, <2>4 DEF ExitInv, ExitCodeIsTrue
<1> QED
  BY <1>4, <1>5, <1>6, <1>7, <1>8, <1>9 DEF Next, ScriptStep

-----------------------------------------------------------------------------
(* Theorems *)

LEMMA InitInv == Init => IInv
<1> SUFFICES ASSUME Init PROVE IInv
  OBVIOUS
<1> USE ProcsAssumption
<1>1. OptionsOK
  BY DEF Init, OptionsOK
<1>2. /\ \A q \in Procs : parent[q] = IF Creator[q] \in Procs \ alive THEN Launchd
                                      ELSE Creator[q]
      /\ parent \in [Procs -> Procs \cup {Launchd}]
  BY DEF Init, Adopted
<1>3. TypeOK
  <2>1. rounds \in 0..MaxRounds /\ signalled \in [Procs -> SUBSET {"TERM", "KILL"}]
    BY DEF Init
  <2>2. /\ wanted \subseteq Kinds /\ patterns \subseteq wanted /\ exitCode \in {None, 0, 1}
        /\ alive \subseteq born /\ born \subseteq Procs /\ queue \subseteq Procs
    BY DEF Init
  <2> QED
    BY <1>1, <1>2, <2>1, <2>2 DEF Init, TypeOK
<1>4. TableInv
  BY <1>2 DEF Init, TableInv
<1>5. LineInv /\ ChoiceInv /\ TargetInv
  BY DEF Init, LineInv, ChoiceInv, TargetInv
<1>6. SignalInv /\ ExitInv
  BY DEF Init, SignalInv, ExitInv, Signalled
<1> QED
  BY <1>3, <1>4, <1>5, <1>6 DEF IInv

\* What the script has found out and done agrees with the processes at every
\* moment, whatever starts and ends meanwhile (cleanup.sh:58-175).
THEOREM Invariance == Spec => []IInv
<1>1. IInv /\ [Next]_vars => IInv'
  BY TypeStep, TableStep, LineStep, ChoiceStep, TargetStep, SignalStep, ExitStep DEF IInv
<1> QED
  BY InitInv, <1>1, PTL DEF Spec

\* Each variable keeps its type (cleanup.sh:32-36, 58-60, 80-120).
THEOREM TypeCorrectness == Spec => []TypeOK
<1>1. IInv => TypeOK
  BY DEF IInv
<1> QED
  BY <1>1, Invariance, PTL

\* No process is signalled but those of this checkout, never the script nor
\* what started it, and none in a terminal unless --all was given
\* (cleanup.sh:58-72, 87-111, 144-165).
THEOREM StopsOnlyOurs == Spec => []OnlyOursAreStopped
<1>1. IInv => OnlyOursAreStopped
  <2> SUFFICES ASSUME IInv PROVE OnlyOursAreStopped
    OBVIOUS
  <2>1. \A p \in Signalled : Ours(p)
    BY DEF IInv, SignalInv, TargetInv
  <2>2. ~ all => Signalled \cap Terminal = {}
    BY DEF IInv, SignalInv
  \* The way up from the script is a closed set of living processes.
  <2>3. CASE at # "start"
    <3>1. \A r \in protected \cap alive : parent[r] \in (protected \cap alive) \cup {Launchd}
      BY <2>3 DEF IInv, TypeOK, TableInv, LineInv
    <3>2. Script \in protected \cap alive /\ protected \cap alive \in SUBSET Procs
      BY <2>3 DEF IInv, TypeOK, TableInv, LineInv
    <3>3. Line(Script) \subseteq protected
      BY <3>1, <3>2 DEF Line, Upwards
    <3> QED
      BY <2>1, <2>2, <3>3 DEF OnlyOursAreStopped, Ours
  <2>4. CASE at = "start"
    BY <2>4 DEF IInv, SignalInv, OnlyOursAreStopped
  <2> QED
    BY <2>3, <2>4
<1> QED
  BY <1>1, Invariance, PTL

\* The exit code says what has become of what the options asked for, and a dry
\* run signals nothing (cleanup.sh:87-136, 158-175).
THEOREM ExitCodeHolds == Spec => []ExitCodeIsTrue
<1>1. IInv => ExitCodeIsTrue
  <2>1. None \notin {0, 1}
    BY ProcsAssumption
  <2> QED
    BY <2>1 DEF IInv, ExitInv, SignalInv, ExitCodeIsTrue
<1> QED
  BY <1>1, Invariance, PTL

\* SIGKILL comes after SIGTERM and after every look at the targets, unless
\* --kill was given (cleanup.sh:138-165).
THEOREM KillsLast == Spec => KillIsTheLastResort
<1>1. ASSUME IInv, [Next]_vars, NEW p \in Procs, ~ hardKill,
             "KILL" \in signalled'[p] \ signalled[p]
      PROVE  "TERM" \in signalled[p] /\ rounds = MaxRounds
  <2>1. ~ UNCHANGED signalled /\ ~ UNCHANGED vars
    BY <1>1 DEF vars
  <2>2. PICK q \in Procs : Signal(q) \/ Insist(q)
    BY <1>1, <2>1 DEF Next, ProcessStep, ScriptStep, NothingWanted, ScanEnds, WalkEnds,
        SignalsSent, Look, InsistEnds, Verify, Pgrep, Protect, Choose, ChooseEnding, Walk
  <2>3. signalled \in [Procs -> SUBSET {"TERM", "KILL"}]
    BY <1>1 DEF IInv, TypeOK
  <2>4. ~ Signal(q)
    BY <1>1, <2>3 DEF Signal, Receive
  <2>5. Insist(q) /\ p = q /\ q \in alive
    BY <1>1, <2>2, <2>3, <2>4 DEF Insist, Receive
  <2> QED
    BY <1>1, <2>5 DEF Insist, IInv, TargetInv, SignalInv, FirstSignal
<1>2. IInv /\ [Next]_vars
        => [\A p \in Procs :
              ~ hardKill /\ "KILL" \in signalled'[p] \ signalled[p]
                => "TERM" \in signalled[p] /\ rounds = MaxRounds]_vars
  BY <1>1
<1> QED
  BY <1>2, Invariance, PTL DEF Spec, KillIsTheLastResort
=============================================================================
