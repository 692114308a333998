------------------------------ MODULE Cleanup ------------------------------
(***************************************************************************)
(* The clean-up script src/scripts/cleanup.sh against processes that start *)
(* and end while it runs: it looks for the roots, walks their trees, asks  *)
(* each process to end, waits, insists, and looks again.                   *)
(*                                                                         *)
(* A process stands for its pid: pids are not reused while the script      *)
(* runs.  ps prints what it prints on macOS: "??" for no terminal, nothing *)
(* for a process that has ended.  A look at all targets is one step: they  *)
(* do not come back, so that looking at one after the other shows no more. *)
(***************************************************************************)
EXTENDS Integers, FiniteSets

CONSTANTS
  Procs,        \* every process there may be
  Launchd,      \* pid 1, which adopts orphans
  Creator,      \* [Procs -> the process that starts it, or Launchd]
  Script,       \* the script's own process
  Command,      \* [Procs -> "worker", "api", "fork", "server" or "other"],
                \* what pgrep and the case statements make of the command line
  Here,         \* processes whose working directory is this checkout
  Terminal,     \* processes with a controlling terminal
  None,
  MaxRounds     \* looks at the targets before SIGKILL (10 in the code)

Kinds == {"worker", "api"}

ASSUME ProcsAssumption ==
  /\ IsFiniteSet(Procs) /\ Launchd \notin Procs /\ Script \in Procs
  /\ Creator \in [Procs -> Procs \cup {Launchd}]
  /\ Command \in [Procs -> Kinds \cup {"fork", "server", "other"}]
  /\ Here \subseteq Procs /\ Terminal \subseteq Procs
  \* A terminal is inherited; only a terminal's own shell has one by itself.
  /\ \A p \in Terminal : Creator[p] = Launchd \/ Creator[p] \in Terminal
  /\ MaxRounds \in Nat \ {0}
  /\ None \notin Nat

VARIABLES
  born,        \* processes that have been started
  alive,       \* those that have not ended
  parent,      \* [Procs -> parent], Launchd once the creator has ended
  all, dryRun, hardKill, wanted,   \* the options
  at,          \* where the script stands
  protected,   \* the script and its ancestors
  patterns,    \* kinds whose pgrep is still to come
  listed,      \* what pgrep has returned
  candidates,  \* what pgrep returned and has not been looked at
  roots,       \* processes to stop with their descendants
  targets,     \* processes to stop
  queue,       \* processes still to protect, to walk from or to signal
  rounds,      \* looks at the targets so far
  signalled,   \* [Procs -> signals it got while it was alive]
  exitCode

options == <<all, dryRun, hardKill, wanted>>
procVars == <<born, alive, parent>>
choice == <<protected, patterns, listed, candidates, roots>>
vars == <<procVars, options, at, choice, targets, queue, rounds, signalled, exitCode>>

OptionsOK == all \in BOOLEAN /\ dryRun \in BOOLEAN /\ hardKill \in BOOLEAN

TypeOK ==
  /\ alive \subseteq born /\ born \subseteq Procs
  /\ parent \in [Procs -> Procs \cup {Launchd}]
  /\ OptionsOK
  /\ wanted \subseteq Kinds
  /\ at \in {"start", "scan", "walk", "signal", "wait", "insist", "verify", "exited"}
  /\ patterns \subseteq wanted
  /\ protected \subseteq Procs /\ listed \subseteq Procs
  /\ candidates \subseteq listed /\ roots \subseteq listed
  /\ targets \subseteq Procs /\ queue \subseteq Procs
  /\ rounds \in 0..MaxRounds
  /\ signalled \in [Procs -> SUBSET {"TERM", "KILL"}]
  /\ exitCode \in {None, 0, 1}

\* p, its parent in kin, that one's, and so on: what every set with p that is
\* closed under kin has in common.
Upwards(kin, p) ==
  {q \in Procs : \A S \in SUBSET Procs :
     p \in S /\ (\A r \in S : kin[r] \in S \cup {Launchd}) => q \in S}

Line(p) == Upwards(parent, p)

\* pgrep -P: the living children of p.
Children(p) == {q \in alive : parent[q] = p}

\* The processes that a process left without its parent falls to.
Adopted(gone, kin) == [p \in Procs |-> IF kin[p] \in gone THEN Launchd ELSE kin[p]]

\* --worker and --api each drop the other, so both together leave none.
Init ==
  /\ born \in SUBSET Procs /\ Script \in born
  /\ \A p \in born : Creator[p] \in born \cup {Launchd}
  /\ alive \in SUBSET born /\ Script \in alive
  /\ parent = Adopted(Procs \ alive, Creator)
  /\ all \in BOOLEAN /\ dryRun \in BOOLEAN /\ hardKill \in BOOLEAN
  /\ wanted \in SUBSET Kinds
  /\ at = "start"
  /\ protected = {} /\ patterns = wanted /\ listed = {}
  /\ candidates = {} /\ roots = {}
  /\ targets = {} /\ queue = {Script} /\ rounds = 0
  /\ signalled = [p \in Procs |-> {}]
  /\ exitCode = None

-----------------------------------------------------------------------------
(* The processes *)

Starts(p) ==
  /\ p \notin born /\ Creator[p] \in alive \cup {Launchd}
  /\ born' = born \cup {p} /\ alive' = alive \cup {p}
  /\ parent' = [parent EXCEPT ![p] = Creator[p]]

Ends(p) ==
  /\ p \in alive \ {Script}
  /\ alive' = alive \ {p}
  /\ parent' = Adopted({p}, parent)
  /\ UNCHANGED born

-----------------------------------------------------------------------------
(* The script *)

Exit(code) == at' = "exited" /\ exitCode' = code

\* No pattern is left: an empty array is an error in bash before 4.4.
NothingWanted ==
  /\ at = "start" /\ queue = {} /\ wanted = {}
  /\ \E code \in {0, 1} : Exit(code)
  /\ UNCHANGED <<procVars, options, choice, targets, queue, rounds, signalled>>

\* Mistake: the script protects itself and not its ancestors.
ProtectItself(p) ==
  /\ at = "start" /\ p \in queue
  /\ protected' = protected \cup {p}
  /\ queue' = {}
  /\ UNCHANGED <<procVars, options, at, patterns, listed, candidates, roots,
                 targets, rounds, signalled, exitCode>>

\* From the script upwards, one parent at a time; a process that has ended
\* meanwhile has none.
Protect(p) ==
  /\ at = "start" /\ p \in queue
  /\ protected' = protected \cup {p}
  /\ queue' = {q \in alive : p \in Children(q)}
  /\ UNCHANGED <<procVars, options, at, patterns, listed, candidates, roots,
                 targets, rounds, signalled, exitCode>>

\* pgrep -f, for worker.py first.
Pgrep(kind) ==
  /\ \/ at = "start" /\ queue = {}
     \/ at = "scan" /\ candidates = {}
  /\ kind \in patterns /\ (kind = "api" => "worker" \notin patterns)
  /\ patterns' = patterns \ {kind}
  /\ candidates' = {p \in alive : Command[p] = kind} /\ at' = "scan"
  /\ listed' = listed \cup candidates'
  /\ UNCHANGED <<procVars, options, protected, roots, targets, queue, rounds,
                 signalled, exitCode>>

\* Mistake: terminals are not looked at.
ChooseFromTerminals(p) ==
  /\ at = "scan" /\ p \in candidates
  /\ candidates' = candidates \ {p}
  /\ IF p \in (alive \cap Here) \ protected
     THEN roots' = roots \cup {p} ELSE UNCHANGED roots
  /\ UNCHANGED <<procVars, options, at, protected, patterns, listed, targets, queue, rounds,
                 signalled, exitCode>>

\* One candidate is looked at.  A dead one has neither command nor directory.
Choose(p) ==
  /\ at = "scan" /\ p \in candidates
  /\ candidates' = candidates \ {p}
  /\ IF p \in (alive \cap Here) \ protected /\ (all \/ p \notin Terminal)
     THEN roots' = roots \cup {p} ELSE UNCHANGED roots
  /\ UNCHANGED <<procVars, options, at, protected, patterns, listed, targets, queue, rounds,
                 signalled, exitCode>>

\* It ends after its directory was read and before its terminal is, which is
\* then empty: it is chosen, terminal or not.
ChooseEnding(p) ==
  /\ at = "scan" /\ p \in candidates /\ p \in Here \ protected
  /\ Ends(p)
  /\ candidates' = candidates \ {p}
  /\ roots' = roots \cup {p}
  /\ UNCHANGED <<options, at, protected, patterns, listed, targets, queue, rounds,
                 signalled, exitCode>>

ScanEnds ==
  /\ at = "scan" /\ candidates = {} /\ patterns = {}
  /\ IF roots = {} THEN Exit(0) ELSE at' = "walk" /\ UNCHANGED exitCode
  /\ queue' = roots
  /\ UNCHANGED <<procVars, options, choice, targets, rounds, signalled>>

\* One call of descendants: the children are found and then walked.
Walk(p) ==
  /\ at = "walk" /\ p \in queue
  /\ targets' = targets \cup {p}
  /\ queue' = (queue \ {p}) \cup Children(p)
  /\ UNCHANGED <<procVars, options, at, choice, rounds, signalled, exitCode>>

WalkEnds ==
  /\ at = "walk" /\ queue = {}
  /\ IF dryRun THEN Exit(0) /\ UNCHANGED queue
     ELSE at' = "signal" /\ queue' = targets /\ UNCHANGED exitCode
  /\ UNCHANGED <<procVars, options, choice, targets, rounds, signalled>>

\* kill of a process that has ended does nothing.
Receive(p, signal) ==
  signalled' = IF p \in alive
               THEN [signalled EXCEPT ![p] = @ \cup {signal}] ELSE signalled

\* The first signal, in the order of pids, which may be any.
Signal(p) ==
  /\ at = "signal" /\ p \in queue
  /\ Receive(p, IF hardKill THEN "KILL" ELSE "TERM")
  /\ queue' = queue \ {p}
  /\ UNCHANGED <<procVars, options, at, choice, targets, rounds, exitCode>>

SignalsSent ==
  /\ at = "signal" /\ queue = {}
  /\ at' = "wait"
  /\ UNCHANGED <<procVars, options, choice, targets, queue, rounds, signalled, exitCode>>

\* Mistake: the script insists at the first look.
LookOnce ==
  /\ at = "wait"
  /\ queue' = targets \cap alive
  /\ rounds' = IF queue' = {} THEN rounds ELSE rounds + 1
  /\ at' = IF queue' = {} THEN "verify" ELSE "insist"
  /\ UNCHANGED <<procVars, options, choice, targets, signalled, exitCode>>

\* One look at who is still running, every half second.
Look ==
  /\ at = "wait"
  /\ queue' = targets \cap alive
  /\ rounds' = IF queue' = {} THEN rounds ELSE rounds + 1
  /\ at' = IF queue' = {} THEN "verify"
           ELSE IF rounds' = MaxRounds THEN "insist" ELSE "wait"
  /\ UNCHANGED <<procVars, options, choice, targets, signalled, exitCode>>

Insist(p) ==
  /\ at = "insist" /\ p \in queue
  /\ Receive(p, "KILL")
  /\ queue' = queue \ {p}
  /\ UNCHANGED <<procVars, options, at, choice, targets, rounds, exitCode>>

InsistEnds ==
  /\ at = "insist" /\ queue = {}
  /\ at' = "verify"
  /\ UNCHANGED <<procVars, options, choice, targets, queue, rounds, signalled, exitCode>>

\* Mistake: SIGKILL is taken at its word.
TrustKill ==
  /\ at = "verify"
  /\ Exit(0)
  /\ UNCHANGED <<procVars, options, choice, targets, queue, rounds, signalled>>

Verify ==
  /\ at = "verify"
  /\ Exit(IF targets \cap alive = {} THEN 0 ELSE 1)
  /\ UNCHANGED <<procVars, options, choice, targets, queue, rounds, signalled>>

-----------------------------------------------------------------------------
ScriptStep ==
  \/ NothingWanted \/ ScanEnds \/ WalkEnds \/ SignalsSent
  \/ Look \/ InsistEnds \/ Verify
  \/ \E kind \in Kinds : Pgrep(kind)
  \/ \E p \in Procs :
       \/ Protect(p) \/ Choose(p) \/ ChooseEnding(p)
       \/ Walk(p) \/ Signal(p) \/ Insist(p)

\* Processes start and end by themselves while the script runs.
ProcessStep ==
  /\ at # "exited"
  /\ \E p \in Procs : Starts(p) \/ Ends(p)
  /\ UNCHANGED <<options, at, choice, targets, queue, rounds, signalled, exitCode>>

Next == ScriptStep \/ ProcessStep

Spec == Init /\ [][Next]_vars

-----------------------------------------------------------------------------
(* Safety *)

Signalled == {p \in Procs : signalled[p] # {}}

\* Whatever starts and ends meanwhile, no process is signalled unless it or
\* one it descends from is a wanted process of this checkout; the script, its
\* ancestors and the Temporal server never are.  Without --all, what was started
\* from a terminal is left alone, even if it ends while the script is looking at
\* it (cleanup.sh:61-72, 87-111).
OnlyOursAreStopped ==
  /\ Signalled \cap (protected \cup Line(Script)) = {}
  /\ \A p \in Signalled :
       \E q \in Upwards(Creator, p) : q \in Here /\ Command[q] \in wanted
  /\ ~ all => Signalled \cap Terminal = {}

\* Exit code 0 means that none is left of what the options asked for: no
\* target, and no worker or API process of this checkout that was there when
\* pgrep looked, whatever became of its parent, except in a terminal and above
\* the script.  1 means that one was still there after it had been killed.  A
\* dry run signals nothing (cleanup.sh:87-136, 158-175).
ExitCodeIsTrue ==
  /\ exitCode = 0 /\ ~ dryRun =>
       /\ targets \cap alive = {}
       /\ \A p \in (listed \cap Here \cap alive) \ protected : p \in Terminal /\ ~ all
  /\ exitCode = 1 /\ wanted # {} => \E p \in targets : "KILL" \in signalled[p]
  /\ dryRun => Signalled = {}

\* Without --kill a process is killed only after it was asked to end and has
\* been seen running in every round (cleanup.sh:138-165).
KillIsTheLastResort ==
  [][\A p \in Procs :
       ~ hardKill /\ "KILL" \in signalled'[p] \ signalled[p]
         => "TERM" \in signalled[p] /\ rounds = MaxRounds]_vars
=============================================================================
