----------------------------- MODULE MCCleanup -----------------------------
(* The script in a terminal whose shell has worker.py in its command line, a *)
(* worker started there, an API with its reload child, and a worker of       *)
(* another checkout.                                                         *)
EXTENDS Cleanup

CONSTANTS shell, script, terminalWorker, api, child, stranger

MCCreator ==
  [p \in Procs |-> CASE p \in {script, terminalWorker} -> shell
                     [] p = child -> api
                     [] OTHER -> Launchd]

MCCommand ==
  [p \in Procs |-> CASE p = script -> "other"
                     [] p = api -> "api"
                     [] p = child -> "fork"
                     [] OTHER -> "worker"]
=============================================================================
