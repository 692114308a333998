\* Every kind of process and relation; two looks at the targets.
SPECIFICATION Spec
CONSTANTS
  shell = shell
  script = script
  terminalWorker = terminalWorker
  api = api
  child = child
  stranger = stranger
  Launchd = Launchd
  None = None
  Script = script
  Procs = {shell, script, terminalWorker, api, child, stranger}
  Creator <- MCCreator
  Command <- MCCommand
  Here = {shell, script, terminalWorker, api, child}
  Terminal = {shell, script, terminalWorker}
  MaxRounds = 2
INVARIANTS
  OnlyOursAreStopped
  ExitCodeIsTrue
PROPERTIES
  KillIsTheLastResort
CHECK_DEADLOCK FALSE
