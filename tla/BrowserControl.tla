---------------------------- MODULE BrowserControl ---------------------------
(***************************************************************************)
(* The browser control orchestrator                                        *)
(* (src/scripts/browser-control-orchestrator.mjs): a parent process that   *)
(* spawns a supervisor, runs control commands and then the SDK's browser   *)
(* runner one after the other, runs every cleanup command whatever         *)
(* happened, and reports.  A command that outlives its timeout is sent     *)
(* SIGTERM and then SIGKILL, with a timeout each.                          *)
(*                                                                         *)
(* External: the children, which close when they like, or never, and the   *)
(* supervisor's state file.                                                *)
(***************************************************************************)
EXTENDS Integers

CONSTANTS
    Controls,   \* number of control commands
    Cleanups    \* number of cleanup commands

ASSUME ControlAssumption ==
    /\ Controls \in Nat
    /\ Cleanups \in Nat \ {0}   \* normalizeConfig refuses an empty list

VARIABLES
    phase,          \* where runOwnedBrowserControl is
    withRunner,     \* config.runner is not null
    current,        \* the child that is awaited
    child,          \* child[c]: not spawned, alive, or how it closed
    forced,         \* forced[c]: the last of its forcedSignals
    failure,        \* primaryFailure is set
    cleanupFailed,  \* cleanupFailures is not empty
    result,         \* the status that is returned
    receipt         \* the status in the receipt file, if there is one

controlVars == <<phase, withRunner, current, child, forced, failure,
                 cleanupFailed, result, receipt>>

-----------------------------------------------------------------------------
(* The children in the order of their sequence numbers.                    *)
Supervisor   == 0
Runner       == Controls + 1
FirstCleanup == Controls + 2
LastChild    == Controls + 1 + Cleanups
Children     == Supervisor .. LastChild
CleanupCommands == FirstCleanup .. LastChild

Closed   == {"zero", "other"}   \* "other": a code, a signal or a spawn error
Statuses == {"none", "passed", "failed"}

ControlTypeOK ==
    /\ phase \in {"start", "ready", "commands", "cleanup", "supervisor", "report",
                  "returned", "threw"}
    /\ current \in Children
    /\ child \in [Children -> {"none", "alive"} \cup Closed]
    /\ forced \in [Children -> {"none", "SIGTERM", "SIGKILL"}]
    /\ withRunner \in BOOLEAN
    /\ failure \in BOOLEAN
    /\ cleanupFailed \in BOOLEAN
    /\ result \in Statuses
    /\ receipt \in Statuses

ControlInit ==
    /\ phase = "start"
    /\ withRunner \in BOOLEAN
    /\ current = Supervisor
    /\ child = [c \in Children |-> "none"]
    /\ forced = [c \in Children |-> "none"]
    /\ failure = FALSE
    /\ cleanupFailed = FALSE
    /\ result = "none"
    /\ receipt = "none"

-----------------------------------------------------------------------------
(* spawnTracked, awaited by runCommand; the first cleanup command ends the *)
(* forward phases.                                                         *)
Launch(c) ==
    /\ child' = [child EXCEPT ![c] = "alive"]
    /\ current' = c
    /\ phase' = IF c < FirstCleanup THEN "commands" ELSE "cleanup"

(* The command behind c: the controls, then the runner if there is one.    *)
Follows(c) == IF c + 1 = Runner /\ ~withRunner THEN FirstCleanup ELSE c + 1

(* Behind the last cleanup command the supervisor should close.            *)
AfterCleanup(c) ==
    \/ c < LastChild /\ Launch(c + 1)
    \/ /\ c = LastChild
       /\ phase' = "supervisor"
       /\ current' = Supervisor
       /\ UNCHANGED child

(* recordSucceeded: a timeout leaves its error in the record, and the      *)
(* output may not be persisted.                                            *)
MaySucceed(c) == child[c] = "zero" /\ forced[c] = "none"
Outcomes(c)   == IF MaySucceed(c) THEN BOOLEAN ELSE {FALSE}

-----------------------------------------------------------------------------
(* The configuration, the receipt path and the capture directory are       *)
(* checked, then the preflight mutates the control root, then the          *)
(* supervisor is spawned.                                                  *)
Prepare ==
    /\ phase = "start"
    /\ \/ phase' = "report" /\ failure' = TRUE /\ UNCHANGED child
       \/ /\ phase' = "ready"
          /\ child' = [child EXCEPT ![Supervisor] = "alive"]
          /\ UNCHANGED failure
    /\ UNCHANGED <<withRunner, current, forced, cleanupFailed, result, receipt>>

(* waitForReady finds the state file: the first command is spawned.        *)
SupervisorReady ==
    /\ phase = "ready"
    /\ Launch(Follows(Supervisor))
    /\ UNCHANGED <<withRunner, forced, failure, cleanupFailed, result, receipt>>

(* The supervisor closed first, or its deadline has passed.                *)
SupervisorNotReady ==
    /\ phase = "ready"
    /\ failure' = TRUE
    /\ Launch(FirstCleanup)
    /\ UNCHANGED <<withRunner, forced, cleanupFailed, result, receipt>>

(* A control or the runner has closed.  A failure skips what is left.      *)
CommandEnds ==
    /\ phase = "commands"
    /\ child[current] \in Closed
    /\ \E ok \in Outcomes(current) :
          /\ failure' = ~ok
          /\ Launch(IF ok THEN Follows(current) ELSE FirstCleanup)
    /\ UNCHANGED <<withRunner, forced, cleanupFailed, result, receipt>>

(* The first cleanup command that fails is the last one attempted.         *)
BadCleanupEnds ==
    /\ phase = "cleanup"
    /\ child[current] \in Closed
    /\ \E ok \in Outcomes(current) :
          /\ cleanupFailed' = (cleanupFailed \/ ~ok)
          /\ AfterCleanup(IF ok THEN current ELSE LastChild)
    /\ UNCHANGED <<withRunner, forced, failure, result, receipt>>

(* A cleanup command has closed; the next one is attempted in any case.    *)
CleanupEnds ==
    /\ phase = "cleanup"
    /\ child[current] \in Closed
    /\ \E ok \in Outcomes(current) : cleanupFailed' = (cleanupFailed \/ ~ok)
    /\ AfterCleanup(current)
    /\ UNCHANGED <<withRunner, forced, failure, result, receipt>>

(* The exit of a supervisor that had to be stopped is not looked at.       *)
BadSupervisorEnds ==
    /\ phase = "supervisor"
    /\ child[Supervisor] \in Closed
    /\ \E ok \in Outcomes(Supervisor) :
          cleanupFailed' = (cleanupFailed \/ (forced[Supervisor] = "none" /\ ~ok))
    /\ phase' = "report"
    /\ UNCHANGED <<withRunner, current, child, forced, failure, result, receipt>>

(* The supervisor has closed; a forced stop of it is a failure.            *)
SupervisorEnds ==
    /\ phase = "supervisor"
    /\ child[Supervisor] \in Closed
    /\ \E ok \in Outcomes(Supervisor) : cleanupFailed' = (cleanupFailed \/ ~ok)
    /\ phase' = "report"
    /\ UNCHANGED <<withRunner, current, child, forced, failure, result, receipt>>

-----------------------------------------------------------------------------
(* The awaited child is alive when its timer runs out.                     *)
Overdue(signal) ==
    /\ phase \in {"commands", "cleanup", "supervisor"}
    /\ forced[current] = signal
    /\ child[current] = "alive"

ForceStop(signal) ==
    /\ forced' = [forced EXCEPT ![current] = signal]
    /\ UNCHANGED <<phase, withRunner, current, child, failure, cleanupFailed, result,
                   receipt>>

(* A command that is stopped is not awaited.                               *)
BadCloseTimesOut ==
    \/ Overdue("none") /\ phase # "commands" /\ ForceStop("SIGTERM")
    \/ /\ Overdue("none") /\ phase = "commands"
       /\ forced' = [forced EXCEPT ![current] = "SIGTERM"]
       /\ failure' = TRUE
       /\ Launch(FirstCleanup)
       /\ UNCHANGED <<withRunner, cleanupFailed, result, receipt>>

(* waitForClose runs out, and stopTracked begins.                          *)
CloseTimesOut == Overdue("none") /\ ForceStop("SIGTERM")

(* There is no second attempt.                                             *)
BadTermTimesOut == Overdue("SIGTERM") /\ current # Supervisor /\ ForceStop("SIGKILL")

TermTimesOut == Overdue("SIGTERM") /\ ForceStop("SIGKILL")

(* stopTracked throws.  The commands report it and go on without a child   *)
(* that is still alive; for the supervisor nobody catches it.              *)
KillTimesOut ==
    /\ Overdue("SIGKILL")
    /\ \/ /\ phase = "commands"
          /\ failure' = TRUE
          /\ Launch(FirstCleanup)
          /\ UNCHANGED cleanupFailed
       \/ /\ phase = "cleanup"
          /\ cleanupFailed' = TRUE
          /\ AfterCleanup(current)
          /\ UNCHANGED failure
       \/ /\ phase = "supervisor"
          /\ phase' = "threw"
          /\ UNCHANGED <<current, child, failure, cleanupFailed>>
    /\ UNCHANGED <<withRunner, forced, result, receipt>>

(* The result, and the receipt: there may be no path for it, it may not be *)
(* written, or be written and keep a mode it should not have.              *)
ReportResult ==
    /\ phase = "report"
    /\ phase' = "returned"
    /\ LET status == IF failure \/ cleanupFailed THEN "failed" ELSE "passed"
       IN \/ result' = status /\ receipt' \in {"none", status}
          \/ result' = "failed" /\ receipt' \in {"none", status}
    /\ UNCHANGED <<withRunner, current, child, forced, failure, cleanupFailed>>

-----------------------------------------------------------------------------
(* A child closes; it may not have started at all.                         *)
ChildCloses(c, how) ==
    /\ child[c] = "alive"
    /\ child' = [child EXCEPT ![c] = how]
    /\ UNCHANGED <<phase, withRunner, current, forced, failure, cleanupFailed, result,
                   receipt>>

OrchestratorStep ==
    \/ Prepare \/ SupervisorReady \/ SupervisorNotReady
    \/ CommandEnds \/ CleanupEnds \/ SupervisorEnds
    \/ CloseTimesOut \/ TermTimesOut \/ KillTimesOut \/ ReportResult

-----------------------------------------------------------------------------
Orchestrated == phase \in {"returned", "threw"}

(* macos-browser-supervisor-orchestration-source-package (2026-09-12):     *)
(* every configured cleanup command runs after success or failure, even    *)
(* if a command, a cleanup or the supervisor outlives SIGKILL              *)
(* (browser-control-orchestrator.mjs:481-518).                             *)
CleanupIsAttempted ==
    Orchestrated /\ child[Supervisor] # "none" =>
        \A c \in CleanupCommands : child[c] # "none"

(* Commands run one at a time: while one is under way no other is left     *)
(* from before, unless it survived SIGKILL                                 *)
(* (browser-control-orchestrator.mjs:377-388).                             *)
OneCommandAtATime ==
    \A c, d \in Children \ {Supervisor} :
        c < d /\ child[c] = "alive" /\ child[d] = "alive" => forced[c] = "SIGKILL"

(* Children that never close do not hold the orchestration: under its own  *)
(* timers it returns or throws (browser-control-orchestrator.mjs:251-279). *)
OrchestrationEnds == <>Orchestrated
=============================================================================
