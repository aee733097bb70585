------------------------ MODULE BrowserAcceptanceProofs -----------------------
(***************************************************************************)
(* Proofs about BrowserAcceptance, for any number of control and cleanup   *)
(* commands.  The invariant has a part for the orchestrator, a part for    *)
(* the runner, and one that ties them together.                            *)
(***************************************************************************)
EXTENDS BrowserAcceptance, TLAPS

-----------------------------------------------------------------------------
(* The orchestrator.                                                       *)
ControlFlags ==
    /\ withRunner \in BOOLEAN
    /\ failure \in BOOLEAN
    /\ cleanupFailed \in BOOLEAN

ControlData ==
    /\ phase \in {"start", "ready", "commands", "cleanup", "supervisor", "report",
                  "returned", "threw"}
    /\ current \in Children
    /\ child \in [Children -> {"none", "alive"} \cup Closed]
    /\ forced \in [Children -> {"none", "SIGTERM", "SIGKILL"}]
    /\ result \in Statuses
    /\ receipt \in Statuses

Succeeded(c) == child[c] = "zero" /\ forced[c] = "none"

(* Children are begun in their order, and left only closed or killed.      *)
Sequence ==
    /\ phase = "start" => child[Supervisor] = "none"
    /\ phase \in {"start", "ready"} =>
          /\ current = Supervisor
          /\ \A c \in Children \ {Supervisor} : child[c] = "none"
    /\ phase = "commands" => current \in 1 .. Runner
    /\ phase = "cleanup" => current \in CleanupCommands
    /\ phase \in {"commands", "cleanup"} =>
          \A c \in Children : c > current => child[c] = "none"
    /\ phase \in {"supervisor", "report", "returned", "threw"} => current = Supervisor
    /\ \A c \in Children : child[c] = "none" => forced[c] = "none"
    /\ \A c \in Children \ {Supervisor} :
          child[c] = "alive" /\ c # current => forced[c] = "SIGKILL"

(* No cleanup command is left out.                                         *)
Attempted ==
    /\ phase = "cleanup" =>
          \A c \in CleanupCommands : c <= current => child[c] # "none"
    /\ \/ phase = "supervisor"
       \/ phase \in {"report", "returned", "threw"} /\ child[Supervisor] # "none"
       =>
          \A c \in CleanupCommands : child[c] # "none"

(* As long as nothing has failed, all that is over has succeeded.          *)
Forwarded(c) == c \in 1 .. Controls \/ (c = Runner /\ withRunner)

Successes ==
    /\ phase \in {"start", "ready", "commands"} => ~failure /\ ~cleanupFailed
    /\ phase = "commands" =>
          \A c \in Children : Forwarded(c) /\ c < current => Succeeded(c)
    /\ phase \in {"cleanup", "supervisor", "report"} /\ ~failure =>
          \A c \in Children : Forwarded(c) => Succeeded(c)
    /\ phase = "cleanup" /\ ~cleanupFailed =>
          \A c \in CleanupCommands : c < current => Succeeded(c)
    /\ phase \in {"supervisor", "report"} /\ ~cleanupFailed =>
          \A c \in CleanupCommands : failure \/ Succeeded(c)
    /\ phase = "report" /\ ~failure /\ ~cleanupFailed => Succeeded(Supervisor)
    /\ phase # "returned" => result = "none" /\ receipt = "none"
    /\ "passed" \in {result, receipt} =>
          \A c \in Children : Forwarded(c) \/ c \in CleanupCommands \cup {Supervisor} =>
             Succeeded(c)

ControlInv == ControlFlags /\ ControlData /\ Sequence /\ Attempted /\ Successes

-----------------------------------------------------------------------------
(* The runner.                                                             *)
TrustFlags ==
    /\ verified \in BOOLEAN
    /\ runFailed \in BOOLEAN
    /\ cleanupErred \in BOOLEAN
    /\ importStarted \in BOOLEAN
    /\ cert \in BOOLEAN
    /\ absentSeen \in BOOLEAN
    /\ runnerReceipt \in BOOLEAN

TrustData ==
    /\ at \in {"unstarted", "setup", "releaseTrusted", "releaseUntrusted",
               "cleanupTrusted", "remove", "verify", "resources", "dropTrusted",
               "dropUntrusted", "server", "report"} \cup Forward \cup Ended
    /\ control \subseteq Browsers
    /\ browser \in [Browsers -> {"none", "opening", "open", "closing", "closed"}]
    /\ tracked \subseteq Browsers
    /\ visited \subseteq Browsers
    /\ helper \in {"none", "listening", "closed"}
    /\ hook \in [Hooks -> {"idle", "running", "acted", "gone"}]

AfterUndo == {"resources", "dropTrusted", "dropUntrusted", "report"}
Undoing   == {"cleanupTrusted", "remove", "verify"}

(* While the runner lives a hook works in its own step only.               *)
HookOrder ==
    /\ \A h \in Hooks : hook[h] \in {"running", "acted"} /\ at \notin Ended => at = h
    /\ at \in {"unstarted", "setup"} => \A h \in Hooks : hook[h] = "idle"
    /\ at = "verify" => hook["remove"] = "gone"
    /\ at \in AfterUndo /\ importStarted =>
          hook["remove"] = "gone" /\ hook["verify"] = "gone"
    /\ at \in {"unstarted", "setup"} \cup Ended => ~importStarted

(* What the verification has seen is still so.                             *)
Verification ==
    /\ verified => ~cert /\ at \in AfterUndo
    /\ at = "verify" /\ absentSeen => ~cert
    /\ at \in {"unstarted", "setup", "releaseTrusted", "releaseUntrusted",
              "cleanupTrusted", "remove"} \cup Forward =>
          ~absentSeen

(* The course of a sequence in which nothing has failed.                   *)
Untroubled == ~runFailed /\ ~cleanupErred /\ at \notin Ended

PastUntrusted == {"import", "openTrusted", "observeTrusted", "witness", "releaseTrusted"}
                    \cup Undoing \cup AfterUndo
PastTrusted   == Undoing \cup AfterUndo

Course ==
    Untroubled =>
        /\ at # "releaseUntrusted"
        /\ at \in {"unstarted", "setup", "openUntrusted"} => control = {}
        /\ at \in {"observeUntrusted", "closeUntrusted"} => control = {"untrusted"}
        /\ at \in {"import", "openTrusted"} => control = {}
        /\ at \in {"observeTrusted", "witness", "releaseTrusted"} => control = {"trusted"}
        /\ at \in PastUntrusted => browser["untrusted"] = "closed" /\ importStarted
        /\ at \in PastUntrusted \ {"import"} => hook["import"] = "gone"
        /\ at \in PastTrusted => browser["trusted"] = "closed"
        /\ at \in PastTrusted \ {"cleanupTrusted"} => hook["cleanupTrusted"] = "gone"
        /\ at \in AfterUndo => verified
        /\ at \notin {"unstarted", "setup", "report"} => helper = "listening"
        /\ at = "report" => helper = "closed"

(* A receipt outlives the process, and so does what it says.               *)
AfterPassed ==
    /\ at = "passed" => runnerReceipt /\ ~cert /\ \A h \in Hooks : hook[h] = "idle"
    /\ at # "passed" => ~runnerReceipt

TrustInv ==
    TrustFlags /\ TrustData /\ HookOrder /\ Verification /\ Course /\ AfterPassed

-----------------------------------------------------------------------------
(* The two are tied by the runner's process.                               *)
Tied ==
    /\ child[Runner] = "none" <=> at = "unstarted"
    /\ child[Runner] = "zero" => at = "passed"

IInv == ControlInv /\ TrustInv /\ Tied

-----------------------------------------------------------------------------
(* Steps of the orchestrator.                                              *)
LEMMA ControlInitInv == ControlInit => ControlInv
<1> SUFFICES ASSUME ControlInit PROVE ControlInv
  OBVIOUS
<1> USE ControlAssumption
    DEF ControlInit, Children, Supervisor, LastChild, CleanupCommands, FirstCleanup,
        Runner, Statuses, Closed
<1>1. ControlFlags
  BY DEF ControlFlags
<1>2. ControlData
  BY DEF ControlData
<1>3. Sequence
  BY DEF Sequence
<1>4. Attempted
  BY DEF Attempted
<1>5. Successes
  BY DEF Successes
<1> QED
  BY <1>1, <1>2, <1>3, <1>4, <1>5 DEF ControlInv

LEMMA ControlStepInv == ControlInv /\ OrchestratorStep => ControlInv'
<1> SUFFICES ASSUME ControlInv, OrchestratorStep PROVE ControlInv'
  OBVIOUS
<1> USE ControlAssumption
    DEF ControlInv, Children, Supervisor, LastChild, CleanupCommands, FirstCleanup,
        Runner, Statuses, Closed
<1>1. CASE Prepare
  <2> USE <1>1 DEF Prepare
  <2>1. ControlFlags'
    BY DEF ControlFlags
  <2>2. ControlData'
    BY DEF ControlData
  <2>3. Sequence'
    BY DEF Sequence, ControlData
  <2>4. Attempted'
    BY DEF Attempted, ControlData, Sequence
  <2>5. Successes'
    BY DEF Successes, Succeeded, Forwarded, ControlData, Sequence
  <2> QED
    BY <2>1, <2>2, <2>3, <2>4, <2>5
<1>2. CASE SupervisorReady
  <2> USE <1>2 DEF SupervisorReady, Launch, Follows
  <2>1. ControlFlags'
    BY DEF ControlFlags
  <2>2. ControlData'
    BY DEF ControlData
  <2>3. Sequence'
    BY DEF Sequence, ControlData
  <2>4. Attempted'
    BY DEF Attempted, ControlData, Sequence
  <2>5. Successes'
    BY DEF Successes, Succeeded, Forwarded, ControlData, Sequence
  <2> QED
    BY <2>1, <2>2, <2>3, <2>4, <2>5
<1>3. CASE SupervisorNotReady
  <2> USE <1>3 DEF SupervisorNotReady, Launch
  <2>1. ControlFlags'
    BY DEF ControlFlags
  <2>2. ControlData'
    BY DEF ControlData
  <2>3. Sequence'
    BY DEF Sequence, ControlData
  <2>4. Attempted'
    BY DEF Attempted, ControlData, Sequence
  <2>5. Successes'
    BY DEF Successes, Succeeded, Forwarded, ControlData, Sequence
  <2> QED
    BY <2>1, <2>2, <2>3, <2>4, <2>5
<1>4. CASE CommandEnds
  <2>1. PICK ok \in Outcomes(current) :
           failure' = ~ok /\ Launch(IF ok THEN Follows(current) ELSE FirstCleanup)
    BY <1>4 DEF CommandEnds
  <2>2. ok \in BOOLEAN /\ (ok => Succeeded(current))
    BY DEF Outcomes, MaySucceed, Succeeded
  <2> USE <1>4, <2>1, <2>2 DEF CommandEnds, Launch, Follows
  <2>3. ControlFlags'
    BY DEF ControlFlags
  <2>4. ControlData'
    <3>1. current \in 1 .. Runner
      BY DEF Sequence
    <3> QED
      BY <3>1 DEF ControlData
  <2>5. Sequence'
    BY DEF Sequence, ControlData
  <2>6. Attempted'
    BY DEF Attempted, ControlData, Sequence
  <2>7. (ok => ~failure') /\ (~ok => failure')
    BY ONLY <2>1, <2>2, Zenon
  <2>8. /\ phase = "commands" /\ current \in 1 .. Runner
        /\ \A c \in Children : c <= current => (Succeeded(c)' <=> Succeeded(c))
    BY DEF Sequence, Succeeded, ControlData
  <2>9. ok => \A c \in Children : Forwarded(c)' /\ c < current' => Succeeded(c)'
    <3> SUFFICES ASSUME ok, NEW c \in Children, Forwarded(c)', c < current'
                 PROVE  Succeeded(c)'
      OBVIOUS
    <3>1. c <= current
      BY <2>8 DEF Forwarded
    <3> QED
      BY <2>8, <3>1 DEF Successes, Forwarded
  <2>10. Successes'
    <3>1. CASE phase' = "commands"
      BY <2>7, <2>8, <2>9, <3>1 DEF Successes
    <3>2. CASE phase' = "cleanup"
      BY <2>7, <2>8, <2>9, <3>2 DEF Successes, Forwarded
    <3> QED
      BY <3>1, <3>2
  <2> QED
    BY <2>3, <2>4, <2>5, <2>6, <2>10
<1>5. CASE CleanupEnds
  <2>1. PICK ok \in Outcomes(current) : cleanupFailed' = (cleanupFailed \/ ~ok)
    BY <1>5 DEF CleanupEnds
  <2>2. ok \in BOOLEAN /\ (ok => Succeeded(current))
    BY DEF Outcomes, MaySucceed, Succeeded
  <2> USE <1>5, <2>1, <2>2 DEF CleanupEnds, AfterCleanup, Launch
  <2>3. ControlFlags'
    BY DEF ControlFlags
  <2>4. ControlData'
    BY DEF ControlData
  <2>5. Sequence'
    BY DEF Sequence, ControlData
  <2>6. Attempted'
    BY DEF Attempted, ControlData, Sequence
  <2>7. (ok => (cleanupFailed' <=> cleanupFailed)) /\ (~ok => cleanupFailed')
    BY ONLY <2>1, <2>2, Zenon
  <2>8. /\ phase = "cleanup" /\ current \in CleanupCommands
        /\ \A c \in Children : c <= current => (Succeeded(c)' <=> Succeeded(c))
    BY DEF Sequence, Succeeded, ControlData
  <2>9. ~cleanupFailed' =>
           \A c \in CleanupCommands : c <= current => Succeeded(c)'
    BY <2>7, <2>8 DEF Successes
  <2>10. ~failure => \A c \in Children : Forwarded(c) => Succeeded(c)'
    BY <2>8 DEF Successes, Forwarded
  <2>11. Successes'
    <3>1. CASE phase' = "cleanup"
      BY <2>8, <2>9, <2>10, <3>1 DEF Successes, Forwarded
    <3>2. CASE phase' = "supervisor"
      <4>1. current = LastChild /\ \A c \in CleanupCommands : c <= current
        BY <2>8, <3>2
      <4>2. ~cleanupFailed' => \A c \in CleanupCommands : Succeeded(c)'
        BY <2>9, <4>1
      <4> QED
        BY <2>8, <2>10, <3>2, <4>2 DEF Successes, Forwarded
    <3>3. phase' \in {"cleanup", "supervisor"}
      BY <2>8
    <3> QED
      BY <3>1, <3>2, <3>3
  <2> QED
    BY <2>3, <2>4, <2>5, <2>6, <2>11
<1>6. CASE SupervisorEnds
  <2>1. PICK ok \in Outcomes(Supervisor) : cleanupFailed' = (cleanupFailed \/ ~ok)
    BY <1>6 DEF SupervisorEnds
  <2>2. ok \in BOOLEAN /\ (ok => Succeeded(Supervisor))
    BY DEF Outcomes, MaySucceed, Succeeded
  <2> USE <1>6, <2>1, <2>2 DEF SupervisorEnds
  <2>3. ControlFlags'
    BY DEF ControlFlags
  <2>4. ControlData'
    BY DEF ControlData
  <2>5. Sequence'
    BY DEF Sequence, ControlData
  <2>6. Attempted'
    BY DEF Attempted, ControlData, Sequence
  <2>7. Successes'
    BY DEF Successes, Succeeded, Forwarded, ControlData, Sequence
  <2> QED
    BY <2>3, <2>4, <2>5, <2>6, <2>7
<1>7. ASSUME NEW before \in {"none", "SIGTERM"}, NEW signal \in {"SIGTERM", "SIGKILL"},
             Overdue(before), ForceStop(signal)
      PROVE  ControlInv'
  <2> USE <1>7 DEF Overdue, ForceStop
  <2>1. ControlFlags'
    BY DEF ControlFlags
  <2>2. ControlData'
    BY DEF ControlData
  <2>3. Sequence'
    BY DEF Sequence, ControlData
  <2>4. Attempted'
    BY DEF Attempted, ControlData, Sequence
  <2>5. Successes'
    BY DEF Successes, Succeeded, Forwarded, ControlData, Sequence
  <2> QED
    BY <2>1, <2>2, <2>3, <2>4, <2>5
<1>8. CASE KillTimesOut
  <2> USE <1>8 DEF KillTimesOut, Overdue, Launch, AfterCleanup
  <2>1. ControlFlags'
    BY DEF ControlFlags
  <2>2. ControlData'
    BY DEF ControlData
  <2>3. Sequence'
    BY DEF Sequence, ControlData
  <2>4. Attempted'
    BY DEF Attempted, ControlData, Sequence
  <2>5. Successes'
    BY DEF Successes, Succeeded, Forwarded, ControlData, Sequence
  <2> QED
    BY <2>1, <2>2, <2>3, <2>4, <2>5
<1>9. CASE ReportResult
  <2> USE <1>9 DEF ReportResult
  <2>1. ControlFlags'
    BY DEF ControlFlags
  <2>2. ControlData'
    BY DEF ControlData
  <2>3. Sequence'
    BY DEF Sequence, ControlData
  <2>4. Attempted'
    BY DEF Attempted, ControlData, Sequence
  <2>5. Successes'
    BY DEF Successes, Succeeded, Forwarded, ControlData, Sequence
  <2> QED
    BY <2>1, <2>2, <2>3, <2>4, <2>5
<1> QED
  BY <1>1, <1>2, <1>3, <1>4, <1>5, <1>6, <1>7, <1>8, <1>9
     DEF OrchestratorStep, CloseTimesOut, TermTimesOut

LEMMA ChildClosesInv ==
    ASSUME ControlInv, NEW c \in Children, NEW how \in Closed, ChildCloses(c, how)
    PROVE  ControlInv'
<1> USE ControlAssumption DEF ControlInv, ChildCloses, Closed
<1>1. ControlFlags'
  BY DEF ControlFlags
<1>2. ControlData'
  BY DEF ControlData
<1>3. Sequence'
  BY DEF Sequence, ControlData
<1>4. Attempted'
  BY DEF Attempted, ControlData
<1>5. Successes'
  BY DEF Successes, Succeeded, Forwarded, ControlData
<1> QED
  BY <1>1, <1>2, <1>3, <1>4, <1>5

LEMMA ControlRests == ControlInv /\ UNCHANGED controlVars => ControlInv'
<1> SUFFICES ASSUME ControlInv, UNCHANGED controlVars PROVE ControlInv'
  OBVIOUS
<1> USE DEF controlVars, ControlInv
<1>1. ControlFlags'
  BY DEF ControlFlags
<1>2. ControlData'
  BY DEF ControlData
<1>3. Sequence'
  BY DEF Sequence
<1>4. Attempted'
  BY DEF Attempted
<1>5. Successes'
  BY DEF Successes, Succeeded, Forwarded
<1> QED
  BY <1>1, <1>2, <1>3, <1>4, <1>5

-----------------------------------------------------------------------------
(* Steps of the runner, its browsers and hooks.                            *)
LEMMA TrustInitInv == TrustInit => TrustInv
<1> SUFFICES ASSUME TrustInit PROVE TrustInv
  OBVIOUS
<1> USE DEF TrustInit
<1>1. TrustFlags
  BY DEF TrustFlags
<1>2. TrustData
  BY DEF TrustData, Browsers, Hooks
<1>3. HookOrder
  BY DEF HookOrder, Hooks, AfterUndo
<1>4. Verification
  BY DEF Verification
<1>5. Course /\ AfterPassed
  BY DEF Course, AfterPassed, Untroubled, Forward, PastUntrusted, PastTrusted,
     Undoing, AfterUndo
<1> QED
  BY <1>1, <1>2, <1>3, <1>4, <1>5 DEF TrustInv

LEMMA TrustStepInv ==
    TrustInv /\ (Start \/ RunnerStep \/ OutsideStep \/ RunnerDies) => TrustInv'
<1> SUFFICES ASSUME TrustInv, Start \/ RunnerStep \/ OutsideStep \/ RunnerDies
             PROVE  TrustInv'
  OBVIOUS
<1> USE DEF TrustInv, Browsers, Hooks, Forward, Ended, AfterUndo, Undoing,
        PastUntrusted, PastTrusted, Untroubled
<1>1. CASE Start
  <2> USE <1>1 DEF Start
  <2>1. TrustFlags'
    BY DEF TrustFlags
  <2>2. TrustData'
    BY DEF TrustData
  <2>3. HookOrder'
    BY DEF HookOrder, TrustData
  <2>4. Verification'
    BY DEF Verification, HookOrder, TrustData
  <2>5. Course'
    BY DEF Course, HookOrder, TrustData
  <2>6. AfterPassed'
    BY DEF AfterPassed, HookOrder, Verification, Course, TrustData
  <2> QED
    BY <2>1, <2>2, <2>3, <2>4, <2>5, <2>6
<1>2. CASE Setup
  <2> USE <1>2 DEF Setup, Enter
  <2>1. TrustFlags'
    BY DEF TrustFlags
  <2>2. TrustData'
    BY DEF TrustData
  <2>3. HookOrder'
    BY DEF HookOrder, TrustData
  <2>4. Verification'
    BY DEF Verification, HookOrder, TrustData
  <2>5. Course'
    BY DEF Course, HookOrder, TrustData
  <2>6. AfterPassed'
    BY DEF AfterPassed, HookOrder, Verification, Course, TrustData
  <2> QED
    BY <2>1, <2>2, <2>3, <2>4, <2>5, <2>6
<1>3. CASE StepFails
  <2> USE <1>3 DEF StepFails, Fails, EnterRelease, Enter, CloseCalled,
                   UndoStart
  <2>1. TrustFlags'
    BY DEF TrustFlags
  <2>2. TrustData'
    BY DEF TrustData
  <2>3. HookOrder'
    BY DEF HookOrder, TrustData
  <2>4. Verification'
    BY DEF Verification, HookOrder, TrustData
  <2>5. Course'
    BY DEF Course, HookOrder, TrustData
  <2>6. AfterPassed'
    BY DEF AfterPassed, HookOrder, Verification, Course, TrustData
  <2> QED
    BY <2>1, <2>2, <2>3, <2>4, <2>5, <2>6
<1>4. CASE UntrustedRefused
  <2> USE <1>4 DEF UntrustedRefused, Enter, CloseCalled
  <2>1. TrustFlags'
    BY DEF TrustFlags
  <2>2. TrustData'
    BY DEF TrustData
  <2>3. HookOrder'
    BY DEF HookOrder, TrustData
  <2>4. Verification'
    BY DEF Verification, HookOrder, TrustData
  <2>5. Course'
    BY DEF Course, HookOrder, TrustData
  <2>6. AfterPassed'
    BY DEF AfterPassed, HookOrder, Verification, Course, TrustData
  <2> QED
    BY <2>1, <2>2, <2>3, <2>4, <2>5, <2>6
<1>5. CASE TrustedAccepted
  <2> USE <1>5 DEF TrustedAccepted, Enter
  <2>1. TrustFlags'
    BY DEF TrustFlags
  <2>2. TrustData'
    BY DEF TrustData
  <2>3. HookOrder'
    BY DEF HookOrder, TrustData
  <2>4. Verification'
    BY DEF Verification, HookOrder, TrustData
  <2>5. Course'
    BY DEF Course, HookOrder, TrustData
  <2>6. AfterPassed'
    BY DEF AfterPassed, HookOrder, Verification, Course, TrustData
  <2> QED
    BY <2>1, <2>2, <2>3, <2>4, <2>5, <2>6
<1>6. CASE WitnessVerified
  <2> USE <1>6 DEF WitnessVerified, EnterRelease, Enter, CloseCalled,
                   UndoStart
  <2>1. TrustFlags'
    BY DEF TrustFlags
  <2>2. TrustData'
    BY DEF TrustData
  <2>3. HookOrder'
    BY DEF HookOrder, TrustData
  <2>4. Verification'
    BY DEF Verification, HookOrder, TrustData
  <2>5. Course'
    BY DEF Course, HookOrder, TrustData
  <2>6. AfterPassed'
    BY DEF AfterPassed, HookOrder, Verification, Course, TrustData
  <2> QED
    BY <2>1, <2>2, <2>3, <2>4, <2>5, <2>6
<1>7. CASE UntrustedClosed
  <2> USE <1>7 DEF UntrustedClosed, Enter
  <2>1. TrustFlags'
    BY DEF TrustFlags
  <2>2. TrustData'
    BY DEF TrustData
  <2>3. HookOrder'
    BY DEF HookOrder, TrustData
  <2>4. Verification'
    BY DEF Verification, HookOrder, TrustData
  <2>5. Course'
    BY DEF Course, HookOrder, TrustData
  <2>6. AfterPassed'
    BY DEF AfterPassed, HookOrder, Verification, Course, TrustData
  <2> QED
    BY <2>1, <2>2, <2>3, <2>4, <2>5, <2>6
<1>8. CASE Imported
  <2> USE <1>8 DEF Imported
  <2>1. TrustFlags'
    BY DEF TrustFlags
  <2>2. TrustData'
    BY DEF TrustData
  <2>3. HookOrder'
    BY DEF HookOrder, TrustData
  <2>4. Verification'
    BY DEF Verification, HookOrder, TrustData
  <2>5. Course'
    BY DEF Course, HookOrder, TrustData
  <2>6. AfterPassed'
    BY DEF AfterPassed, HookOrder, Verification, Course, TrustData
  <2> QED
    BY <2>1, <2>2, <2>3, <2>4, <2>5, <2>6
<1>9. CASE ImportFails
  <2> USE <1>9 DEF ImportFails
  <2>1. TrustFlags'
    BY DEF TrustFlags
  <2>2. TrustData'
    BY DEF TrustData
  <2>3. HookOrder'
    BY DEF HookOrder, TrustData
  <2>4. Verification'
    BY DEF Verification, HookOrder, TrustData
  <2>5. Course'
    BY DEF Course, HookOrder, TrustData
  <2>6. AfterPassed'
    BY DEF AfterPassed, HookOrder, Verification, Course, TrustData
  <2> QED
    BY <2>1, <2>2, <2>3, <2>4, <2>5, <2>6
<1>10. CASE ServerCloses
  <2> USE <1>10 DEF ServerCloses
  <2>1. TrustFlags'
    BY DEF TrustFlags
  <2>2. TrustData'
    BY DEF TrustData
  <2>3. HookOrder'
    BY DEF HookOrder, TrustData
  <2>4. Verification'
    BY DEF Verification, HookOrder, TrustData
  <2>5. Course'
    BY DEF Course, HookOrder, TrustData
  <2>6. AfterPassed'
    BY DEF AfterPassed, HookOrder, Verification, Course, TrustData
  <2> QED
    BY <2>1, <2>2, <2>3, <2>4, <2>5, <2>6
<1>11. CASE Report
  <2> USE <1>11 DEF Report, ProcessEnds
  <2>1. TrustFlags'
    BY DEF TrustFlags
  <2>2. TrustData'
    BY DEF TrustData
  <2>3. HookOrder'
    BY DEF HookOrder, TrustData
  <2>4. Verification'
    BY DEF Verification, HookOrder, TrustData
  <2>5. Course'
    BY DEF Course, HookOrder, TrustData
  <2>6. AfterPassed'
    BY DEF AfterPassed, HookOrder, Verification, Course, TrustData
  <2> QED
    BY <2>1, <2>2, <2>3, <2>4, <2>5, <2>6
<1>12. CASE RunnerDies
  <2> USE <1>12 DEF RunnerDies, ProcessEnds
  <2>1. TrustFlags'
    BY DEF TrustFlags
  <2>2. TrustData'
    BY DEF TrustData
  <2>3. HookOrder'
    BY DEF HookOrder, TrustData
  <2>4. Verification'
    BY DEF Verification, HookOrder, TrustData
  <2>5. Course'
    BY DEF Course, HookOrder, TrustData
  <2>6. AfterPassed'
    BY DEF AfterPassed, HookOrder, Verification, Course, TrustData
  <2> QED
    BY <2>1, <2>2, <2>3, <2>4, <2>5, <2>6
<1>13. ASSUME NEW b \in Browsers, Released(b) PROVE TrustInv'
  <2> USE <1>13 DEF Released, AfterRelease, EnterRelease, Enter,
                    CloseCalled, UndoStart, ReleaseStep
  <2>1. TrustFlags'
    BY DEF TrustFlags
  <2>2. TrustData'
    BY DEF TrustData
  <2>3. HookOrder'
    BY DEF HookOrder, TrustData
  <2>4. Verification'
    BY DEF Verification, HookOrder, TrustData
  <2>5. Course'
    BY DEF Course, HookOrder, TrustData
  <2>6. AfterPassed'
    BY DEF AfterPassed, HookOrder, Verification, Course, TrustData
  <2> QED
    BY <2>1, <2>2, <2>3, <2>4, <2>5, <2>6
<1>14. ASSUME NEW b \in Browsers, ReleaseFails(b) PROVE TrustInv'
  <2> USE <1>14 DEF ReleaseFails, CleanupFails, AfterRelease, EnterRelease,
                    Enter, CloseCalled, UndoStart, ReleaseStep
  <2>1. TrustFlags'
    BY DEF TrustFlags
  <2>2. TrustData'
    BY DEF TrustData
  <2>3. HookOrder'
    BY DEF HookOrder, TrustData
  <2>4. Verification'
    BY DEF Verification, HookOrder, TrustData
  <2>5. Course'
    BY DEF Course, HookOrder, TrustData
  <2>6. AfterPassed'
    BY DEF AfterPassed, HookOrder, Verification, Course, TrustData
  <2> QED
    BY <2>1, <2>2, <2>3, <2>4, <2>5, <2>6
<1>15. ASSUME NEW b \in Browsers, Drop(b) PROVE TrustInv'
  <2> USE <1>15 DEF Drop, CloseCalled, DropStep
  <2>1. TrustFlags'
    BY DEF TrustFlags
  <2>2. TrustData'
    BY DEF TrustData
  <2>3. HookOrder'
    BY DEF HookOrder, TrustData
  <2>4. Verification'
    BY DEF Verification, HookOrder, TrustData
  <2>5. Course'
    BY DEF Course, HookOrder, TrustData
  <2>6. AfterPassed'
    BY DEF AfterPassed, HookOrder, Verification, Course, TrustData
  <2> QED
    BY <2>1, <2>2, <2>3, <2>4, <2>5, <2>6
<1>16. ASSUME NEW b \in Browsers, DropEnds(b) PROVE TrustInv'
  <2> USE <1>16 DEF DropEnds, DropStep
  <2>1. TrustFlags'
    BY DEF TrustFlags
  <2>2. TrustData'
    BY DEF TrustData
  <2>3. HookOrder'
    BY DEF HookOrder, TrustData
  <2>4. Verification'
    BY DEF Verification, HookOrder, TrustData
  <2>5. Course'
    BY DEF Course, HookOrder, TrustData
  <2>6. AfterPassed'
    BY DEF AfterPassed, HookOrder, Verification, Course, TrustData
  <2> QED
    BY <2>1, <2>2, <2>3, <2>4, <2>5, <2>6
<1>17. ASSUME NEW h \in Hooks \ {"import"}, Undone(h) PROVE TrustInv'
  <2> USE <1>17 DEF Undone, LeaveUndo, UndoNext
  <2>1. TrustFlags'
    BY DEF TrustFlags
  <2>2. TrustData'
    BY DEF TrustData
  <2>3. HookOrder'
    BY DEF HookOrder, TrustData
  <2>4. verified' <=> h = "verify"
    BY ONLY <1>17, Zenon DEF Undone
  <2>5. h \in {"cleanupTrusted", "remove", "verify"}
    OBVIOUS
  <2>6. Verification'
    <3>1. CASE h = "verify"
      BY <2>4, <3>1 DEF Verification, HookOrder, TrustData
    <3>2. CASE h # "verify"
      BY <2>4, <2>5, <3>2 DEF Verification, HookOrder, TrustData
    <3> QED
      BY <3>1, <3>2
  <2>7. Course'
    <3>1. CASE h = "verify"
      BY <2>4, <3>1 DEF Course, HookOrder, TrustData
    <3>2. CASE h # "verify"
      BY <2>4, <2>5, <3>2 DEF Course, HookOrder, TrustData
    <3> QED
      BY <3>1, <3>2
  <2>8. AfterPassed'
    BY DEF AfterPassed, TrustData
  <2> QED
    BY <2>1, <2>2, <2>3, <2>6, <2>7, <2>8
<1>18. ASSUME NEW h \in Hooks \ {"import"}, UndoFails(h) PROVE TrustInv'
  <2> USE <1>18 DEF UndoFails, CleanupFails, LeaveUndo, UndoNext
  <2>1. TrustFlags'
    BY DEF TrustFlags
  <2>2. TrustData'
    BY DEF TrustData
  <2>3. HookOrder'
    BY DEF HookOrder, TrustData
  <2>4. Verification'
    BY DEF Verification, HookOrder, TrustData
  <2>5. Course'
    BY DEF Course, HookOrder, TrustData
  <2>6. AfterPassed'
    BY DEF AfterPassed, HookOrder, Verification, Course, TrustData
  <2> QED
    BY <2>1, <2>2, <2>3, <2>4, <2>5, <2>6
<1>19. ASSUME NEW b \in Browsers, Opens(b) PROVE TrustInv'
  <2> USE <1>19 DEF Opens, OpenStep, ObserveStep, Enter, sequenceVars
  <2>1. TrustFlags'
    BY DEF TrustFlags
  <2>2. TrustData'
    <3>1. CASE b = "untrusted"
      BY <3>1 DEF TrustData
    <3>2. CASE b = "trusted"
      BY <3>2 DEF TrustData
    <3> QED
      BY <3>1, <3>2
  <2>3. HookOrder'
    BY DEF HookOrder, TrustData
  <2>4. Verification'
    BY DEF Verification, HookOrder, TrustData
  <2>5. Course'
    <3>1. CASE at = OpenStep[b]
      <4>1. CASE b = "untrusted"
        <5>1. /\ at = "openUntrusted" /\ at' = "observeUntrusted"
              /\ control' = control \cup {"untrusted"}
          BY <3>1, <4>1
        <5> QED
          BY <5>1, <3>1 DEF Course
      <4>2. CASE b = "trusted"
        <5>1. /\ at = "openTrusted" /\ at' = "observeTrusted"
              /\ control' = control \cup {"trusted"}
              /\ browser'["untrusted"] = browser["untrusted"]
              /\ hook' = hook
          BY <3>1, <4>2 DEF TrustData
        <5> QED
          BY <5>1, <3>1 DEF Course
      <4> QED
        BY <4>1, <4>2
    <3>2. CASE at # OpenStep[b]
      BY <3>2 DEF Course, HookOrder, TrustData
    <3> QED
      BY <3>1, <3>2
  <2>6. AfterPassed'
    BY DEF AfterPassed, HookOrder, Verification, Course, TrustData
  <2> QED
    BY <2>1, <2>2, <2>3, <2>4, <2>5, <2>6
<1>20. ASSUME NEW b \in Browsers, OpenFails(b) PROVE TrustInv'
  <2> USE <1>20 DEF OpenFails, OpenStep, Enter, UndoStart
  <2>1. TrustFlags'
    BY DEF TrustFlags
  <2>2. TrustData'
    BY DEF TrustData
  <2>3. HookOrder'
    BY DEF HookOrder, TrustData
  <2>4. Verification'
    BY DEF Verification, HookOrder, TrustData
  <2>5. Course'
    BY DEF Course, HookOrder, TrustData
  <2>6. AfterPassed'
    BY DEF AfterPassed, HookOrder, Verification, Course, TrustData
  <2> QED
    BY <2>1, <2>2, <2>3, <2>4, <2>5, <2>6
<1>21. ASSUME NEW b \in Browsers, Closes(b) PROVE TrustInv'
  <2> USE <1>21 DEF Closes, sequenceVars
  <2>1. TrustFlags'
    BY DEF TrustFlags
  <2>2. TrustData'
    BY DEF TrustData
  <2>3. HookOrder'
    BY DEF HookOrder, TrustData
  <2>4. Verification'
    BY DEF Verification, HookOrder, TrustData
  <2>5. Course'
    BY DEF Course, HookOrder, TrustData
  <2>6. AfterPassed'
    BY DEF AfterPassed, HookOrder, Verification, Course, TrustData
  <2> QED
    BY <2>1, <2>2, <2>3, <2>4, <2>5, <2>6
<1>22. ASSUME NEW h \in Hooks, HookActs(h) PROVE TrustInv'
  <2> USE <1>22 DEF HookActs, sequenceVars
  <2>1. TrustFlags'
    BY DEF TrustFlags
  <2>2. TrustData'
    BY DEF TrustData
  <2>3. HookOrder'
    BY DEF HookOrder, TrustData
  <2>4. Verification'
    BY DEF Verification, HookOrder, TrustData
  <2>5. Course'
    BY DEF Course, HookOrder, TrustData
  <2>6. AfterPassed'
    BY DEF AfterPassed, HookOrder, Verification, Course, TrustData
  <2> QED
    BY <2>1, <2>2, <2>3, <2>4, <2>5, <2>6
<1> QED
  BY <1>1, <1>2, <1>3, <1>4, <1>5, <1>6, <1>7, <1>8, <1>9, <1>10, <1>11,
     <1>12, <1>13, <1>14, <1>15, <1>16, <1>17, <1>18, <1>19, <1>20, <1>21,
     <1>22
     DEF RunnerStep, OutsideStep

LEMMA TrustRests == TrustInv /\ UNCHANGED trustVars => TrustInv'
<1> SUFFICES ASSUME TrustInv, UNCHANGED trustVars PROVE TrustInv'
  OBVIOUS
<1> USE DEF trustVars, TrustInv
<1>1. TrustFlags'
  BY DEF TrustFlags
<1>2. TrustData'
  BY DEF TrustData
<1>3. HookOrder'
  BY DEF HookOrder
<1>4. Verification'
  BY DEF Verification
<1>5. Course'
  BY DEF Course, Untroubled
<1>6. AfterPassed'
  BY DEF AfterPassed
<1> QED
  BY <1>1, <1>2, <1>3, <1>4, <1>5, <1>6

-----------------------------------------------------------------------------
(* Both together.                                                          *)
LEMMA InitInv == Init => IInv
<1> SUFFICES ASSUME Init PROVE IInv
  OBVIOUS
<1>1. ControlInv /\ TrustInv
  BY ControlInitInv, TrustInitInv DEF Init
<1>2. Tied
  BY ControlAssumption DEF Init, ControlInit, TrustInit, Tied, Children, Supervisor,
     Runner, LastChild
<1> QED
  BY <1>1, <1>2 DEF IInv

(* The orchestrator spawns the runner at most once and closes nothing.     *)
LEMMA RunnerUnderControl ==
    ASSUME ControlInv, OrchestratorStep
    PROVE  \/ child'[Runner] = child[Runner]
           \/ RunnerSpawned
<1> USE ControlAssumption
    DEF ControlInv, ControlData, Sequence, Children, Supervisor, LastChild,
        CleanupCommands, FirstCleanup, Runner, RunnerSpawned
<1>1. CASE Prepare
  BY <1>1 DEF Prepare
<1>2. CASE SupervisorReady
  BY <1>2 DEF SupervisorReady, Launch, Follows
<1>3. CASE SupervisorNotReady
  BY <1>3 DEF SupervisorNotReady, Launch
<1>4. CASE CommandEnds
  BY <1>4 DEF CommandEnds, Launch, Follows
<1>5. CASE CleanupEnds
  BY <1>5 DEF CleanupEnds, AfterCleanup, Launch
<1>6. CASE SupervisorEnds
  BY <1>6 DEF SupervisorEnds
<1>7. CASE CloseTimesOut \/ TermTimesOut
  BY <1>7 DEF CloseTimesOut, TermTimesOut, ForceStop
<1>8. CASE KillTimesOut
  BY <1>8 DEF KillTimesOut, AfterCleanup, Launch
<1>9. CASE ReportResult
  BY <1>9 DEF ReportResult
<1> QED
  BY <1>1, <1>2, <1>3, <1>4, <1>5, <1>6, <1>7, <1>8, <1>9 DEF OrchestratorStep

(* A runner that has a process does not start again, nor one that has      *)
(* ended; only its report ends it by itself and prints a receipt.          *)
GoesOn ==
    /\ at = "passed" => at' = "passed"
    /\ at = "unstarted" <=> at' = "unstarted"
    /\ ~Report => /\ UNCHANGED runnerReceipt
                  /\ at' \in {"passed", "failed"} => at' = at

LEMMA RunnerGoesOn ==
    ASSUME TrustInv, RunnerStep \/ OutsideStep
    PROVE  GoesOn
<1> USE DEF TrustInv, TrustData, Forward, Ended, Browsers, Hooks, GoesOn
<1>1. CASE Setup \/ StepFails \/ UntrustedRefused \/ TrustedAccepted \/ WitnessVerified
  BY <1>1 DEF Setup, StepFails, UntrustedRefused, TrustedAccepted, WitnessVerified,
     Fails, EnterRelease, Enter, UndoStart
<1>2. CASE UntrustedClosed \/ Imported \/ ImportFails \/ ServerCloses \/ Report
  BY <1>2 DEF UntrustedClosed, Imported, ImportFails, ServerCloses, Report, Enter
<1>3. ASSUME NEW b \in Browsers,
             Released(b) \/ ReleaseFails(b) \/ Drop(b) \/ DropEnds(b)
      PROVE  GoesOn
  BY <1>3 DEF Released, ReleaseFails, Drop, DropEnds, AfterRelease, EnterRelease, Enter,
     UndoStart, ReleaseStep, DropStep
<1>4. ASSUME NEW h \in Hooks \ {"import"}, Undone(h) \/ UndoFails(h)
      PROVE  GoesOn
  BY <1>4 DEF Undone, UndoFails, LeaveUndo, UndoNext
<1>5. ASSUME NEW b \in Browsers, Opens(b) \/ OpenFails(b) \/ Closes(b)
      PROVE  GoesOn
  BY <1>5 DEF Opens, OpenFails, Closes, OpenStep, ObserveStep, Enter, UndoStart,
     sequenceVars
<1>6. ASSUME NEW h \in Hooks, HookActs(h)
      PROVE  GoesOn
  BY <1>6 DEF HookActs, sequenceVars
<1> QED
  BY <1>1, <1>2, <1>3, <1>4, <1>5, <1>6 DEF RunnerStep, OutsideStep

LEMMA NextInv == IInv /\ [Next]_vars => IInv'
<1> SUFFICES ASSUME IInv, [Next]_vars PROVE IInv'
  OBVIOUS
<1> USE DEF IInv
<1>1. CASE Orchestrate
  <2>1. ControlInv'
    BY <1>1, ControlStepInv DEF Orchestrate
  <2>2. TrustInv'
    BY <1>1, TrustStepInv, TrustRests DEF Orchestrate
  <2>3. Tied'
    <3>1. CASE RunnerSpawned /\ Start
      BY <3>1 DEF Tied, RunnerSpawned, Start
    <3>2. CASE RunnerSlain /\ RunnerDies
      <4>1. child[Runner] # "none"
        BY <3>2, ControlAssumption DEF RunnerSlain, ControlInv, Sequence, Children,
           Supervisor, Runner, LastChild
      <4>2. child'[Runner] = child[Runner]
        BY <1>1, <4>1, RunnerUnderControl DEF Orchestrate, RunnerSpawned
      <4> QED
        BY <3>2, <4>1, <4>2 DEF Tied, RunnerDies, Ended
    <3>3. CASE ~RunnerSpawned /\ UNCHANGED trustVars
      BY <1>1, <3>3, RunnerUnderControl DEF Orchestrate, Tied, trustVars
    <3> QED
      BY <1>1, <3>1, <3>2, <3>3 DEF Orchestrate
  <2> QED
    BY <2>1, <2>2, <2>3
<1>2. CASE OtherCloses
  <2>1. PICK c \in Children \ {Runner}, how \in {"zero", "other"} : ChildCloses(c, how)
    BY <1>2 DEF OtherCloses
  <2>2. ControlInv' /\ TrustInv'
    BY <1>2, <2>1, ChildClosesInv, TrustRests DEF OtherCloses, Closed
  <2>3. Tied'
    BY <1>2, <2>1, ControlAssumption
       DEF OtherCloses, ChildCloses, Tied, trustVars, ControlInv, ControlData
  <2> QED
    BY <2>2, <2>3
<1>3. CASE RunnerCloses
  <2>1. PICK how \in Closed :
           /\ ChildCloses(Runner, how)
           /\ how = "zero" => at = "passed"
    BY <1>3 DEF RunnerCloses, Closed
  <2>2. Runner \in Children
    BY ControlAssumption DEF Runner, Children, Supervisor, LastChild
  <2>3. ControlInv' /\ TrustInv'
    BY <1>3, <2>1, <2>2, ChildClosesInv, TrustRests DEF RunnerCloses
  <2>4. Tied'
    BY <1>3, <2>1, <2>2
       DEF RunnerCloses, ChildCloses, Tied, trustVars, ControlInv, ControlData, Closed
  <2> QED
    BY <2>3, <2>4
<1>4. CASE RunnerKilled
  <2>1. ControlInv' /\ TrustInv'
    BY <1>4, ControlRests, TrustStepInv DEF RunnerKilled
  <2>2. child[Runner] # "none"
    BY <1>4, ControlAssumption DEF RunnerKilled, ControlInv, Sequence, Children,
       Supervisor, Runner, LastChild
  <2>3. Tied'
    BY <1>4, <2>2 DEF RunnerKilled, RunnerDies, Tied, controlVars, Ended
  <2> QED
    BY <2>1, <2>3
<1>5. CASE RunnerRuns
  <2>1. ControlInv' /\ TrustInv'
    BY <1>5, ControlRests, TrustStepInv DEF RunnerRuns
  <2>2. Tied'
    BY <1>5, RunnerGoesOn DEF GoesOn, RunnerRuns, Tied, controlVars
  <2> QED
    BY <2>1, <2>2
<1>6. CASE UNCHANGED vars
  BY <1>6, ControlRests, TrustRests DEF vars, Tied, controlVars, trustVars
<1> QED
  BY <1>1, <1>2, <1>3, <1>4, <1>5, <1>6 DEF Next

LEMMA OnlyReportEnds ==
    ASSUME IInv, [Next]_vars, ~Report
    PROVE  /\ UNCHANGED runnerReceipt
           /\ at' \in {"passed", "failed"} => at' = at
<1>1. CASE UNCHANGED trustVars
  BY <1>1 DEF trustVars
<1>2. CASE Start
  BY <1>2 DEF Start
<1>3. CASE RunnerDies
  BY <1>3 DEF RunnerDies
<1>4. CASE RunnerRuns
  BY <1>4, RunnerGoesOn DEF RunnerRuns, GoesOn, IInv
<1> QED
  BY <1>1, <1>2, <1>3, <1>4
     DEF Next, Orchestrate, OtherCloses, RunnerCloses, RunnerKilled, vars, trustVars

LEMMA InvHolds == Spec => []IInv
  BY InitInv, NextInv, PTL DEF Spec

-----------------------------------------------------------------------------
(* Every variable of both parts keeps its type.                            *)
THEOREM TypeCorrect == Spec => [](ControlTypeOK /\ TrustTypeOK)
<1>1. IInv => ControlTypeOK /\ TrustTypeOK
  <2> SUFFICES ASSUME IInv PROVE ControlTypeOK /\ TrustTypeOK
    OBVIOUS
  <2>1. ControlTypeOK
    BY DEF IInv, ControlInv, ControlFlags, ControlData, ControlTypeOK
  <2>2. TrustTypeOK
    BY DEF IInv, TrustInv, TrustFlags, TrustData, TrustTypeOK
  <2> QED
    BY <2>1, <2>2
<1> QED
  BY <1>1, InvHolds, PTL

(* Every cleanup command is attempted, whatever fails before it            *)
(* (src/scripts/browser-control-orchestrator.mjs:481-518).                 *)
THEOREM EveryCleanupIsAttempted == Spec => []CleanupIsAttempted
<1>1. IInv => CleanupIsAttempted
  BY DEF IInv, ControlInv, Attempted, CleanupIsAttempted, Orchestrated
<1> QED
  BY <1>1, InvHolds, PTL

(* Commands do not overlap unless one survives SIGKILL                     *)
(* (src/scripts/browser-control-orchestrator.mjs:377-388).                 *)
THEOREM CommandsAreSequential == Spec => []OneCommandAtATime
<1>1. IInv => OneCommandAtATime
  BY ControlAssumption DEF IInv, ControlInv, ControlData, Sequence, OneCommandAtATime,
     Children, Supervisor, LastChild
<1> QED
  BY <1>1, InvHolds, PTL

(* A removal that was verified stays true while the runner lives           *)
(* (src/scripts/browser-trust-sequence.mjs:84,                             *)
(* src/scripts/browser-hub-runner.mjs:615).                                *)
THEOREM RemovalIsFinal == Spec => []VerifiedRemovalIsFinal
<1>1. IInv => VerifiedRemovalIsFinal
  BY DEF IInv, TrustInv, Verification, VerifiedRemovalIsFinal
<1> QED
  BY <1>1, InvHolds, PTL

(* "passed" is true of every child and of the keychain                     *)
(* (src/scripts/browser-control-orchestrator.mjs:349-372, 520-571).        *)
THEOREM PassedMeansClean == Spec => []PassedIsClean
<1>1. IInv => PassedIsClean
  <2> SUFFICES ASSUME IInv, "passed" \in {result, receipt}
               PROVE  /\ \A c \in Children \ {Runner} :
                            child[c] = "zero" /\ forced[c] = "none"
                      /\ withRunner => child[Runner] = "zero" /\ runnerReceipt /\ ~cert
    BY DEF PassedIsClean
  <2>1. \A c \in Children :
           Forwarded(c) \/ c \in CleanupCommands \cup {Supervisor} => Succeeded(c)
    BY DEF IInv, ControlInv, Successes
  <2>2. \A c \in Children \ {Runner} :
           Forwarded(c) \/ c \in CleanupCommands \cup {Supervisor}
    BY ControlAssumption DEF Forwarded, CleanupCommands, FirstCleanup, LastChild,
       Children, Supervisor, Runner
  <2>3. withRunner => child[Runner] = "zero"
    BY <2>1, ControlAssumption DEF Forwarded, Succeeded, Children, Supervisor, Runner,
       LastChild
  <2> QED
    BY <2>1, <2>2, <2>3 DEF Succeeded, IInv, Tied, TrustInv, AfterPassed
<1> QED
  BY <1>1, InvHolds, PTL

(* A receipt is printed only when all it says is so                        *)
(* (src/scripts/browser-hub-runner.mjs:122-131).                           *)
THEOREM ReceiptsAreTrue == Spec => ReceiptIsTrue
<1>1. IInv /\ [Next]_vars =>
         [runnerReceipt' # runnerReceipt =>
             /\ ~cert
             /\ \A b \in Browsers : browser[b] = "closed"
             /\ helper = "closed"
             /\ \A h \in Hooks : hook[h] = "gone"]_trustVars
  <2> SUFFICES ASSUME IInv, [Next]_vars, runnerReceipt' # runnerReceipt
               PROVE  /\ ~cert
                      /\ \A b \in Browsers : browser[b] = "closed"
                      /\ helper = "closed"
                      /\ \A h \in Hooks : hook[h] = "gone"
    OBVIOUS
  <2>1. at = "report" /\ ~runFailed /\ ~cleanupErred
    BY OnlyReportEnds DEF Report
  <2>2. /\ importStarted
        /\ verified
        /\ \A b \in Browsers : browser[b] = "closed"
        /\ helper = "closed"
        /\ hook["import"] = "gone" /\ hook["cleanupTrusted"] = "gone"
    BY <2>1 DEF IInv, TrustInv, Course, Untroubled, Ended, PastUntrusted, PastTrusted,
       Undoing, AfterUndo, Browsers
  <2> QED
    BY <2>1, <2>2 DEF IInv, TrustInv, HookOrder, Verification, AfterUndo, Hooks
<1> QED
  BY <1>1, InvHolds, PTL DEF Spec, ReceiptIsTrue

-----------------------------------------------------------------------------
(* What the runner's books say of the browsers.                            *)
BeforeTrusted == {"unstarted", "setup", "openUntrusted", "observeUntrusted",
                  "closeUntrusted", "import"}

Tracking ==
    /\ \A b \in Browsers : browser[b] = "open" => b \in tracked
    /\ \A b \in tracked : browser[b] \in {"open", "closing", "closed"}
    /\ \A b \in visited : browser[b] \in {"closing", "closed"}
    /\ at \in {"unstarted", "setup"} => browser["untrusted"] = "none"
    /\ at \in BeforeTrusted => browser["trusted"] = "none"

LEMMA TrackingInit == Init => Tracking
BY DEF Init, TrustInit, Tracking, Browsers, BeforeTrusted

(* No browser opens, some are told to close, and the sequence moves on.    *)
LEMMA TrackingKept ==
    ASSUME Tracking,
           \A b \in Browsers : \/ browser'[b] = browser[b]
                               \/ browser[b] = "open" /\ browser'[b] = "closing",
           \A b \in Browsers : browser[b] = "open" => b \notin tracked \ tracked',
           tracked' \subseteq tracked, tracked \subseteq Browsers,
           visited' = visited, visited \subseteq Browsers,
           at' \notin {"unstarted", "setup"},
           at' \in BeforeTrusted => at \in BeforeTrusted
    PROVE  Tracking'
<1>1. \A b \in Browsers : browser'[b] = "open" => b \in tracked'
  BY DEF Tracking
<1>2. \A b \in tracked' : browser'[b] \in {"open", "closing", "closed"}
  BY DEF Tracking
<1>3. \A b \in visited' : browser'[b] \in {"closing", "closed"}
  BY DEF Tracking
<1>4. at' \in BeforeTrusted => browser'["trusted"] = "none"
  BY DEF Tracking, Browsers
<1> QED
  BY <1>1, <1>2, <1>3, <1>4 DEF Tracking

(* The runner's steps keep them.                                           *)
LEMMA TrackingStep ==
    ASSUME TrustInv, Tracking, Start \/ RunnerStep \/ OutsideStep \/ RunnerDies
    PROVE  Tracking'
<1> USE DEF TrustInv, TrustData, Tracking, Browsers, Hooks, Forward, Ended, BeforeTrusted
<1>1. CASE Start \/ RunnerDies
  BY <1>1 DEF Start, RunnerDies, ProcessEnds
<1>2. CASE Setup
  BY <1>2 DEF Setup, Enter
<1>3. CASE StepFails
  BY <1>3 DEF StepFails, Fails, EnterRelease, Enter, CloseCalled, UndoStart
<1>4. CASE UntrustedRefused
  BY <1>4 DEF UntrustedRefused, Enter, CloseCalled
<1>5. CASE TrustedAccepted
  BY <1>5 DEF TrustedAccepted, Enter, CloseCalled
<1>6. CASE WitnessVerified
  BY <1>6 DEF WitnessVerified, EnterRelease, Enter, CloseCalled, UndoStart
<1>7. CASE UntrustedClosed
  BY <1>7 DEF UntrustedClosed, Enter
<1>8. CASE Imported \/ ImportFails
  BY <1>8 DEF Imported, ImportFails
<1>9. CASE ServerCloses
  BY <1>9 DEF ServerCloses
<1>10. CASE Report
  BY <1>10 DEF Report, ProcessEnds
<1>11. ASSUME NEW b \in Browsers, Released(b) \/ ReleaseFails(b)
       PROVE  Tracking'
  <2>1. b = "untrusted" \/ b = "trusted"
    OBVIOUS
  <2>2. PICK left : EnterRelease(left)
    BY <1>11 DEF Released, ReleaseFails, AfterRelease
  <2>3. \/ tracked' = tracked \ {b} /\ browser[b] = "closed"
        \/ tracked' = tracked
    BY <1>11 DEF Released, ReleaseFails
  <2>4. visited' = visited
    BY <1>11 DEF Released, ReleaseFails
  <2>5. at' \notin BeforeTrusted
    BY <2>2 DEF EnterRelease, Enter, UndoStart
  <2>6. \A a \in Browsers : \/ browser'[a] = browser[a]
                            \/ browser[a] = "open" /\ browser'[a] = "closing"
    BY <2>2 DEF EnterRelease, CloseCalled
  <2> QED
    BY <2>3, <2>4, <2>5, <2>6, TrackingKept
<1>12. ASSUME NEW b \in Browsers, Drop(b) \/ DropEnds(b)
       PROVE  Tracking'
  <2>1. b = "untrusted" \/ b = "trusted"
    OBVIOUS
  <2>2. CASE Drop(b)
    <3>1. /\ at' = DropStep[b] /\ at' \notin BeforeTrusted
          /\ b \in tracked /\ visited' = visited \cup {b} /\ tracked' = tracked
      BY <2>1, <2>2 DEF Drop, DropStep
    <3>2. browser' = [browser EXCEPT ![b] = IF @ = "open" THEN "closing" ELSE @]
      BY <2>2 DEF Drop, CloseCalled
    <3> QED
      BY <3>1, <3>2
  <2>3. CASE DropEnds(b)
    BY <2>3 DEF DropEnds
  <2> QED
    BY <1>12, <2>2, <2>3
<1>13. ASSUME NEW h \in Hooks \ {"import"}, Undone(h) \/ UndoFails(h)
       PROVE  Tracking'
  <2>1. at' = UndoNext[h] /\ UNCHANGED <<browser, tracked, visited>>
    BY <1>13 DEF Undone, UndoFails, LeaveUndo
  <2>2. h = "cleanupTrusted" \/ h = "remove" \/ h = "verify"
    OBVIOUS
  <2>3. at' \notin BeforeTrusted
    BY <2>1, <2>2 DEF UndoNext
  <2> QED
    BY <2>1, <2>3
<1>14. ASSUME NEW b \in Browsers, Opens(b) \/ OpenFails(b) \/ Closes(b)
       PROVE  Tracking'
  <2>1. b = "untrusted" \/ b = "trusted"
    OBVIOUS
  <2>2. \/ at' = at
        \/ at' \notin BeforeTrusted
        \/ b = "untrusted" /\ at' = "observeUntrusted" /\ at = "openUntrusted"
    BY <1>14, <2>1 DEF Opens, OpenFails, Closes, Enter, OpenStep, ObserveStep,
       UndoStart, sequenceVars
  <2>3. browser[b] \in {"opening", "closing"} /\ visited' = visited
    BY <1>14 DEF Opens, OpenFails, Closes
  <2>4. \/ /\ tracked' = tracked \cup {b} /\ browser' = [browser EXCEPT ![b] = "open"]
           /\ browser[b] = "opening"
        \/ /\ tracked' = tracked /\ browser' = [browser EXCEPT ![b] = "none"]
           /\ browser[b] = "opening"
        \/ /\ tracked' = tracked /\ browser' = [browser EXCEPT ![b] = "closed"]
           /\ browser[b] = "closing"
    BY <1>14 DEF Opens, OpenFails, Closes
  <2>5. \A a \in Browsers \ {b} : browser'[a] = browser[a]
    BY <2>4
  <2>6. b \in tracked => browser[b] = "closing"
    BY <2>3
  <2>7. b \in visited => browser[b] = "closing"
    BY <2>3
  <2>8. browser'[b] \in {"open", "none", "closed"}
    BY <2>4
  <2>9. \A a \in Browsers \ {b} : a \in tracked' <=> a \in tracked
    BY <2>4
  <2>10. b \in tracked' => browser'[b] \in {"open", "closed"}
    BY <2>4, <2>6
  <2>11. b \in visited => browser'[b] = "closed"
    BY <2>4, <2>7
  <2>12. browser'[b] = "open" => b \in tracked'
    BY <2>4
  <2>13. /\ \A a \in Browsers : browser'[a] = "open" => a \in tracked'
         /\ \A a \in tracked' : browser'[a] \in {"open", "closing", "closed"}
         /\ \A a \in visited' : browser'[a] \in {"closing", "closed"}
    <3>1. \A a \in Browsers : browser'[a] = "open" => a \in tracked'
      BY <2>5, <2>9, <2>12
    <3>2. \A a \in tracked' : browser'[a] \in {"open", "closing", "closed"}
      <4>1. tracked' \subseteq Browsers
        BY <2>4
      <4> QED
        BY <4>1, <2>5, <2>9, <2>10
    <3>3. \A a \in visited' : browser'[a] \in {"closing", "closed"}
      BY <2>3, <2>5, <2>11
    <3> QED
      BY <3>1, <3>2, <3>3
  <2>14. browser[b] # "none"
    BY <2>3
  <2>15. at' \in {"unstarted", "setup"} => browser'["untrusted"] = "none"
    BY <2>1, <2>2, <2>5, <2>14
  <2>16. at' \in BeforeTrusted => browser'["trusted"] = "none"
    BY <2>1, <2>2, <2>5, <2>14
  <2> QED
    BY <2>13, <2>15, <2>16
<1>15. ASSUME NEW h \in Hooks, HookActs(h)
       PROVE  Tracking'
  BY <1>15 DEF HookActs, sequenceVars
<1> QED
  BY <1>1, <1>2, <1>3, <1>4, <1>5, <1>6, <1>7, <1>8, <1>9, <1>10, <1>11, <1>12,
     <1>13, <1>14, <1>15 DEF RunnerStep, OutsideStep

LEMMA TrackingNext == IInv /\ Tracking /\ [Next]_vars => Tracking'
<1> SUFFICES ASSUME IInv, Tracking, [Next]_vars PROVE Tracking'
  OBVIOUS
<1>1. CASE UNCHANGED trustVars
  BY <1>1 DEF trustVars, Tracking
<1>2. CASE Start \/ RunnerStep \/ OutsideStep \/ RunnerDies
  BY <1>2, TrackingStep DEF IInv
<1> QED
  BY <1>1, <1>2 DEF Next, vars, Orchestrate, OtherCloses, RunnerCloses, RunnerKilled,
     RunnerRuns

(* A runner that is done with its resources has run the hooks that undo an *)
(* import it began, and has told every browser that opened to close        *)
(* (browser-trust-sequence.mjs:151-185, browser-hub-runner.mjs:171-191).   *)
THEOREM CleanupForgetsNothing == Spec => NothingIsForgotten
<1>1. IInv /\ Tracking /\ [Next]_vars =>
         [at = "resources" /\ at' = "report" =>
             /\ importStarted => hook["remove"] = "gone" /\ hook["verify"] = "gone"
             /\ \A b \in Browsers : browser[b] # "open"]_trustVars
  <2> SUFFICES ASSUME IInv, Tracking, [Next]_vars, at = "resources", at' = "report"
               PROVE  /\ importStarted => hook["remove"] = "gone" /\ hook["verify"] = "gone"
                      /\ \A b \in Browsers : browser[b] # "open"
    OBVIOUS
  <2>1. ServerCloses
    <3> USE DEF Forward, Ended, Browsers, Hooks
    <3>1. at' # at
      OBVIOUS
    <3>2. RunnerStep \/ OutsideStep
      BY <3>1 DEF Next, vars, trustVars, Orchestrate, OtherCloses, RunnerCloses,
         RunnerKilled, RunnerRuns, RunnerDies, Start
    <3>3. ~OutsideStep
      BY <3>1 DEF OutsideStep, Opens, OpenFails, Closes, HookActs, sequenceVars,
         OpenStep
    <3> QED
      BY <3>2, <3>3 DEF RunnerStep, Setup, StepFails, UntrustedRefused, TrustedAccepted,
         WitnessVerified, UntrustedClosed, Imported, ImportFails, Report, Released,
         ReleaseFails, Drop, DropEnds, Undone, UndoFails, ReleaseStep, DropStep
  <2>2. tracked \subseteq visited
    BY <2>1 DEF ServerCloses
  <2>3. importStarted => hook["remove"] = "gone" /\ hook["verify"] = "gone"
    BY DEF IInv, TrustInv, HookOrder, AfterUndo
  <2> QED
    BY <2>2, <2>3 DEF Tracking
<1>2. Spec => []Tracking
  BY TrackingInit, TrackingNext, InvHolds, PTL DEF Spec
<1> QED
  BY <1>1, <1>2, InvHolds, PTL DEF Spec, NothingIsForgotten
=============================================================================
