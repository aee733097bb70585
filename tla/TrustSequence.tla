---------------------------- MODULE TrustSequence ----------------------------
(***************************************************************************)
(* The browser Hub runner (src/scripts/browser-hub-runner.mjs) in its      *)
(* sequential mode, with the trust sequence it runs                        *)
(* (src/scripts/browser-trust-sequence.mjs): a browser without the Hub's   *)
(* certificate must be refused, the certificate is imported into the       *)
(* keychain, a second browser must be accepted, and whatever happens the   *)
(* browsers are closed and the certificate is removed again.               *)
(*                                                                         *)
(* Every action of the sequence races a timer (withActionDeadline) and is  *)
(* not stopped when the timer wins: a connection that is being opened or   *)
(* closed may still settle later.  The trust hooks are child processes     *)
(* with a timer of their own, 10 s against 30 s and 15 s of the sequence,  *)
(* that kills them.                                                        *)
(*                                                                         *)
(* External: the browsers, the keychain and the hooks.  A hook does what   *)
(* it is for and reports it, or fails before or after it did; it does the  *)
(* work itself, so that killing it stops it.  If the runner is killed its  *)
(* hooks go on.                                                            *)
(***************************************************************************)

VARIABLES
    at,             \* where the runner is
    verified,       \* trustOrder ends in "fresh_ca_removal_verified"
    runFailed,      \* primaryError is set
    cleanupErred,   \* cleanupErrors is not empty
    control,        \* browsers with untrustedControl or trustedControl set
    importStarted,
    browser,        \* browser[b]: the connection to browser b
    tracked,        \* resources.browsers
    visited,        \* browsers cleanupResources has tried to close
    helper,         \* the helper server: "none", "listening" or "closed"
    hook,           \* hook[h]: the child process of hook h
    cert,           \* the Hub's certificate is in the keychain
    absentSeen,     \* the verify hook found no certificate
    runnerReceipt   \* the runner's receipt is printed

trustVars == <<at, verified, runFailed, cleanupErred, control, importStarted,
               browser, tracked, visited, helper, hook, cert, absentSeen,
               runnerReceipt>>

(* What changes only in the runner's own continuations.                    *)
sequenceVars == <<at, verified, runFailed, cleanupErred, control, importStarted>>

-----------------------------------------------------------------------------
Browsers == {"untrusted", "trusted"}
Hooks    == {"import", "cleanupTrusted", "remove", "verify"}

OpenStep    == [untrusted |-> "openUntrusted", trusted |-> "openTrusted"]
ObserveStep == [untrusted |-> "observeUntrusted", trusted |-> "observeTrusted"]
ReleaseStep == [untrusted |-> "releaseUntrusted", trusted |-> "releaseTrusted"]
DropStep    == [untrusted |-> "dropUntrusted", trusted |-> "dropTrusted"]

(* The steps that await browser.close().                                   *)
CloseSteps(b) == {ReleaseStep[b], DropStep[b]}
                    \cup (IF b = "untrusted" THEN {"closeUntrusted"} ELSE {})

(* The steps of the sequence that come before its cleanup.                 *)
Forward == {"openUntrusted", "observeUntrusted", "closeUntrusted", "import",
            "openTrusted", "observeTrusted", "witness"}

Ended == {"passed", "failed", "killed"}

TrustTypeOK ==
    /\ at \in {"unstarted", "setup", "releaseTrusted", "releaseUntrusted",
               "cleanupTrusted", "remove", "verify", "resources", "dropTrusted",
               "dropUntrusted", "server", "report"} \cup Forward \cup Ended
    /\ verified \in BOOLEAN
    /\ runFailed \in BOOLEAN
    /\ cleanupErred \in BOOLEAN
    /\ importStarted \in BOOLEAN
    /\ cert \in BOOLEAN
    /\ absentSeen \in BOOLEAN
    /\ runnerReceipt \in BOOLEAN
    /\ control \subseteq Browsers
    /\ browser \in [Browsers -> {"none", "opening", "open", "closing", "closed"}]
    /\ tracked \subseteq Browsers
    /\ visited \subseteq Browsers
    /\ helper \in {"none", "listening", "closed"}
    /\ hook \in [Hooks -> {"idle", "running", "acted", "gone"}]

(* A certificate with this fingerprint may be in the keychain already.     *)
TrustInit ==
    /\ at = "unstarted"
    /\ verified = FALSE
    /\ runFailed = FALSE
    /\ cleanupErred = FALSE
    /\ control = {}
    /\ importStarted = FALSE
    /\ browser = [b \in Browsers |-> "none"]
    /\ tracked = {}
    /\ visited = {}
    /\ helper = "none"
    /\ hook = [h \in Hooks |-> "idle"]
    /\ cert \in BOOLEAN
    /\ absentSeen = FALSE
    /\ runnerReceipt = FALSE

-----------------------------------------------------------------------------
(* Entering a step begins its action.                                      *)
Enter(step) ==
    /\ at' = step
    /\ hook' = IF step \in Hooks THEN [hook EXCEPT ![step] = "running"] ELSE hook

(* b.close() is called; on a browser that is gone it has nothing to do.    *)
CloseCalled(b) ==
    browser' = [browser EXCEPT ![b] = IF @ = "open" THEN "closing" ELSE @]

(* The cleanup steps, in order: browsers that are still under control,     *)
(* then, if an import was begun, the hooks that undo it.                   *)
UndoStart == IF importStarted THEN "cleanupTrusted" ELSE "resources"

EnterRelease(left) ==
    \/ /\ "trusted" \in left
       /\ Enter("releaseTrusted") /\ CloseCalled("trusted")
    \/ /\ "trusted" \notin left /\ "untrusted" \in left
       /\ Enter("releaseUntrusted") /\ CloseCalled("untrusted")
    \/ left = {} /\ Enter(UndoStart) /\ UNCHANGED browser

(* A step before the cleanup fails: the cleanup begins.                    *)
Fails(left) ==
    /\ runFailed' = TRUE
    /\ EnterRelease(left)
    /\ UNCHANGED <<verified, cleanupErred>>

(* A step of the cleanup fails: the next one is begun all the same.        *)
CleanupFails ==
    /\ cleanupErred' = TRUE
    /\ UNCHANGED <<verified, runFailed>>

-----------------------------------------------------------------------------
Start ==
    /\ at = "unstarted"
    /\ at' = "setup"
    /\ UNCHANGED <<verified, runFailed, cleanupErred, control, importStarted,
                   browser, tracked, visited, helper, hook, cert, absentSeen,
                   runnerReceipt>>

(* The runner reads its inputs, verifies the packed SDK and listens; what  *)
(* fails before the sequence begins leaves no browser.                     *)
Setup ==
    /\ at = "setup"
    /\ \/ /\ helper' = "listening"
          /\ Enter("openUntrusted")
          /\ browser' = [browser EXCEPT !["untrusted"] = "opening"]
          /\ UNCHANGED runFailed
       \/ /\ helper' \in {"none", "listening"}
          /\ Enter("resources")
          /\ runFailed' = TRUE
          /\ UNCHANGED browser
    /\ UNCHANGED <<verified, cleanupErred, control, importStarted, tracked,
                   visited, cert, absentSeen, runnerReceipt>>

(* Only a browser that is still awaited is tracked.                        *)
BadOpens(b) ==
    /\ browser[b] = "opening"
    /\ at \notin Ended
    /\ browser' = [browser EXCEPT ![b] = "open"]
    /\ IF at = OpenStep[b]
       THEN /\ tracked' = tracked \cup {b}
            /\ control' = control \cup {b}
            /\ Enter(ObserveStep[b])
            /\ UNCHANGED <<verified, runFailed, cleanupErred, importStarted>>
       ELSE UNCHANGED <<sequenceVars, hook, tracked>>
    /\ UNCHANGED <<visited, helper, cert, absentSeen, runnerReceipt>>

(* connectOverCDP resolves: the browser is tracked whether or not its step *)
(* is still awaited.                                                       *)
Opens(b) ==
    /\ browser[b] = "opening"
    /\ at \notin Ended
    /\ tracked' = tracked \cup {b}
    /\ browser' = [browser EXCEPT ![b] = "open"]
    /\ IF at = OpenStep[b]
       THEN /\ control' = control \cup {b}
            /\ Enter(ObserveStep[b])
            /\ UNCHANGED <<verified, runFailed, cleanupErred, importStarted>>
       ELSE UNCHANGED <<sequenceVars, hook>>
    /\ UNCHANGED <<visited, helper, cert, absentSeen, runnerReceipt>>

(* It rejects; no browser is under control while one is opened.            *)
OpenFails(b) ==
    /\ browser[b] = "opening"
    /\ at \notin Ended
    /\ browser' = [browser EXCEPT ![b] = "none"]
    /\ IF at = OpenStep[b]
       THEN runFailed' = TRUE /\ Enter(UndoStart)
       ELSE UNCHANGED <<at, runFailed, hook>>
    /\ UNCHANGED <<verified, cleanupErred, control, importStarted, tracked,
                   visited, helper, cert, absentSeen, runnerReceipt>>

(* The browser that does not know the certificate is refused by its TLS    *)
(* check exactly when the keychain lacks it.                               *)
UntrustedRefused ==
    /\ at = "observeUntrusted"
    /\ ~cert
    /\ Enter("closeUntrusted")
    /\ CloseCalled("untrusted")
    /\ UNCHANGED <<verified, runFailed, cleanupErred, control, importStarted,
                   tracked, visited, helper, cert, absentSeen, runnerReceipt>>

TrustedAccepted ==
    /\ at = "observeTrusted"
    /\ cert
    /\ Enter("witness")
    /\ UNCHANGED <<verified, runFailed, cleanupErred, control, importStarted,
                   browser, tracked, visited, helper, cert, absentSeen,
                   runnerReceipt>>

(* The witness is written and verified: the sequence has its result.       *)
WitnessVerified ==
    /\ at = "witness"
    /\ EnterRelease(control)
    /\ UNCHANGED <<verified, runFailed, cleanupErred, control, importStarted,
                   tracked, visited, helper, cert, absentSeen, runnerReceipt>>

(* Any step before the cleanup rejects, is answered with what the sequence *)
(* does not accept, or passes its deadline.  What it waited for goes on.   *)
StepFails ==
    /\ at \in Forward \ {"import"}
    /\ Fails(control)
    /\ UNCHANGED <<control, importStarted, tracked, visited, helper, cert,
                   absentSeen, runnerReceipt>>

-----------------------------------------------------------------------------
(* A browser closes.  Only a close that is awaited is taken off the books. *)
Closes(b) ==
    /\ browser[b] = "closing"
    /\ at \notin Ended
    /\ browser' = [browser EXCEPT ![b] = "closed"]
    /\ UNCHANGED <<sequenceVars, tracked, visited, helper, hook, cert,
                   absentSeen, runnerReceipt>>

(* closeTrackedBrowser resolves.                                           *)
UntrustedClosed ==
    /\ at = "closeUntrusted"
    /\ browser["untrusted"] = "closed"
    /\ tracked' = tracked \ {"untrusted"}
    /\ control' = control \ {"untrusted"}
    /\ importStarted' = TRUE
    /\ Enter("import")
    /\ UNCHANGED <<verified, runFailed, cleanupErred, browser, visited, helper,
                   cert, absentSeen, runnerReceipt>>

(* The same close, as a step of the cleanup.                               *)
AfterRelease(b) == EnterRelease(IF b = "trusted" THEN control \ {b} ELSE {})

Released(b) ==
    /\ at = ReleaseStep[b]
    /\ browser[b] = "closed"
    /\ tracked' = tracked \ {b}
    /\ AfterRelease(b)
    /\ UNCHANGED <<verified, runFailed, cleanupErred, control, importStarted,
                   visited, helper, cert, absentSeen, runnerReceipt>>

(* It rejects or passes its deadline.                                      *)
ReleaseFails(b) ==
    /\ at = ReleaseStep[b]
    /\ CleanupFails
    /\ AfterRelease(b)
    /\ UNCHANGED <<control, importStarted, tracked, visited, helper, cert,
                   absentSeen, runnerReceipt>>

-----------------------------------------------------------------------------
(* A hook does its work.                                                   *)
HookActs(h) ==
    /\ hook[h] = "running"
    /\ hook' = [hook EXCEPT ![h] = "acted"]
    /\ cert' = IF h = "import" THEN TRUE ELSE IF h = "remove" THEN FALSE ELSE cert
    /\ browser' = IF h = "cleanupTrusted" /\ browser["trusted"] \in {"open", "closing"}
                  THEN [browser EXCEPT !["trusted"] = "closed"]
                  ELSE browser
    /\ absentSeen' = IF h = "verify" THEN ~cert ELSE absentSeen
    /\ UNCHANGED <<sequenceVars, tracked, visited, helper, runnerReceipt>>

(* The import hook reports what it imported: the trusted browser is opened.*)
Imported ==
    /\ at = "import"
    /\ hook["import"] = "acted"
    /\ at' = "openTrusted"
    /\ hook' = [hook EXCEPT !["import"] = "gone"]
    /\ browser' = [browser EXCEPT !["trusted"] = "opening"]
    /\ UNCHANGED <<verified, runFailed, cleanupErred, control, importStarted,
                   tracked, visited, helper, cert, absentSeen, runnerReceipt>>

(* The import passes its deadline, but its hook is not killed.             *)
BadImportFails ==
    /\ at = "import"
    /\ runFailed' = TRUE
    /\ at' = "cleanupTrusted"
    /\ hook' = [hook EXCEPT !["cleanupTrusted"] = "running"]
    /\ UNCHANGED <<verified, cleanupErred, control, importStarted, browser,
                   tracked, visited, helper, cert, absentSeen, runnerReceipt>>

(* The hook fails, is killed by its timer, or reports something else.      *)
ImportFails ==
    /\ at = "import"
    /\ runFailed' = TRUE
    /\ at' = "cleanupTrusted"
    /\ hook' = [hook EXCEPT !["import"] = "gone", !["cleanupTrusted"] = "running"]
    /\ UNCHANGED <<verified, cleanupErred, control, importStarted, browser,
                   tracked, visited, helper, cert, absentSeen, runnerReceipt>>

UndoNext == [cleanupTrusted |-> "remove", remove |-> "verify", verify |-> "resources"]

(* The hook is gone and the next step begins.                              *)
LeaveUndo(h) ==
    /\ at' = UndoNext[h]
    /\ hook' = [g \in Hooks |-> IF g = h THEN "gone"
                                ELSE IF g = UndoNext[h] THEN "running" ELSE hook[g]]

Undone(h) ==
    /\ at = h
    /\ hook[h] = "acted"
    /\ h = "verify" => absentSeen
    /\ verified' = (h = "verify")
    /\ LeaveUndo(h)
    /\ UNCHANGED <<runFailed, cleanupErred, control, importStarted, browser,
                   tracked, visited, helper, cert, absentSeen, runnerReceipt>>

(* The rest of the cleanup is given up when the browser's cleanup fails.   *)
BadUndoFails(h) ==
    /\ at = h
    /\ CleanupFails
    /\ at' = IF h = "cleanupTrusted" THEN "resources" ELSE UndoNext[h]
    /\ hook' = [g \in Hooks |-> IF g = h THEN "gone"
                                ELSE IF g = at' THEN "running" ELSE hook[g]]
    /\ UNCHANGED <<control, importStarted, browser, tracked, visited, helper,
                   cert, absentSeen, runnerReceipt>>

(* The hook fails or is killed, or reports what is not accepted.           *)
UndoFails(h) ==
    /\ at = h
    /\ CleanupFails
    /\ LeaveUndo(h)
    /\ UNCHANGED <<control, importStarted, browser, tracked, visited, helper,
                   cert, absentSeen, runnerReceipt>>

-----------------------------------------------------------------------------
(* cleanupResources goes through resources.browsers; a browser added while *)
(* it does is visited too.                                                 *)
Drop(b) ==
    /\ at = "resources"
    /\ b \in tracked \ visited
    /\ visited' = visited \cup {b}
    /\ at' = DropStep[b]
    /\ CloseCalled(b)
    /\ UNCHANGED <<verified, runFailed, cleanupErred, control, importStarted,
                   tracked, helper, hook, cert, absentSeen, runnerReceipt>>

DropEnds(b) ==
    /\ at = DropStep[b]
    /\ \/ /\ browser[b] = "closed"
          /\ tracked' = tracked \ {b}
          /\ UNCHANGED cleanupErred
       \/ cleanupErred' = TRUE /\ UNCHANGED tracked
    /\ at' = "resources"
    /\ UNCHANGED <<verified, runFailed, control, importStarted, browser,
                   visited, helper, hook, cert, absentSeen, runnerReceipt>>

(* The helper server is closed; one that does not is cut off and reported. *)
ServerCloses ==
    /\ at = "resources"
    /\ tracked \subseteq visited
    /\ at' = "report"
    /\ \/ /\ helper' = IF helper = "listening" THEN "closed" ELSE helper
          /\ UNCHANGED cleanupErred
       \/ /\ helper = "listening"
          /\ cleanupErred' = TRUE
          /\ UNCHANGED helper
    /\ UNCHANGED <<verified, runFailed, control, importStarted, browser,
                   tracked, visited, hook, cert, absentSeen, runnerReceipt>>

(* The process is gone and its memory with it; what its hooks still do is  *)
(* their own.                                                              *)
ProcessEnds ==
    /\ verified' = FALSE
    /\ runFailed' = FALSE
    /\ cleanupErred' = FALSE
    /\ control' = {}
    /\ importStarted' = FALSE
    /\ browser' = [b \in Browsers |-> "none"]
    /\ tracked' = {}
    /\ visited' = {}
    /\ helper' = "none"
    /\ hook' = [h \in Hooks |-> IF hook[h] = "running" THEN "running" ELSE "idle"]
    /\ absentSeen' = FALSE
    /\ UNCHANGED cert

(* The errors of the cleanup are attached to a failure but are none.       *)
BadReport ==
    /\ at = "report"
    /\ \/ ~runFailed /\ at' = "passed" /\ runnerReceipt' = TRUE
       \/ at' = "failed" /\ UNCHANGED runnerReceipt
    /\ ProcessEnds

(* A failure is thrown; otherwise the receipt is written, if it can be.    *)
Report ==
    /\ at = "report"
    /\ \/ /\ ~runFailed /\ ~cleanupErred
          /\ at' = "passed"
          /\ runnerReceipt' = TRUE
       \/ at' = "failed" /\ UNCHANGED runnerReceipt
    /\ ProcessEnds

(* The process is stopped from outside; a hook under way goes on.          *)
RunnerDies ==
    /\ at \notin Ended
    /\ at' = "killed"
    /\ ProcessEnds
    /\ UNCHANGED runnerReceipt

-----------------------------------------------------------------------------
(* The runner's continuations and its timers: each ends an await.          *)
RunnerStep ==
    \/ Setup \/ StepFails \/ UntrustedRefused \/ TrustedAccepted \/ WitnessVerified
    \/ UntrustedClosed \/ Imported \/ ImportFails \/ ServerCloses \/ Report
    \/ \E b \in Browsers : Released(b) \/ ReleaseFails(b) \/ Drop(b) \/ DropEnds(b)
    \/ \E h \in Hooks \ {"import"} : Undone(h) \/ UndoFails(h)

(* What the browsers and the hooks do, in their own time.                  *)
OutsideStep ==
    \/ \E b \in Browsers : Opens(b) \/ OpenFails(b) \/ Closes(b)
    \/ \E h \in Hooks : HookActs(h)

-----------------------------------------------------------------------------
(* Once the removal has been verified the certificate stays out of the     *)
(* keychain: nothing that was begun before and passed its deadline brings  *)
(* it back (browser-trust-sequence.mjs:84, browser-hub-runner.mjs:615).    *)
VerifiedRemovalIsFinal ==
    verified => ~cert

(* Whatever fails or passes its deadline, a runner that is not killed      *)
(* forgets nothing: when it is done with its resources, the hooks that     *)
(* remove the certificate and verify the removal have run if an import was *)
(* begun (browser-trust-sequence.mjs:151-185), and every browser that has  *)
(* opened by then has been told to close, also one that opened after its   *)
(* deadline, when no control of it was left in the sequence                *)
(* (browser-trust-sequence.mjs:65, browser-hub-runner.mjs:171-191, 346).   *)
NothingIsForgotten ==
    [][at = "resources" /\ at' = "report" =>
          /\ importStarted => hook["remove"] = "gone" /\ hook["verify"] = "gone"
          /\ \A b \in Browsers : browser[b] # "open"]_trustVars

(* The receipt says "closed", "closed" and "removed-and-verified"          *)
(* (browser-hub-runner.mjs:122-131): it is written only when every browser *)
(* that was opened has closed, the server has closed, no hook is left and  *)
(* the certificate is out of the keychain.                                 *)
ReceiptIsTrue ==
    [][runnerReceipt' # runnerReceipt =>
          /\ ~cert
          /\ \A b \in Browsers : browser[b] = "closed"
          /\ helper = "closed"
          /\ \A h \in Hooks : hook[h] = "gone"]_trustVars
=============================================================================
