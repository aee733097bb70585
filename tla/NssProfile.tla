------------------------------ MODULE NssProfile -----------------------------
(***************************************************************************)
(* The disposable Firefox profile (src/scripts/firefox-nss-profile.mjs):   *)
(* withFirefoxNssProfile creates a directory, launches Firefox on it, and  *)
(* in the end closes Firefox and removes the directory.  What cannot be    *)
(* removed safely is deferred: the error carries a record whose retry()    *)
(* callers may call whenever they like, also while another retry is under  *)
(* way; the attempts run one at a time.                                    *)
(*                                                                         *)
(* External: Firefox (a launch that fails may leave it running, a close    *)
(* may settle at any time or never), the file system, and whoever replaces *)
(* the directory.  A directory is the profile's own if its device, inode   *)
(* and owner are, which is what the code compares; one that was given the  *)
(* inode of the removed profile counts as its own.                         *)
(***************************************************************************)
EXTENDS Naturals

CONSTANT MaxRetries     \* bounds the calls of retry()

ASSUME RetryAssumption == MaxRetries \in Nat \ {0}

VARIABLES
    stage,          \* where withFirefoxNssProfile is
    authority,      \* the identity of the directory was captured
    acquired,       \* launchPersistentContext returned a context
    closeState,     \* as in the source
    closing,        \* number of closes under way
    attempt,        \* what the attempt under way waits for
    queued,         \* calls of retry() that have not settled
    retries,        \* calls of retry() so far
    removed,        \* as in the source
    firefox,        \* the browser process: "none", "running" or "exited"
    dir,            \* at profilePath: "own", "foreign" or "absent"
    late            \* dir was replaced after the attempt had verified it

vars == <<stage, authority, acquired, closeState, closing, attempt, queued,
          retries, removed, firefox, dir, late>>

NssTypeOK ==
    /\ stage \in {"preparing", "launching", "operating", "unlaunched", "launched"}
    /\ authority \in BOOLEAN
    /\ acquired \in BOOLEAN
    /\ removed \in BOOLEAN
    /\ late \in BOOLEAN
    /\ closeState \in {"none", "pending", "fulfilled", "rejected"}
    /\ closing \in Nat
    /\ attempt \in {"idle", "close", "verify", "remove"}
    /\ queued \in 0 .. MaxRetries
    /\ retries \in 0 .. MaxRetries
    /\ firefox \in {"none", "running", "exited"}
    /\ dir \in {"own", "foreign", "absent"}

(* mkdtemp has returned.                                                   *)
Init ==
    /\ stage = "preparing"
    /\ authority = FALSE
    /\ acquired = FALSE
    /\ closeState = "none"
    /\ closing = 0
    /\ attempt = "idle"
    /\ queued = 0
    /\ retries = 0
    /\ removed = FALSE
    /\ firefox = "none"
    /\ dir = "own"
    /\ late = FALSE

-----------------------------------------------------------------------------
(* The body is over, stage' says whether a launch was attempted: the       *)
(* cleanup is created and retried once.                                    *)
CleanUp ==
    /\ queued' = 1
    /\ retries' = 1
    /\ UNCHANGED <<closeState, closing, attempt, removed, dir, late>>

(* chmod, the checks, certutil's three runs and the database files.        *)
Prepare ==
    /\ stage = "preparing"
    /\ \/ /\ stage' = "launching"
          /\ authority' = TRUE
          /\ UNCHANGED <<queued, retries, closeState, closing, attempt, removed,
                         dir, late>>
       \/ /\ stage' = "unlaunched"
          /\ authority' \in BOOLEAN
          /\ CleanUp
    /\ UNCHANGED <<acquired, firefox>>

Launches ==
    /\ stage = "launching"
    /\ stage' = "operating"
    /\ acquired' = TRUE
    /\ firefox' = "running"
    /\ UNCHANGED <<authority, closeState, closing, attempt, queued, retries, removed,
                   dir, late>>

LaunchFails ==
    /\ stage = "launching"
    /\ stage' = "launched"
    /\ firefox' \in {"none", "running"}
    /\ CleanUp
    /\ UNCHANGED <<authority, acquired>>

(* The operation resolves or rejects: the cleanup is the same.             *)
OperationEnds ==
    /\ stage = "operating"
    /\ stage' = "launched"
    /\ CleanUp
    /\ UNCHANGED <<authority, acquired, firefox>>

(* retry(), by a caller who holds the record: it comes with the failure of *)
(* the first attempt.                                                      *)
Retry ==
    /\ retries \in 1 .. MaxRetries - 1
    /\ queued < retries
    /\ removed => retries > 1
    /\ queued' = queued + 1
    /\ retries' = retries + 1
    /\ UNCHANGED <<stage, authority, acquired, closeState, closing, attempt, removed,
                   firefox, dir, late>>

-----------------------------------------------------------------------------
(* The attempt under way ends; the next one in the queue may begin.        *)
Settle ==
    /\ attempt' = "idle"
    /\ queued' = queued - 1

StartClose ==
    /\ closeState' = "pending"
    /\ closing' = closing + 1

(* A launch without a context has nothing to close.                        *)
BadBegin ==
    /\ attempt = "idle" /\ queued > 0
    /\ \/ removed /\ Settle /\ UNCHANGED <<closeState, closing>>
       \/ /\ ~removed /\ (stage = "unlaunched" \/ ~acquired \/ closeState = "fulfilled")
          /\ attempt' = "verify"
          /\ UNCHANGED <<queued, closeState, closing>>
       \/ /\ ~removed /\ stage = "launched" /\ acquired /\ closeState # "fulfilled"
          /\ attempt' = "close"
          /\ \/ closeState # "pending" /\ StartClose
             \/ closeState = "pending" /\ UNCHANGED <<closeState, closing>>
          /\ UNCHANGED queued
    /\ UNCHANGED <<stage, authority, acquired, retries, removed, firefox, dir, late>>

(* The next attempt runs up to its first await.  A close that is pending   *)
(* from an earlier attempt is awaited again, not begun again; if it has    *)
(* fulfilled, the attempt goes on at once.                                 *)
Begin ==
    /\ attempt = "idle" /\ queued > 0
    /\ \/ /\ removed \/ (stage = "launched" /\ ~acquired)
          /\ Settle
          /\ UNCHANGED <<closeState, closing>>
       \/ /\ ~removed /\ (stage = "unlaunched" \/ closeState = "fulfilled")
          /\ attempt' = "verify"
          /\ UNCHANGED <<queued, closeState, closing>>
       \/ /\ ~removed /\ stage = "launched" /\ acquired
          /\ attempt' = "close"
          /\ \/ closeState \in {"none", "rejected"} /\ StartClose
             \/ closeState = "pending" /\ UNCHANGED <<closeState, closing>>
          /\ UNCHANGED queued
    /\ UNCHANGED <<stage, authority, acquired, retries, removed, firefox, dir, late>>

(* A close settles, and a waiting attempt is notified.                     *)
CloseFulfils ==
    /\ closing > 0
    /\ closing' = closing - 1
    /\ closeState' = "fulfilled"
    /\ firefox' = "exited"
    /\ attempt' = IF attempt = "close" THEN "verify" ELSE attempt
    /\ UNCHANGED <<stage, authority, acquired, queued, retries, removed, dir, late>>

CloseRejects ==
    /\ closing > 0
    /\ closing' = closing - 1
    /\ closeState' = "rejected"
    /\ firefox' \in {"running", "exited"}
    /\ firefox = "exited" => firefox' = "exited"
    /\ IF attempt = "close" THEN Settle ELSE UNCHANGED <<attempt, queued>>
    /\ UNCHANGED <<stage, authority, acquired, retries, removed, dir, late>>

(* The timer of an earlier attempt's close was not renewed.                *)
BadCloseTimesOut ==
    /\ attempt = "close"
    /\ retries = 1
    /\ Settle
    /\ UNCHANGED <<stage, authority, acquired, closeState, closing, retries, removed,
                   firefox, dir, late>>

(* The waiter's timer: the attempt fails, the close stays pending.         *)
CloseTimesOut ==
    /\ attempt = "close"
    /\ Settle
    /\ UNCHANGED <<stage, authority, acquired, closeState, closing, retries, removed,
                   firefox, dir, late>>

-----------------------------------------------------------------------------
(* verifyOwnership: nothing can be established without the authority, and  *)
(* the parent may have changed or the path not be readable.                *)
Verify ==
    /\ attempt = "verify"
    /\ late' = FALSE
    /\ \/ Settle /\ UNCHANGED removed
       \/ authority /\ dir = "absent" /\ removed' = TRUE /\ Settle
       \/ authority /\ dir = "own" /\ attempt' = "remove" /\ UNCHANGED <<queued, removed>>
    /\ UNCHANGED <<stage, authority, acquired, closeState, closing, retries, firefox,
                   dir>>

(* rm takes what is at the path by now, or rejects and leaves some of it.  *)
Remove ==
    /\ attempt = "remove"
    /\ \/ dir' = "absent" /\ removed' = TRUE
       \/ UNCHANGED <<dir, removed>>
    /\ Settle
    /\ UNCHANGED <<stage, authority, acquired, closeState, closing, retries, firefox,
                   late>>

(* Somebody else takes the directory away or puts another in its place,    *)
(* after its identity was captured.                                        *)
Replace ==
    /\ stage # "preparing"
    /\ dir' \in {"foreign", "absent"} \ {dir}
    /\ late' = (late \/ attempt = "remove")
    /\ UNCHANGED <<stage, authority, acquired, closeState, closing, attempt, queued,
                   retries, removed, firefox>>

-----------------------------------------------------------------------------
(* The steps the function takes by itself: continuations, timers, and the  *)
(* file system's answers.                                                  *)
Attempts == Begin \/ CloseTimesOut \/ Verify \/ Remove

Next ==
    \/ Prepare \/ Launches \/ LaunchFails \/ OperationEnds \/ Retry \/ Attempts
    \/ CloseFulfils \/ CloseRejects \/ Replace

(* Nothing is assumed of Firefox: its close may never settle.              *)
Spec == Init /\ [][Next]_vars /\ WF_vars(Attempts)

-----------------------------------------------------------------------------
(* The directory is never removed under a running Firefox: not while a     *)
(* close is pending, not after one that rejected, and not after a launch   *)
(* that failed and may have left it running                                *)
(* (firefox-nss-profile.mjs:258-273).                                      *)
NotWhileRunning == attempt = "remove" => firefox # "running"

(* However many retries race, at most one close is under way, and it is    *)
(* the one closeState tells of (firefox-nss-profile.mjs:188-206, 265).     *)
OneClose == closing = IF closeState = "pending" THEN 1 ELSE 0

(* A retry that succeeds leaves nothing of the profile behind, and a later *)
(* one never touches what another put in its place                         *)
(* (firefox-nss-profile.mjs:256, 268-273).                                 *)
RemovedIsGone ==
    removed => dir # "own" /\ attempt = "idle"

(* Another's directory is removed only if it came in between the check and *)
(* the removal, which no check of this kind excludes                       *)
(* (firefox-nss-profile.mjs:226-254).                                      *)
OthersAreSpared ==
    [][Remove /\ dir = "foreign" /\ dir' = "absent" => late]_vars

(* Every retry settles: a close that hangs holds neither its own attempt   *)
(* nor the ones queued behind it (firefox-nss-profile.mjs:207-224, 283).   *)
RetriesSettle == queued > 0 ~> queued = 0
=============================================================================
