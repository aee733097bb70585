-------------------------- MODULE BrowserAcceptance --------------------------
(***************************************************************************)
(* The whole browser acceptance: the orchestrator (BrowserControl) whose   *)
(* runner is the process of src/scripts/test-hub-browser.mjs               *)
(* (TrustSequence).  They share no state: the orchestrator sees how the    *)
(* runner exits, and its signals stop the runner where it is.              *)
(***************************************************************************)
EXTENDS BrowserControl, TrustSequence

vars == <<controlVars, trustVars>>

Init == ControlInit /\ TrustInit

RunnerSpawned == child[Runner] = "none" /\ child'[Runner] = "alive"
RunnerSlain   == forced[Runner] = "SIGTERM" /\ forced'[Runner] = "SIGKILL" /\ at \notin Ended

(* A step of the orchestrator; it starts the runner when it spawns it, and *)
(* a SIGKILL stops what the runner was doing, whenever its close is seen.  *)
Orchestrate ==
    /\ OrchestratorStep
    /\ \/ RunnerSpawned /\ Start
       \/ RunnerSlain /\ RunnerDies
       \/ ~RunnerSpawned /\ ~RunnerSlain /\ UNCHANGED trustVars

(* The other children exit as they like.                                   *)
OtherCloses ==
    /\ \E c \in Children \ {Runner}, how \in {"zero", "other"} : ChildCloses(c, how)
    /\ UNCHANGED trustVars

(* The runner exits with zero unless it was killed or its top-level await  *)
(* rejected (test-hub-browser.mjs:3).                                      *)
RunnerCloses ==
    /\ at \in Ended
    /\ ChildCloses(Runner, IF at = "passed" THEN "zero" ELSE "other")
    /\ UNCHANGED trustVars

(* Without a handler a signal ends the runner; nothing it was doing is     *)
(* cleaned up.                                                             *)
RunnerKilled ==
    /\ forced[Runner] = "SIGTERM"
    /\ RunnerDies
    /\ UNCHANGED controlVars

RunnerRuns == (RunnerStep \/ OutsideStep) /\ UNCHANGED controlVars

Next == Orchestrate \/ OtherCloses \/ RunnerCloses \/ RunnerKilled \/ RunnerRuns

(* Timers fire and settled awaits resume; children, browsers and hooks     *)
(* promise nothing.                                                        *)
Spec == Init /\ [][Next]_vars /\ WF_vars(Orchestrate)

-----------------------------------------------------------------------------
(* "passed", returned or written, is true of every process the             *)
(* orchestration started: each closed by itself with zero, none is left    *)
(* out, and the runner removed the certificate it imported.  A runner that *)
(* was stopped in between, and may leave a certificate behind, is never    *)
(* part of it (browser-control-orchestrator.mjs:349-372, 520-571).         *)
PassedIsClean ==
    "passed" \in {result, receipt} =>
        /\ \A c \in Children \ {Runner} : child[c] = "zero" /\ forced[c] = "none"
        /\ withRunner => child[Runner] = "zero" /\ runnerReceipt /\ ~cert
=============================================================================
