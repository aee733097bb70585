--------------------------- MODULE NssProfileProofs --------------------------
(***************************************************************************)
(* Proofs about NssProfile, for any number of retries: the profile is not  *)
(* removed under a running Firefox, closes do not overlap, and what was    *)
(* removed stays untouched.                                                *)
(***************************************************************************)
EXTENDS NssProfile, TLAPS

(* An attempt waits for a close only while one is under way, and gets past *)
(* that wait only when Firefox is gone or was never launched.              *)
CloseOrder ==
    /\ closeState # "none" => stage = "launched" /\ acquired
    /\ closeState = "fulfilled" => firefox = "exited"
    /\ stage = "unlaunched" => firefox = "none"
    /\ stage = "preparing" => firefox = "none"

AttemptOrder ==
    /\ attempt # "idle" => queued > 0 /\ ~removed
    /\ attempt = "close" => closeState = "pending"
    /\ attempt \in {"verify", "remove"} =>
          stage = "unlaunched" \/ closeState = "fulfilled"
    /\ queued > 0 \/ retries > 0 => stage \in {"unlaunched", "launched"}
    /\ queued <= retries

(* What an attempt has verified is ours unless it was replaced since.      *)
Verified ==
    /\ attempt = "remove" /\ dir # "own" => late
    /\ removed => dir # "own"

Flags ==
    /\ authority \in BOOLEAN
    /\ acquired \in BOOLEAN
    /\ removed \in BOOLEAN
    /\ late \in BOOLEAN

IInv ==
    /\ NssTypeOK
    /\ OneClose
    /\ CloseOrder
    /\ AttemptOrder
    /\ Verified

LEMMA InitInv == Init => IInv
<1> SUFFICES ASSUME Init PROVE IInv
  OBVIOUS
<1>1. NssTypeOK
  <2>1. Flags
    BY DEF Init, Flags
  <2> QED
    BY <2>1, RetryAssumption DEF Init, NssTypeOK, Flags
<1>2. OneClose
  BY DEF Init, OneClose
<1>3. CloseOrder
  BY DEF Init, CloseOrder
<1>4. AttemptOrder
  BY DEF Init, AttemptOrder
<1>5. Verified
  BY DEF Init, Verified
<1> QED
  BY <1>1, <1>2, <1>3, <1>4, <1>5 DEF IInv

LEMMA NextInv == IInv /\ [Next]_vars => IInv'
<1> USE RetryAssumption DEF IInv, NssTypeOK, OneClose, CloseOrder, AttemptOrder, Verified
<1> SUFFICES ASSUME IInv, [Next]_vars PROVE IInv'
  OBVIOUS
<1>1. CASE Prepare
  <2>1. Flags'
    BY <1>1 DEF Prepare, CleanUp, Flags
  <2> QED
    BY <1>1, <2>1 DEF Prepare, CleanUp, Flags
<1>2. CASE Launches
  BY <1>2 DEF Launches
<1>3. CASE LaunchFails
  BY <1>3 DEF LaunchFails, CleanUp
<1>4. CASE OperationEnds
  BY <1>4 DEF OperationEnds, CleanUp
<1>5. CASE Retry
  BY <1>5 DEF Retry
<1>6. CASE Begin
  BY <1>6 DEF Begin, Settle, StartClose
<1>7. CASE CloseTimesOut
  BY <1>7 DEF CloseTimesOut, Settle
<1>8. CASE Verify
  <2>1. Flags'
    BY <1>8 DEF Verify, Flags
  <2> QED
    BY <1>8, <2>1 DEF Verify, Settle, Flags
<1>9. CASE Remove
  <2>1. Flags'
    BY <1>9 DEF Remove, Flags
  <2> QED
    BY <1>9, <2>1 DEF Remove, Settle, Flags
<1>10. CASE CloseFulfils
  BY <1>10 DEF CloseFulfils
<1>11. CASE CloseRejects
  BY <1>11 DEF CloseRejects, Settle
<1>12. CASE Replace
  BY <1>12 DEF Replace
<1>13. CASE UNCHANGED vars
  BY <1>13 DEF vars
<1> QED
  BY <1>1, <1>2, <1>3, <1>4, <1>5, <1>6, <1>7, <1>8, <1>9, <1>10, <1>11, <1>12, <1>13
     DEF Next, Attempts

LEMMA InvHolds == Spec => []IInv
  BY InitInv, NextInv, PTL DEF Spec

(* Every variable keeps its type.                                          *)
THEOREM TypeCorrect == Spec => []NssTypeOK
<1>1. IInv => NssTypeOK
  BY DEF IInv
<1> QED
  BY <1>1, InvHolds, PTL

(* No removal is begun under a running Firefox                             *)
(* (firefox-nss-profile.mjs:258-273).                                      *)
THEOREM NeverWhileRunning == Spec => []NotWhileRunning
<1>1. IInv => NotWhileRunning
  BY DEF IInv, NotWhileRunning, NssTypeOK, CloseOrder, AttemptOrder
<1> QED
  BY <1>1, InvHolds, PTL

(* Racing retries never close Firefox twice at once                        *)
(* (firefox-nss-profile.mjs:188-206, 265).                                 *)
THEOREM NeverTwoCloses == Spec => []OneClose
<1>1. IInv => OneClose
  BY DEF IInv
<1> QED
  BY <1>1, InvHolds, PTL

(* Success is final: what is removed is gone and left alone afterwards     *)
(* (firefox-nss-profile.mjs:256, 268-273).                                 *)
THEOREM RemovalIsFinal == Spec => []RemovedIsGone
<1>1. IInv => RemovedIsGone
  BY DEF IInv, RemovedIsGone, AttemptOrder, Verified
<1> QED
  BY <1>1, InvHolds, PTL

(* Only a directory put there after the check can be removed by mistake    *)
(* (firefox-nss-profile.mjs:226-254).                                      *)
THEOREM OthersStay == Spec => OthersAreSpared
<1>1. IInv /\ [Next]_vars => [Remove /\ dir = "foreign" /\ dir' = "absent" => late]_vars
  BY DEF IInv, Verified, Remove
<1> QED
  BY <1>1, InvHolds, PTL DEF Spec, OthersAreSpared
=============================================================================
