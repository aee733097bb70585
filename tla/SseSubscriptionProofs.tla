------------------------ MODULE SseSubscriptionProofs ------------------------
(***************************************************************************)
(* Proofs about SseSubscription for a log of any length, any number of     *)
(* subscriptions and broken connections, and either policy.                *)
(***************************************************************************)
EXTENDS SseSubscription, TLAPS

(* Everything in front of block n is consumed or needed no consumer.       *)
Passed(i) == log[i] # "invalid" /\ (log[i] = "event" => i \in consumed)

PassedBelow(n) == \A i \in Ids : i < n => Passed(i)

(* The store and the generator's own idea of the checkpoint.               *)
CheckpointsPassed ==
    /\ PassedBelow(store + 1)
    /\ place \notin {"none", "loading", "ended"} => PassedBelow(committed + 1)

(* How far the open stream is, and that the block in hand is all that lies *)
(* between it and the checkpoint.                                          *)
StreamPosition ==
    /\ place \in {"streaming", "saving"} => PassedBelow(next) /\ committed < next
    /\ place \in {"mapping", "yielded"} =>
          /\ PassedBelow(item)
          /\ item \in Ids
          /\ next = item + 1
          /\ committed < item
    /\ place = "yielded" => log[item] = "event"

(* Only while a save is under way do the two checkpoints differ.           *)
StoreIsCommitted ==
    place \in {"connecting", "streaming", "mapping", "yielded", "deciding",
               "sleeping"} => store = committed

IInv == SseTypeOK /\ CheckpointsPassed /\ StreamPosition /\ StoreIsCommitted

-----------------------------------------------------------------------------
LEMMA InitInv == Init => IInv
<1> SUFFICES ASSUME Init PROVE IInv
  OBVIOUS
<1> USE SseAssumption DEF Init
<1>1. SseTypeOK
  <2>1. log \in [Ids -> BlockKinds] /\ consumed \subseteq Ids /\ policy \in Policies
    OBVIOUS
  <2>2. /\ store \in 0 .. Blocks /\ committed \in 0 .. Blocks
        /\ next \in 1 .. Blocks + 1 /\ item \in 0 .. Blocks
        /\ breaks \in 0 .. MaxBreaks /\ subscriptions \in 0 .. MaxSubscriptions
    OBVIOUS
  <2>3. place \in Places /\ cause \in Causes /\ result \in Results
    BY DEF Places, Causes, Results
  <2>4. aborted \in BOOLEAN
    OBVIOUS
  <2>5. QED
    BY <2>1, <2>2, <2>3, <2>4 DEF SseTypeOK
<1>2. CheckpointsPassed /\ StreamPosition /\ StoreIsCommitted
  BY DEF CheckpointsPassed, StreamPosition, StoreIsCommitted, PassedBelow, Ids
<1>3. QED
  BY <1>1, <1>2 DEF IInv

(* The log never changes, and a policy comes from the set.                 *)
LEMMA LogAndPolicy ==
    ASSUME policy \in Policies, [Next]_vars
    PROVE  log' = log /\ policy' \in Policies
<1>1. CASE Subscribe
  BY <1>1 DEF Subscribe
<1>2. CASE GeneratorStep
  BY <1>2 DEF GeneratorStep, CheckpointLoads, StreamOpens, StreamRefused, BlockArrives,
         StreamEnds, Mapped, SaveEnds, PolicyDecides, SleepEnds, AbortSeen
<1>3. CASE ConsumerStep \/ Abort \/ Crash
  BY <1>3 DEF ConsumerStep, ConsumerNext, ConsumerReturns, Abort, Crash
<1>4. CASE UNCHANGED vars
  BY <1>4 DEF vars
<1>5. QED
  BY <1>1, <1>2, <1>3, <1>4 DEF Next, Finished

(* Types are kept.                                                         *)
LEMMA NextTypes ==
    ASSUME IInv, [Next]_vars
    PROVE  SseTypeOK'
<1> USE SseAssumption DEF IInv
<1>1. log' \in [Ids -> BlockKinds] /\ policy' \in Policies
  BY LogAndPolicy DEF SseTypeOK
<1>2. /\ committed' \in 0 .. Blocks
      /\ next' \in 1 .. Blocks + 1
      /\ item' \in 0 .. Blocks
  BY DEF SseTypeOK, Next, GeneratorStep, ConsumerStep, vars, Subscribe, CheckpointLoads,
         StreamOpens, StreamRefused, BlockArrives, StreamEnds, Mapped, ConsumerNext,
         ConsumerReturns, SaveEnds, PolicyDecides, SleepEnds, AbortSeen, Abort, Crash,
         Finished, Commit, GoTo, End, Disconnect, Terminate, Ids
<1>3. store' \in 0 .. Blocks
  BY DEF SseTypeOK, Next, GeneratorStep, ConsumerStep, vars, Subscribe, CheckpointLoads,
         StreamOpens, StreamRefused, BlockArrives, StreamEnds, Mapped, ConsumerNext,
         ConsumerReturns, SaveEnds, PolicyDecides, SleepEnds, AbortSeen, Abort, Crash,
         Finished
<1>4. /\ breaks' \in 0 .. MaxBreaks
      /\ subscriptions' \in 0 .. MaxSubscriptions
  BY DEF SseTypeOK, Next, GeneratorStep, ConsumerStep, vars, Subscribe, CheckpointLoads,
         StreamOpens, StreamRefused, BlockArrives, StreamEnds, Mapped, ConsumerNext,
         ConsumerReturns, SaveEnds, PolicyDecides, SleepEnds, AbortSeen, Abort, Crash,
         Finished, Breaks
<1>5. /\ consumed' \subseteq Ids
      /\ aborted' \in BOOLEAN
  BY DEF SseTypeOK, StreamPosition, Next, GeneratorStep, ConsumerStep, vars, Subscribe,
         CheckpointLoads, StreamOpens, StreamRefused, BlockArrives, StreamEnds, Mapped,
         ConsumerNext, ConsumerReturns, SaveEnds, PolicyDecides, SleepEnds, AbortSeen,
         Abort, Crash, Finished
<1>6. place' \in Places
  BY DEF SseTypeOK, Next, GeneratorStep, ConsumerStep, vars, Subscribe, CheckpointLoads,
         StreamOpens, StreamRefused, BlockArrives, StreamEnds, Mapped, ConsumerNext,
         ConsumerReturns, SaveEnds, PolicyDecides, SleepEnds, AbortSeen, Abort, Crash,
         Finished, Commit, GoTo, End, Disconnect, Terminate, Places
<1>7. cause' \in Causes /\ result' \in Results
  BY DEF SseTypeOK, Next, GeneratorStep, ConsumerStep, vars, Subscribe, CheckpointLoads,
         StreamOpens, StreamRefused, BlockArrives, StreamEnds, Mapped, ConsumerNext,
         ConsumerReturns, SaveEnds, PolicyDecides, SleepEnds, AbortSeen, Abort, Crash,
         Finished, Commit, GoTo, End, Disconnect, Terminate, Causes, Results
<1>8. QED
  BY <1>1, <1>2, <1>3, <1>4, <1>5, <1>6, <1>7 DEF SseTypeOK

-----------------------------------------------------------------------------
(* A step that ends the stream or moves between places that hold no block. *)
LEMMA NoBlockInHand ==
    ASSUME IInv, UNCHANGED <<log, store, committed, consumed>>,
           \/ place' \in {"none", "loading", "ended"}
           \/ /\ place \notin {"none", "loading", "saving", "ended"}
              /\ place' \in {"connecting", "deciding", "sleeping"}
    PROVE  CheckpointsPassed' /\ StreamPosition' /\ StoreIsCommitted'
<1>1. CheckpointsPassed'
  BY DEF IInv, SseTypeOK, Places, CheckpointsPassed, PassedBelow, Passed
<1>2. StreamPosition' /\ StoreIsCommitted'
  BY DEF IInv, SseTypeOK, Places, StreamPosition, StoreIsCommitted
<1>3. QED
  BY <1>1, <1>2

LEMMA NextInv ==
    ASSUME IInv, [Next]_vars
    PROVE  CheckpointsPassed' /\ StreamPosition' /\ StoreIsCommitted'
<1> DEFINE Goal == CheckpointsPassed' /\ StreamPosition' /\ StoreIsCommitted'
<1> USE SseAssumption
<1>1. CASE Subscribe
  BY <1>1, NoBlockInHand DEF Subscribe
<1>2. CASE CheckpointLoads
  <2>1. CASE place' = "connecting"
    BY <1>2, <2>1 DEF CheckpointLoads, End, GoTo, IInv, CheckpointsPassed, StreamPosition,
       StoreIsCommitted, PassedBelow, Passed
  <2>2. CASE place' = "ended" /\ UNCHANGED committed
    BY <1>2, <2>2, NoBlockInHand DEF CheckpointLoads
  <2>3. QED
    BY <1>2, <2>1, <2>2 DEF CheckpointLoads, End, GoTo
<1>3. CASE StreamOpens
  BY <1>3 DEF StreamOpens, GoTo, IInv, SseTypeOK, CheckpointsPassed, StreamPosition,
     StoreIsCommitted, PassedBelow, Passed
<1>4. CASE StreamRefused
  BY <1>4, NoBlockInHand DEF StreamRefused, Disconnect, Terminate, End, GoTo
<1>5. CASE BlockArrives
  <2>1. CASE log[next] \in {"event", "unknown", "invalid"}
    BY <1>5, <2>1 DEF BlockArrives, Commit, End, GoTo, IInv, SseTypeOK, CheckpointsPassed,
       StreamPosition, StoreIsCommitted, PassedBelow, Passed
  <2>2. CASE log[next] \in {"mark", "reset"} /\ place' = "saving"
    <3>1. PassedBelow(next + 1)
      BY <1>5, <2>2 DEF BlockArrives, IInv, StreamPosition, PassedBelow, Passed, Ids, SseTypeOK
    <3>2. committed' \in 0 .. next /\ next' = next + 1 /\ UNCHANGED <<log, consumed, store>>
      BY <1>5, <2>2 DEF BlockArrives, Commit, End, GoTo, IInv, SseTypeOK, Ids
    <3>3. next \in Nat /\ store \in Nat /\ \A i \in Ids : i \in Nat
      BY DEF IInv, SseTypeOK, Ids
    <3>4. PassedBelow(next)' /\ PassedBelow(store + 1)'
      BY <3>1, <3>2 DEF IInv, CheckpointsPassed, PassedBelow, Passed
    <3>5. PassedBelow(committed + 1)' /\ committed' < next'
      BY <3>2, <3>3, <3>4 DEF PassedBelow
    <3>6. QED
      BY <2>2, <3>2, <3>4, <3>5 DEF CheckpointsPassed, StreamPosition, StoreIsCommitted,
         PassedBelow
  <2>3. CASE place' = "ended" /\ UNCHANGED committed
    BY <1>5, <2>3, NoBlockInHand DEF BlockArrives
  <2>4. QED
    BY <1>5, <2>1, <2>2, <2>3 DEF BlockArrives, Commit, End, GoTo
<1>6. CASE StreamEnds
  BY <1>6, NoBlockInHand DEF StreamEnds, Disconnect, Terminate, End, GoTo
<1>7. CASE Mapped
  <2>1. CASE place' = "yielded"
    BY <1>7, <2>1 DEF Mapped, Disconnect, Commit, End, GoTo, IInv, SseTypeOK,
       CheckpointsPassed, StreamPosition, StoreIsCommitted, PassedBelow, Passed
  <2>2. CASE place' = "saving"
    <3>1. /\ log[item] = "unknown"
          /\ committed' = item
          /\ UNCHANGED <<log, consumed, store, next>>
      BY <1>7, <2>2 DEF Mapped, Disconnect, Commit, End, GoTo
    <3>2. item \in Ids /\ next = item + 1 /\ PassedBelow(item)
      BY <1>7 DEF Mapped, IInv, StreamPosition
    <3>3. PassedBelow(item + 1)
      BY <3>1, <3>2 DEF PassedBelow, Passed, Ids
    <3>4. QED
      BY <2>2, <3>1, <3>2, <3>3 DEF IInv, CheckpointsPassed, StreamPosition,
         StoreIsCommitted, PassedBelow, Passed, Ids
  <2>3. CASE place' \in {"ended", "deciding"} /\ UNCHANGED committed
    BY <1>7, <2>3, NoBlockInHand DEF Mapped
  <2>4. QED
    BY <1>7, <2>1, <2>2, <2>3 DEF Mapped, Disconnect, Commit, End, GoTo
<1>8. CASE ConsumerNext
  <2>1. item \in Ids /\ next = item + 1 /\ PassedBelow(item) /\ log[item] = "event"
    BY <1>8 DEF ConsumerNext, IInv, StreamPosition
  <2>2. /\ consumed' = consumed \cup {item}
        /\ UNCHANGED <<log, store, next, item>>
    BY <1>8 DEF ConsumerNext
  <2>3. PassedBelow(item + 1)'
    <3>1. \A i \in Ids : i < item + 1 => i < item \/ i = item
      BY <2>1 DEF Ids
    <3>2. QED
      BY <2>1, <2>2, <3>1 DEF PassedBelow, Passed
  <2>4. PassedBelow(store + 1)'
    BY <2>2 DEF IInv, CheckpointsPassed, PassedBelow, Passed
  <2>5. CASE place' = "saving"
    <3>1. committed' = item
      BY <1>8, <2>1, <2>5 DEF ConsumerNext, Commit, End, GoTo
    <3>2. QED
      BY <2>1, <2>2, <2>3, <2>4, <2>5, <3>1 DEF CheckpointsPassed, StreamPosition,
         StoreIsCommitted, PassedBelow, Ids
  <2>6. CASE place' = "ended"
    BY <2>4, <2>6 DEF CheckpointsPassed, StreamPosition, StoreIsCommitted
  <2>7. QED
    BY <1>8, <2>5, <2>6 DEF ConsumerNext, Commit, End, GoTo
<1>9. CASE ConsumerReturns
  BY <1>9, NoBlockInHand DEF ConsumerReturns, End
<1>10. CASE SaveEnds
  <2>1. PassedBelow(committed + 1) /\ PassedBelow(store + 1) /\ PassedBelow(next)
    BY <1>10 DEF SaveEnds, IInv, CheckpointsPassed, StreamPosition
  <2>2. UNCHANGED <<log, committed, next, consumed>> /\ store' \in {store, committed}
    BY <1>10 DEF SaveEnds
  <2>3. PassedBelow(committed + 1)' /\ PassedBelow(store + 1)' /\ PassedBelow(next)'
    BY <2>1, <2>2 DEF PassedBelow, Passed
  <2>4. place' = "ended" \/ (place' = "streaming" /\ store' = committed)
    BY <1>10 DEF SaveEnds, Terminate, End, GoTo
  <2>5. QED
    BY <1>10, <2>2, <2>3, <2>4 DEF SaveEnds, IInv, CheckpointsPassed, StreamPosition,
       StoreIsCommitted
<1>11. CASE PolicyDecides
  BY <1>11, NoBlockInHand DEF PolicyDecides, End, GoTo
<1>12. CASE SleepEnds
  BY <1>12, NoBlockInHand DEF SleepEnds, End, GoTo
<1>13. CASE AbortSeen
  BY <1>13, NoBlockInHand DEF AbortSeen, End
<1>14. CASE Abort
  BY <1>14 DEF Abort, IInv, CheckpointsPassed, StreamPosition, StoreIsCommitted,
     PassedBelow, Passed
<1>15. CASE Crash
  BY <1>15 DEF Crash, IInv, CheckpointsPassed, StreamPosition, StoreIsCommitted,
     PassedBelow, Passed
<1>16. CASE UNCHANGED vars
  BY <1>16 DEF vars, IInv, CheckpointsPassed, StreamPosition, StoreIsCommitted,
     PassedBelow, Passed
<1>17. QED
  BY <1>1, <1>2, <1>3, <1>4, <1>5, <1>6, <1>7, <1>8, <1>9, <1>10, <1>11, <1>12, <1>13,
     <1>14, <1>15, <1>16 DEF Next, GeneratorStep, ConsumerStep, Finished

(* The store is at the generator's own checkpoint whenever no save is      *)
(* under way, and everything in front of either has been consumed          *)
(* (sse-subscription.ts:165-194).                                          *)
THEOREM IInvHolds == Spec => []IInv
<1>1. IInv /\ [Next]_vars => IInv'
  BY NextTypes, NextInv DEF IInv
<1>2. QED
  BY <1>1, InitInv, PTL DEF Spec

(* The types of the generator's variables.                                 *)
THEOREM TypeCorrect == Spec => []SseTypeOK
<1>1. IInv => SseTypeOK
  BY DEF IInv
<1>2. QED
  BY <1>1, IInvHolds, PTL

(* At-least-once replay: no crash, failed save, broken stream or new       *)
(* subscription makes the checkpoint pass an event its consumer has not    *)
(* finished (sse-subscription.ts:186-194).                                 *)
THEOREM AtLeastOnce == Spec => []CheckpointCovered
<1>1. IInv => CheckpointCovered
  <2>1. SUFFICES ASSUME IInv, NEW i \in Ids,
                        i <= store \/ (place \notin {"none", "loading", "ended"} /\ i <= committed)
                 PROVE  Passed(i)
    BY DEF CheckpointCovered, Passed
  <2>2. i < store + 1 \/ (place \notin {"none", "loading", "ended"} /\ i < committed + 1)
    BY <2>1 DEF IInv, SseTypeOK, Ids
  <2>3. QED
    BY <2>1, <2>2 DEF IInv, CheckpointsPassed, PassedBelow
<1>2. QED
  BY <1>1, IInvHolds, PTL

(* No event whose ID is in the store is yielded again                      *)
(* (sse-subscription.ts:121-123, 193-194).                                 *)
THEOREM SavedIsNotReplayed == Spec => NoReplayOfSaved
<1>1. IInv /\ [Next]_vars =>
        [place # "yielded" /\ place' = "yielded" => item' > store]_vars
  <2>1. SUFFICES ASSUME IInv, [Next]_vars, place # "yielded", place' = "yielded"
                 PROVE  item' > store
    OBVIOUS
  <2>2. Mapped
    BY <2>1 DEF Next, GeneratorStep, ConsumerStep, vars, Subscribe, CheckpointLoads,
       StreamOpens, StreamRefused, BlockArrives, StreamEnds, ConsumerNext,
       ConsumerReturns, SaveEnds, PolicyDecides, SleepEnds, AbortSeen, Abort, Crash,
       Finished, Commit, GoTo, End, Disconnect, Terminate
  <2>3. item' = item /\ committed < item /\ store = committed
    BY <2>1, <2>2 DEF Mapped, IInv, StreamPosition, StoreIsCommitted
  <2>4. QED
    BY <2>1, <2>3 DEF IInv, SseTypeOK
<1>2. QED
  BY <1>1, IInvHolds, PTL DEF Spec, NoReplayOfSaved

(* An abort is looked at behind every await: nothing is yielded and no     *)
(* save is begun after it (sse-subscription.ts:165, 185, 192).             *)
THEOREM NothingAfterAbort == Spec => AbortIsSilent
<1>1. [Next]_vars => [aborted /\ place' \in {"yielded", "saving"} => place' = place]_vars
  <2>1. SUFFICES ASSUME [Next]_vars, aborted, place' \in {"yielded", "saving"}, place' # place
                 PROVE  FALSE
    OBVIOUS
  <2>2. CASE Mapped \/ ConsumerNext \/ BlockArrives
    BY <2>1, <2>2 DEF Mapped, ConsumerNext, BlockArrives, End, Disconnect
  <2>3. CASE Subscribe \/ CheckpointLoads \/ StreamOpens \/ StreamRefused \/ StreamEnds
    BY <2>1, <2>3 DEF Subscribe, CheckpointLoads, StreamOpens, StreamRefused, StreamEnds,
       End, GoTo, Disconnect, Terminate
  <2>4. CASE SaveEnds \/ PolicyDecides \/ SleepEnds \/ AbortSeen \/ ConsumerReturns
    BY <2>1, <2>4 DEF SaveEnds, PolicyDecides, SleepEnds, AbortSeen, ConsumerReturns,
       End, GoTo, Terminate
  <2>5. CASE Abort \/ Crash \/ UNCHANGED vars
    BY <2>1, <2>5 DEF Abort, Crash, vars
  <2>6. QED
    BY <2>1, <2>2, <2>3, <2>4, <2>5 DEF Next, GeneratorStep, ConsumerStep, Finished
<1>2. QED
  BY <1>1, PTL DEF Spec, AbortIsSilent
=============================================================================
