---------------------------- MODULE HubClientProofs ---------------------------
(***************************************************************************)
(* Proofs about HubDiscovery and HubClient for any finite set of calls,    *)
(* any number of fetches, sessions and credentials.  What is shown of the  *)
(* session (SessionInv) is kept by every step of the client; on top of it  *)
(* stands what a call holds, what is queued and what is in the store.      *)
(***************************************************************************)
EXTENDS HubClient, FiniteSetTheorems, SequenceTheorems, TLAPS

-----------------------------------------------------------------------------
(* The session and its shared discovery.                                   *)

(* Fetches are used in order; the one that can be joined is the latest.    *)
FetchOrder ==
    /\ \A f \in Fetches : stage[f] = "unused" <=> f > started
    /\ pending # NoFetch => pending = started
    /\ discovery <= started
    /\ discovery # NoFetch => stage[discovery] \in {"fulfilled", "settled"}

(* No session of the future is known, and what has not begun is blank.     *)
PastSessions ==
    /\ generation <= MaxGenerations \/ disposed
    /\ \A f \in Fetches : origin[f] <= generation
    /\ \A f \in Fetches : stage[f] = "unused" => ~released[f] /\ waiters[f] = 0
    /\ \A c \in Calls : session[c] <= generation
    /\ \A c \in Calls :
          /\ pc[c] = "idle" =>
                reliesOn[c] = NoFetch /\ outcome[c] = "none" /\ ~aborted[c]
          /\ pc[c] \in {"waiting", "identified"} => outcome[c] = "none"
          /\ reliesOn[c] # NoFetch => stage[reliesOn[c]] # "unused"

(* The verdict of a fetch is what its stage and its liveness allow.        *)
VerdictOfStage ==
    \A f \in Fetches :
        /\ stage[f] \in {"unused", "flight", "answered"} => verdict[f] = "none"
        /\ stage[f] \in {"failed", "caught"} =>
              verdict[f] \in {"mismatch", "failed", "aborted"}
        /\ stage[f] = "answered" => answer[f] # "none"
        /\ stage[f] = "fulfilled" => verdict[f] = "ok"
        /\ stage[f] = "settled" => verdict[f] # "none"
        /\ verdict[f] = "aborted" => ~FetchLive(f)

(* The fetch that can be joined, without the count of its waiters.         *)
PendingIsCurrent ==
    pending # NoFetch =>
        /\ origin[pending] = generation /\ ~disposed
        /\ ~released[pending]
        /\ stage[pending] \notin {"unused", "settled"}

(* A call that waits is live, and so is the fetch it waits for; until that *)
(* fetch has settled it is the one that can be joined.                     *)
WaitingOnLiveFetch ==
    \A c \in Calls :
        pc[c] = "waiting" =>
            /\ Live(c)
            /\ reliesOn[c] # NoFetch
            /\ FetchLive(reliesOn[c])
            /\ stage[reliesOn[c]] # "settled" => pending = reliesOn[c]

WaitersCounted ==
    /\ \A f \in Fetches : waiters[f] = Cardinality(Waiting(Calls, f))
    /\ pending # NoFetch => Waiting(Calls, pending) # {}

(* The calls that know, or are about to hear, that their fetch failed.     *)
ToldOfFailure(c) ==
    /\ reliesOn[c] # NoFetch
    /\ \/ outcome[c] \in {"failed", "mismatch"}
       \/ /\ pc[c] = "waiting"
          /\ stage[reliesOn[c]] \in {"caught", "settled"}
          /\ verdict[reliesOn[c]] \in {"failed", "mismatch"}

FailureInvalidates ==
    \A c \in Calls :
        /\ ToldOfFailure(c) => discovery = NoFetch \/ discovery > reliesOn[c]
        /\ reliesOn[c] # NoFetch /\ outcome[c] \in {"failed", "mismatch"} =>
              stage[reliesOn[c]] = "settled"

(* What every step keeps, those HubClient adds included.                   *)
SessionInv ==
    /\ TypeOK
    /\ FetchOrder
    /\ PastSessions
    /\ VerdictOfStage
    /\ PendingIsCurrent
    /\ WaitingOnLiveFetch
    /\ WaitersCounted
    /\ IdentityOfThisSession
    /\ OneLiveFetch

IInv ==
    /\ SessionInv
    /\ NoForeignAbort
    /\ FailureInvalidates

-----------------------------------------------------------------------------
LEMMA InitInv == Init => IInv
<1> SUFFICES ASSUME Init PROVE IInv
  OBVIOUS
<1> USE BoundsAssumption DEF Init
<1>1. TypeOK
  <2>1. /\ generation \in 0 .. MaxGenerations + 1
        /\ discovery \in Fetches \cup {NoFetch}
        /\ pending \in Fetches \cup {NoFetch}
        /\ started \in 0 .. MaxFetches
    BY DEF NoFetch
  <2>2. /\ stage \in [Fetches -> Stages]
        /\ origin \in [Fetches -> 0 .. MaxGenerations]
        /\ released \in [Fetches -> BOOLEAN]
        /\ waiters \in [Fetches -> Nat]
        /\ answer \in [Fetches -> Documents \cup {"none"}]
        /\ verdict \in [Fetches -> Verdicts]
    BY DEF Stages, Verdicts
  <2>3. /\ pc \in [Calls -> PCs]
        /\ outcome \in [Calls -> Outcomes]
    BY DEF PCs, Outcomes
  <2>4. /\ disposed \in BOOLEAN
        /\ ownerAborted \in BOOLEAN
    OBVIOUS
  <2>5. /\ kind \in [Calls -> AllKinds \cup {"none"}]
        /\ session \in [Calls -> 0 .. MaxGenerations]
        /\ aborted \in [Calls -> BOOLEAN]
    OBVIOUS
  <2>6. reliesOn \in [Calls -> Fetches \cup {NoFetch}]
    OBVIOUS
  <2>7. QED
    BY <2>1, <2>2, <2>3, <2>4, <2>5, <2>6 DEF TypeOK
<1>2. FetchOrder /\ PastSessions /\ VerdictOfStage /\ PendingIsCurrent
  BY DEF FetchOrder, PastSessions, VerdictOfStage, PendingIsCurrent, Fetches,
         NoFetch
<1>3. WaitingOnLiveFetch /\ IdentityOfThisSession /\ OneLiveFetch
  BY DEF WaitingOnLiveFetch, IdentityOfThisSession, OneLiveFetch
<1>4. WaitersCounted
  <2>1. ASSUME NEW f \in Fetches PROVE Waiting(Calls, f) = {}
    BY DEF Waiting
  <2>2. QED
    BY <2>1, FS_EmptySet DEF WaitersCounted
<1>5. NoForeignAbort /\ FailureInvalidates
  BY DEF NoForeignAbort, FailureInvalidates, ToldOfFailure
<1>6. QED
  BY <1>1, <1>2, <1>3, <1>4, <1>5 DEF IInv, SessionInv

-----------------------------------------------------------------------------
(* Counting the calls that wait.                                           *)
LEMMA WaitingFinite ==
    ASSUME NEW S \in SUBSET Calls, NEW f
    PROVE  /\ IsFiniteSet(Waiting(S, f))
           /\ Cardinality(Waiting(S, f)) \in Nat
<1>1. Waiting(S, f) \subseteq Calls
  BY DEF Waiting
<1>2. QED
  BY <1>1, CallsAssumption, FS_Subset, FS_CardinalityType

(* The calls in S take themselves off the counter and nobody else does.    *)
LEMMA LeaveCounts ==
    ASSUME WaitersCounted,
           NEW S \in SUBSET Calls, Leave(S), NEW f \in Fetches,
           Waiting(Calls, f)' = Waiting(Calls, f) \ Waiting(S, f)
    PROVE  /\ waiters'[f] = Cardinality(Waiting(Calls, f)')
           /\ waiters'[f] \in Nat
<1>1. /\ IsFiniteSet(Waiting(Calls, f))
      /\ Waiting(Calls, f) \cap Waiting(S, f) = Waiting(S, f)
  BY WaitingFinite DEF Waiting
<1>2. Cardinality(Waiting(Calls, f) \ Waiting(S, f)) =
        Cardinality(Waiting(Calls, f)) - Cardinality(Waiting(S, f))
  BY <1>1, FS_Difference
<1>3. waiters'[f] = Cardinality(Waiting(Calls, f)')
  BY <1>2 DEF Leave, WaitersCounted
<1>4. /\ IsFiniteSet(Waiting(Calls, f) \ Waiting(S, f))
  BY <1>1, FS_Difference
<1>5. QED
  BY <1>3, <1>4, FS_CardinalityType

(* Nobody waits for a fetch that was not started.                          *)
LEMMA UnusedUnwaited ==
    ASSUME WaitersCounted, PastSessions, NEW f \in Fetches, stage[f] = "unused"
    PROVE  Waiting(Calls, f) = {} /\ waiters[f] = 0
<1>1. waiters[f] = 0
  BY DEF PastSessions
<1>2. Cardinality(Waiting(Calls, f)) = 0
  BY <1>1 DEF WaitersCounted
<1>3. IsFiniteSet(Waiting(Calls, f))
  BY WaitingFinite
<1>4. QED
  BY <1>1, <1>2, <1>3, FS_EmptySet

(* The counter of the current fetch reaches zero exactly when all the      *)
(* calls that wait for it leave.                                           *)
LEMMA AbandonedByAll ==
    ASSUME TypeOK, WaitersCounted, NEW S \in SUBSET Calls
    PROVE  Abandons(S) <=>
             pending # NoFetch /\ Waiting(Calls, pending) \subseteq S
<1>1. CASE pending = NoFetch
  BY <1>1 DEF Abandons
<1>2. CASE pending # NoFetch
  <2>1. pending \in Fetches
    BY <1>2 DEF TypeOK
  <2>2. /\ IsFiniteSet(Waiting(Calls, pending))
        /\ Waiting(S, pending) \in SUBSET Waiting(Calls, pending)
    BY WaitingFinite DEF Waiting
  <2>3. Waiting(Calls, pending) \subseteq S <=>
          Waiting(Calls, pending) = Waiting(S, pending)
    BY DEF Waiting
  <2>4. Cardinality(Waiting(Calls, pending)) = Cardinality(Waiting(S, pending))
          => Waiting(Calls, pending) = Waiting(S, pending)
    BY <2>2, FS_Subset
  <2>5. QED
    BY <1>2, <2>1, <2>3, <2>4 DEF Abandons, WaitersCounted
<1>3. QED
  BY <1>1, <1>2

-----------------------------------------------------------------------------
(* The beginning of a call.                                                *)
LEMMA BeginFetchInv ==
    ASSUME SessionInv, NEW c \in Calls, NEW k \in AllKinds, BeginFetch(c, k)
    PROVE  SessionInv'
<1> USE DEF SessionInv, BeginFetch, Begins, sessionVars
<1>1. started + 1 \in Fetches /\ generation <= MaxGenerations
  BY BoundsAssumption DEF TypeOK, Fetches, PastSessions
<1>2. TypeOK'
  <2>1. /\ stage' \in [Fetches -> Stages] /\ origin' \in [Fetches -> 0 .. MaxGenerations]
        /\ waiters' \in [Fetches -> Nat]
    BY <1>1 DEF TypeOK, Stages
  <2>2. pc' \in [Calls -> PCs] /\ reliesOn' \in [Calls -> Fetches \cup {NoFetch}]
    BY <1>1 DEF TypeOK, PCs
  <2>3. started' \in 0 .. MaxFetches /\ pending' \in Fetches \cup {NoFetch}
    BY <1>1, BoundsAssumption DEF TypeOK, Fetches
  <2>4. QED
    BY <2>1, <2>2, <2>3 DEF TypeOK
<1>3. FetchOrder'
  BY <1>1 DEF TypeOK, FetchOrder, Fetches
<1>4. PastSessions'
  BY <1>1 DEF TypeOK, FetchOrder, PastSessions, Fetches, NoFetch
<1>5. VerdictOfStage'
  BY <1>1 DEF TypeOK, VerdictOfStage, FetchLive, FetchOrder, PastSessions, Fetches, NoFetch
<1>6. PendingIsCurrent'
  BY <1>1 DEF TypeOK, PendingIsCurrent, FetchOrder, PastSessions, Fetches, NoFetch
<1>7. WaitingOnLiveFetch'
  BY <1>1 DEF TypeOK, WaitingOnLiveFetch, Live, FetchLive, FetchOrder, PastSessions, Fetches, NoFetch
<1>8. WaitersCounted'
  <2>1. ASSUME NEW f \in Fetches, f = started + 1, NEW d \in Calls
        PROVE  pc'[d] = "waiting" /\ reliesOn'[d] = f <=> d = c
    <3>1. CASE d = c
      BY <2>1, <3>1 DEF TypeOK
    <3>2. CASE d # c
      <4>1. reliesOn[d] # f
        BY <2>1 DEF TypeOK, FetchOrder, PastSessions, Fetches, NoFetch
      <4>2. QED
        BY <4>1, <3>2 DEF TypeOK
    <3>3. QED
      BY <3>1, <3>2
  <2>2. ASSUME NEW f \in Fetches, f = started + 1
        PROVE  Waiting(Calls, f)' = {c}
    BY <2>1, <2>2 DEF Waiting
  <2>3. ASSUME NEW f \in Fetches, f # started + 1
        PROVE  Waiting(Calls, f)' = Waiting(Calls, f)
    BY <2>3, <1>1 DEF TypeOK, Waiting, FetchOrder, PastSessions, Fetches, NoFetch
  <2>4. pending' = started + 1 /\ started + 1 \in Fetches
    BY <1>1
  <2>5. waiters' = [waiters EXCEPT ![started + 1] = 1] /\ waiters \in [Fetches -> Nat]
    BY DEF TypeOK
  <2>6. \A f \in Fetches : waiters[f] = Cardinality(Waiting(Calls, f))
    BY DEF WaitersCounted
  <2> HIDE DEF SessionInv, BeginFetch, Begins, sessionVars
  <2>7. ASSUME NEW f \in Fetches
        PROVE  waiters'[f] = Cardinality(Waiting(Calls, f)')
    <3>1. CASE f = started + 1
      <4>1. waiters'[f] = 1
        BY <2>5, <3>1
      <4>2. Waiting(Calls, f)' = {c}
        BY <2>2, <3>1
      <4>3. Cardinality({c}) = 1
        BY FS_Singleton
      <4>4. QED
        BY <4>1, <4>2, <4>3
    <3>2. CASE f # started + 1
      <4>1. waiters'[f] = waiters[f]
        BY <2>5, <3>2
      <4>2. Waiting(Calls, f)' = Waiting(Calls, f)
        BY <2>3, <3>2
      <4>3. QED
        BY <2>6, <4>1, <4>2
    <3>3. QED
      BY <3>1, <3>2
  <2>8. Waiting(Calls, pending)' # {}
    BY <2>1, <2>4 DEF Waiting
  <2>9. QED
    BY <2>7, <2>8 DEF WaitersCounted
<1>9. IdentityOfThisSession'
  BY <1>1 DEF TypeOK, IdentityOfThisSession, FetchOrder, PastSessions, Fetches, NoFetch
<1>10. OneLiveFetch'
  BY <1>1 DEF TypeOK, OneLiveFetch, FetchLive, FetchOrder, PastSessions, Fetches, NoFetch
<1>11. QED
  BY <1>1, <1>2, <1>3, <1>4, <1>5, <1>6, <1>7, <1>8, <1>9, <1>10

LEMMA BeginJoinInv ==
    ASSUME SessionInv, NEW c \in Calls, NEW k \in AllKinds, BeginJoin(c, k)
    PROVE  SessionInv'
<1> USE DEF SessionInv, BeginJoin, Begins, sessionVars
<1>1. pending \in Fetches /\ generation <= MaxGenerations
  BY BoundsAssumption DEF TypeOK, PastSessions
<1>2. TypeOK'
  BY <1>1, BoundsAssumption DEF TypeOK, PCs
<1>3. FetchOrder'
  BY <1>1 DEF TypeOK, FetchOrder
<1>4. PastSessions'
  BY <1>1 DEF TypeOK, PastSessions, PendingIsCurrent, NoFetch
<1>5. VerdictOfStage' /\ PendingIsCurrent'
  BY <1>1 DEF TypeOK, VerdictOfStage, PendingIsCurrent, FetchLive
<1>6. WaitingOnLiveFetch'
  BY <1>1 DEF TypeOK, WaitingOnLiveFetch, PendingIsCurrent, PastSessions, Live, FetchLive
<1>7. WaitersCounted'
  <2>1. c \notin Waiting(Calls, pending)
    BY DEF Waiting
  <2>2. Waiting(Calls, pending)' = Waiting(Calls, pending) \cup {c}
    BY <1>1 DEF TypeOK, Waiting
  <2>3. ASSUME NEW f \in Fetches, f # pending
        PROVE  Waiting(Calls, f)' = Waiting(Calls, f)
    BY <2>3, <1>1 DEF TypeOK, Waiting
  <2>4. Cardinality(Waiting(Calls, pending) \cup {c}) =
          Cardinality(Waiting(Calls, pending)) + 1
    BY <2>1, WaitingFinite, FS_AddElement
  <2>5. QED
    BY <1>1, <2>2, <2>3, <2>4 DEF TypeOK, WaitersCounted
<1>8. IdentityOfThisSession' /\ OneLiveFetch'
  BY <1>1 DEF TypeOK, IdentityOfThisSession, OneLiveFetch, FetchLive
<1>9. QED
  BY <1>1, <1>2, <1>3, <1>4, <1>5, <1>6, <1>7, <1>8

LEMMA BeginCachedInv ==
    ASSUME SessionInv, NEW c \in Calls, NEW k \in AllKinds, BeginCached(c, k)
    PROVE  SessionInv'
<1> USE DEF SessionInv, BeginCached, Begins, sessionVars, fetchVars
<1>1. discovery \in Fetches /\ generation <= MaxGenerations
  BY BoundsAssumption DEF TypeOK, PastSessions
<1>2. TypeOK'
  BY <1>1, BoundsAssumption DEF TypeOK, PCs
<1>3. FetchOrder'
  BY DEF FetchOrder
<1>4. PastSessions'
  BY <1>1 DEF TypeOK, FetchOrder, PastSessions, Fetches, NoFetch
<1>5. VerdictOfStage' /\ PendingIsCurrent'
  BY DEF VerdictOfStage, PendingIsCurrent, FetchLive
<1>6. WaitingOnLiveFetch'
  BY DEF TypeOK, WaitingOnLiveFetch, Live, FetchLive
<1>7. WaitersCounted'
  <2>1. \A f : Waiting(Calls, f)' = Waiting(Calls, f)
    BY <1>1 DEF TypeOK, Waiting
  <2>2. QED
    BY <2>1 DEF WaitersCounted
<1>8. IdentityOfThisSession' /\ OneLiveFetch'
  BY DEF IdentityOfThisSession, OneLiveFetch, FetchLive
<1>9. QED
  BY <1>1, <1>2, <1>3, <1>4, <1>5, <1>6, <1>7, <1>8

LEMMA BeginRefusedInv ==
    ASSUME SessionInv, NEW c \in Calls, NEW k \in AllKinds, BeginRefused(c, k)
    PROVE  SessionInv'
<1> USE DEF SessionInv, BeginRefused, Settle, sessionVars, fetchVars
<1>1. TypeOK'
  BY DEF TypeOK, PCs, Outcomes
<1>2. FetchOrder'
  BY DEF FetchOrder
<1>3. PastSessions'
  BY DEF TypeOK, PastSessions
<1>4. VerdictOfStage' /\ PendingIsCurrent'
  BY DEF VerdictOfStage, PendingIsCurrent, FetchLive
<1>5. WaitingOnLiveFetch'
  BY DEF TypeOK, WaitingOnLiveFetch, Live, FetchLive
<1>6. WaitersCounted'
  <2>1. \A f : Waiting(Calls, f)' = Waiting(Calls, f)
    BY DEF Waiting, TypeOK
  <2>2. QED
    BY <2>1 DEF WaitersCounted
<1>7. IdentityOfThisSession' /\ OneLiveFetch'
  BY DEF IdentityOfThisSession, OneLiveFetch, FetchLive
<1>8. QED
  BY <1>1, <1>2, <1>3, <1>4, <1>5, <1>6, <1>7

(* A step that only takes one call from a place where it does not wait to  *)
(* another such place.                                                     *)
LEMMA MoveInv ==
    ASSUME SessionInv, NEW c \in Calls, NEW place \in PCs,
           pc[c] \notin {"idle", "waiting"},
           place \notin {"idle", "waiting", "identified"},
           pc' = [pc EXCEPT ![c] = place],
           \/ outcome' = outcome
           \/ \E r \in Outcomes : outcome' = [outcome EXCEPT ![c] = r],
           UNCHANGED <<sessionVars, fetchVars, kind, session, aborted, reliesOn>>
    PROVE  SessionInv'
<1> USE DEF SessionInv, sessionVars, fetchVars
<1>1. TypeOK'
  BY DEF TypeOK
<1>2. FetchOrder'
  BY DEF FetchOrder
<1>3. PastSessions'
  BY DEF TypeOK, PastSessions
<1>4. VerdictOfStage' /\ PendingIsCurrent'
  BY DEF VerdictOfStage, PendingIsCurrent, FetchLive
<1>5. WaitingOnLiveFetch'
  BY DEF TypeOK, WaitingOnLiveFetch, Live, FetchLive
<1>6. WaitersCounted'
  <2>1. \A f : Waiting(Calls, f)' = Waiting(Calls, f)
    BY DEF Waiting, TypeOK
  <2>2. QED
    BY <2>1 DEF WaitersCounted
<1>7. IdentityOfThisSession' /\ OneLiveFetch'
  BY DEF IdentityOfThisSession, OneLiveFetch, FetchLive
<1>8. QED
  BY <1>1, <1>2, <1>3, <1>4, <1>5, <1>6, <1>7

-----------------------------------------------------------------------------
(* The promise chain of a fetch.                                           *)
LEMMA FetchAnswersInv ==
    ASSUME SessionInv, NEW f \in Fetches, FetchAnswers(f)
    PROVE  SessionInv'
<1> USE DEF SessionInv, FetchAnswers, sessionVars, callVars
<1>1. TypeOK'
  BY DEF TypeOK, Stages, Verdicts, Documents
<1>2. FetchOrder'
  BY DEF TypeOK, FetchOrder, Fetches, NoFetch
<1>3. PastSessions'
  BY DEF TypeOK, PastSessions, NoFetch
<1>4. VerdictOfStage'
  BY DEF TypeOK, VerdictOfStage, FetchLive, Documents
<1>5. PendingIsCurrent'
  BY DEF TypeOK, PendingIsCurrent, OneLiveFetch, FetchLive, NoFetch
<1>6. WaitingOnLiveFetch'
  BY DEF TypeOK, WaitingOnLiveFetch, Live, FetchLive, NoFetch
<1>7. WaitersCounted'
  <2>1. \A g : Waiting(Calls, g)' = Waiting(Calls, g)
    BY DEF Waiting
  <2>2. QED
    BY <2>1 DEF WaitersCounted
<1>8. IdentityOfThisSession'
  BY DEF TypeOK, IdentityOfThisSession, FetchLive, VerdictOfStage, FetchOrder, Fetches, NoFetch, Documents
<1>9. OneLiveFetch'
  BY DEF TypeOK, OneLiveFetch, FetchLive
<1>10. QED
  BY <1>1, <1>2, <1>3, <1>4, <1>5, <1>6, <1>7, <1>8, <1>9

LEMMA FetchFailsInv ==
    ASSUME SessionInv, NEW f \in Fetches, FetchFails(f)
    PROVE  SessionInv'
<1> USE DEF SessionInv, FetchFails, sessionVars, callVars
<1>1. TypeOK'
  BY DEF TypeOK, Stages, Verdicts, Documents
<1>2. FetchOrder'
  BY DEF TypeOK, FetchOrder, Fetches, NoFetch
<1>3. PastSessions'
  BY DEF TypeOK, PastSessions, NoFetch
<1>4. VerdictOfStage'
  BY DEF TypeOK, VerdictOfStage, FetchLive, Documents
<1>5. PendingIsCurrent'
  BY DEF TypeOK, PendingIsCurrent, OneLiveFetch, FetchLive, NoFetch
<1>6. WaitingOnLiveFetch'
  BY DEF TypeOK, WaitingOnLiveFetch, Live, FetchLive, NoFetch
<1>7. WaitersCounted'
  <2>1. \A g : Waiting(Calls, g)' = Waiting(Calls, g)
    BY DEF Waiting
  <2>2. QED
    BY <2>1 DEF WaitersCounted
<1>8. IdentityOfThisSession'
  BY DEF TypeOK, IdentityOfThisSession, FetchLive, VerdictOfStage, FetchOrder, Fetches, NoFetch, Documents
<1>9. OneLiveFetch'
  BY DEF TypeOK, OneLiveFetch, FetchLive
<1>10. QED
  BY <1>1, <1>2, <1>3, <1>4, <1>5, <1>6, <1>7, <1>8, <1>9

LEMMA FetchThenInv ==
    ASSUME SessionInv, NEW f \in Fetches, FetchThen(f)
    PROVE  SessionInv'
<1> USE DEF SessionInv, FetchThen, sessionVars, callVars
<1>1. TypeOK'
  BY DEF TypeOK, Stages, Verdicts, Documents
<1>2. FetchOrder'
  <2>1. f <= started /\ f # NoFetch
    BY DEF TypeOK, FetchOrder, Fetches, NoFetch
  <2>2. /\ started' = started /\ pending' = pending
        /\ \A g \in Fetches : stage'[g] = "unused" <=> stage[g] = "unused"
    BY DEF TypeOK
  <2>3. discovery' = discovery \/ discovery' = f
    OBVIOUS
  <2>4. discovery' # NoFetch => stage'[discovery'] \in {"fulfilled", "settled"}
    <3>1. CASE discovery' = discovery
      BY <3>1 DEF TypeOK, FetchOrder
    <3>2. CASE discovery' = f /\ discovery # f
      BY <3>2 DEF TypeOK
    <3>3. QED
      BY <2>3, <3>1, <3>2
  <2>5. QED
    BY <2>1, <2>2, <2>3, <2>4 DEF FetchOrder
<1>3. PastSessions'
  BY DEF TypeOK, PastSessions, NoFetch
<1>4. VerdictOfStage'
  BY DEF TypeOK, VerdictOfStage, FetchLive, Documents
<1>5. PendingIsCurrent'
  BY DEF TypeOK, PendingIsCurrent, OneLiveFetch, FetchLive, NoFetch
<1>6. WaitingOnLiveFetch'
  BY DEF TypeOK, WaitingOnLiveFetch, Live, FetchLive, NoFetch
<1>7. WaitersCounted'
  <2>1. \A g : Waiting(Calls, g)' = Waiting(Calls, g)
    BY DEF Waiting
  <2>2. QED
    BY <2>1 DEF WaitersCounted
<1>8. IdentityOfThisSession'
  BY DEF TypeOK, IdentityOfThisSession, FetchLive, VerdictOfStage, FetchOrder, Fetches, NoFetch, Documents
<1>9. OneLiveFetch'
  BY DEF TypeOK, OneLiveFetch, FetchLive
<1>10. QED
  BY <1>1, <1>2, <1>3, <1>4, <1>5, <1>6, <1>7, <1>8, <1>9

LEMMA FetchCatchInv ==
    ASSUME SessionInv, NEW f \in Fetches, FetchCatch(f)
    PROVE  SessionInv'
<1> USE DEF SessionInv, FetchCatch, sessionVars, callVars
<1>1. TypeOK'
  BY DEF TypeOK, Stages, Verdicts, Documents
<1>2. FetchOrder'
  BY DEF TypeOK, FetchOrder, Fetches, NoFetch
<1>3. PastSessions'
  BY DEF TypeOK, PastSessions, NoFetch
<1>4. VerdictOfStage'
  BY DEF TypeOK, VerdictOfStage, FetchLive, Documents
<1>5. PendingIsCurrent'
  BY DEF TypeOK, PendingIsCurrent, OneLiveFetch, FetchLive, NoFetch
<1>6. WaitingOnLiveFetch'
  BY DEF TypeOK, WaitingOnLiveFetch, Live, FetchLive, NoFetch
<1>7. WaitersCounted'
  <2>1. \A g : Waiting(Calls, g)' = Waiting(Calls, g)
    BY DEF Waiting
  <2>2. QED
    BY <2>1 DEF WaitersCounted
<1>8. IdentityOfThisSession'
  BY DEF TypeOK, IdentityOfThisSession, FetchLive, VerdictOfStage, FetchOrder, Fetches, NoFetch, Documents
<1>9. OneLiveFetch'
  BY DEF TypeOK, OneLiveFetch, FetchLive
<1>10. QED
  BY <1>1, <1>2, <1>3, <1>4, <1>5, <1>6, <1>7, <1>8, <1>9

LEMMA FetchFinallyInv ==
    ASSUME SessionInv, NEW f \in Fetches, FetchFinally(f)
    PROVE  SessionInv'
<1> USE DEF SessionInv, FetchFinally, sessionVars, callVars
<1>1. TypeOK'
  BY DEF TypeOK, Stages, Verdicts, Documents
<1>2. FetchOrder'
  BY DEF TypeOK, FetchOrder, Fetches, NoFetch
<1>3. PastSessions'
  BY DEF TypeOK, PastSessions, NoFetch
<1>4. VerdictOfStage'
  BY DEF TypeOK, VerdictOfStage, FetchLive, Documents
<1>5. PendingIsCurrent'
  BY DEF TypeOK, PendingIsCurrent, OneLiveFetch, FetchLive, NoFetch
<1>6. WaitingOnLiveFetch'
  BY DEF TypeOK, WaitingOnLiveFetch, Live, FetchLive, NoFetch
<1>7. WaitersCounted'
  <2>1. \A g : Waiting(Calls, g)' = Waiting(Calls, g)
    BY DEF Waiting
  <2>2. QED
    BY <2>1 DEF WaitersCounted
<1>8. IdentityOfThisSession'
  BY DEF TypeOK, IdentityOfThisSession, FetchLive, VerdictOfStage, FetchOrder, Fetches, NoFetch, Documents
<1>9. OneLiveFetch'
  BY DEF TypeOK, OneLiveFetch, FetchLive
<1>10. QED
  BY <1>1, <1>2, <1>3, <1>4, <1>5, <1>6, <1>7, <1>8, <1>9

-----------------------------------------------------------------------------
(* Calls that stop waiting.                                                *)
LEMMA InterruptCounts ==
    ASSUME SessionInv, NEW S \in SUBSET Calls, Interrupt(S), NEW f \in Fetches
    PROVE  /\ Waiting(Calls, f)' = Waiting(Calls, f) \ S
           /\ waiters'[f] = Cardinality(Waiting(Calls, f)')
           /\ waiters'[f] \in Nat
<1>1. Waiting(Calls, f)' = Waiting(Calls, f) \ Waiting(S, f)
  BY DEF Interrupt, Waiting, SessionInv, TypeOK
<1>2. Waiting(Calls, f) \ Waiting(S, f) = Waiting(Calls, f) \ S
  BY DEF Waiting
<1>3. QED
  BY <1>1, <1>2, LeaveCounts DEF Interrupt, SessionInv

(* The interrupted calls reject; the rest still wait for a fetch that was  *)
(* not aborted on their account.                                           *)
LEMMA InterruptTypes ==
    ASSUME SessionInv, NEW S \in SUBSET Calls, Interrupt(S)
    PROVE  /\ stage' = stage /\ origin' = origin /\ started' = started
           /\ answer' = answer /\ verdict' = verdict /\ kind' = kind
           /\ session' = session /\ reliesOn' = reliesOn
           /\ waiters' \in [Fetches -> Nat]
           /\ released' \in [Fetches -> BOOLEAN]
           /\ pc' \in [Calls -> PCs]
           /\ outcome' \in [Calls -> Outcomes]
<1>1. waiters' \in [Fetches -> Nat]
  <2>1. waiters' = [f \in Fetches |-> waiters'[f]]
    BY DEF Interrupt, Leave
  <2>2. QED
    BY <2>1, InterruptCounts
<1>2. released' \in [Fetches -> BOOLEAN]
  BY DEF Interrupt, Leave, SessionInv, TypeOK
<1>3. pc' \in [Calls -> PCs] /\ outcome' \in [Calls -> Outcomes]
  BY DEF Interrupt, SessionInv, TypeOK, PCs, Outcomes
<1>4. QED
  BY <1>1, <1>2, <1>3 DEF Interrupt

LEMMA WaiterResumesInv ==
    ASSUME SessionInv, NEW c \in Calls, WaiterResumes(c)
    PROVE  SessionInv'
<1> USE DEF SessionInv, WaiterResumes, Settle, sessionVars
<1>1. reliesOn[c] \in Fetches /\ pending # reliesOn[c]
  BY DEF TypeOK, WaitingOnLiveFetch, PendingIsCurrent, NoFetch
<1>2. ~Abandons({c}) /\ pending' = pending
  BY <1>1 DEF Abandons, Waiting
<1>3. released' = released
  BY <1>2 DEF Leave, TypeOK
<1>4. \A f \in Fetches : /\ Waiting(Calls, f)' = Waiting(Calls, f) \ Waiting({c}, f)
                         /\ waiters'[f] = Cardinality(Waiting(Calls, f)')
                         /\ waiters'[f] \in Nat
  <2>1. TAKE f \in Fetches
  <2>2. Waiting(Calls, f)' = Waiting(Calls, f) \ Waiting({c}, f)
    BY DEF TypeOK, Waiting
  <2>3. QED
    BY <2>2, LeaveCounts
<1>5. TypeOK'
  <2>1. waiters' \in [Fetches -> Nat]
    BY <1>4 DEF Leave
  <2>2. pc' \in [Calls -> PCs] /\ outcome' \in [Calls -> Outcomes]
    BY <1>1 DEF TypeOK, PCs, Outcomes, Verdicts
  <2>3. QED
    BY <1>2, <1>3, <2>1, <2>2 DEF TypeOK
<1>6. FetchOrder'
  BY <1>2 DEF FetchOrder
<1>7. PastSessions'
  <2>1. \A f \in Fetches : stage[f] = "unused" => waiters'[f] = 0
    <3>1. SUFFICES ASSUME NEW f \in Fetches, stage[f] = "unused"
                   PROVE  waiters'[f] = 0
      OBVIOUS
    <3>2. Waiting(Calls, f) = {}
      BY <3>1, UnusedUnwaited
    <3>3. Waiting(Calls, f)' = {}
      BY <1>4, <3>2
    <3>4. QED
      BY <1>4, <3>3, FS_EmptySet
  <2>2. QED
    BY <1>3, <2>1 DEF TypeOK, PastSessions
<1>8. VerdictOfStage' /\ PendingIsCurrent'
  BY <1>2, <1>3 DEF VerdictOfStage, PendingIsCurrent, FetchLive
<1>9. WaitingOnLiveFetch'
  BY <1>2, <1>3 DEF TypeOK, WaitingOnLiveFetch, Live, FetchLive
<1>10. WaitersCounted'
  <2>1. pending # NoFetch => Waiting(Calls, pending)' = Waiting(Calls, pending)
    BY <1>1, <1>2 DEF TypeOK, Waiting
  <2>2. QED
    BY <1>2, <1>4, <2>1 DEF WaitersCounted
<1>11. IdentityOfThisSession' /\ OneLiveFetch'
  BY <1>2, <1>3 DEF IdentityOfThisSession, OneLiveFetch, FetchLive
<1>12. QED
  BY <1>1, <1>2, <1>3, <1>4, <1>5, <1>6, <1>7, <1>8, <1>9, <1>10, <1>11

LEMMA CallerAbortsInv ==
    ASSUME SessionInv, NEW c \in Calls, CallerAborts(c)
    PROVE  SessionInv'
<1> USE DEF SessionInv, CallerAborts, sessionVars
<1>1. Abandons({c}) <=> pending # NoFetch /\ Waiting(Calls, pending) \subseteq {c}
  BY AbandonedByAll
<1>2. \A f \in Fetches : released'[f] <=> released[f] \/ (f = pending /\ Abandons({c}))
  BY DEF Interrupt, Leave
<1>3. TypeOK'
  BY InterruptTypes DEF TypeOK
<1>4. FetchOrder'
  BY InterruptTypes DEF FetchOrder
<1>5. PastSessions'
  <2>1. \A f \in Fetches : stage[f] = "unused" => waiters'[f] = 0 /\ ~released'[f]
    <3>1. SUFFICES ASSUME NEW f \in Fetches, stage[f] = "unused"
                   PROVE  waiters'[f] = 0 /\ ~released'[f]
      OBVIOUS
    <3>2. Waiting(Calls, f) = {}
      BY <3>1, UnusedUnwaited
    <3>3. Waiting(Calls, f)' = {} /\ waiters'[f] = Cardinality(Waiting(Calls, f)')
      BY <3>2, InterruptCounts
    <3>4. f # pending
      BY <3>1 DEF PendingIsCurrent, NoFetch, Fetches
    <3>5. QED
      BY <3>1, <3>3, <3>4, <1>2, FS_EmptySet DEF PastSessions
  <2>2. QED
    BY <2>1, InterruptTypes DEF TypeOK, PastSessions, Interrupt
<1>6. VerdictOfStage' /\ PendingIsCurrent'
  BY <1>2, InterruptTypes DEF TypeOK, VerdictOfStage, PendingIsCurrent, FetchLive
<1>7. WaitingOnLiveFetch'
  <2>1. SUFFICES ASSUME NEW d \in Calls, pc'[d] = "waiting"
                 PROVE  /\ Live(d)'
                        /\ reliesOn'[d] # NoFetch
                        /\ FetchLive(reliesOn[d])'
                        /\ stage'[reliesOn'[d]] # "settled" => pending' = reliesOn'[d]
    BY InterruptTypes DEF WaitingOnLiveFetch
  <2>2. d \notin {c} /\ pc[d] = "waiting" /\ aborted'[d] = aborted[d]
    BY <2>1 DEF Interrupt, TypeOK
  <2>3. reliesOn[d] = pending => ~Abandons({c})
    BY <1>1, <2>2 DEF Waiting
  <2>4. /\ Live(d)
        /\ reliesOn[d] \in Fetches
        /\ FetchLive(reliesOn[d])
        /\ stage[reliesOn[d]] # "settled" => pending = reliesOn[d]
    BY <2>2 DEF TypeOK, WaitingOnLiveFetch
  <2>5. reliesOn' = reliesOn /\ stage' = stage /\ origin' = origin /\ session' = session
    BY InterruptTypes
  <2>6. ~released'[reliesOn[d]]
    BY <1>2, <2>3, <2>4 DEF FetchLive
  <2>7. Live(d)' /\ FetchLive(reliesOn[d])'
    BY <2>2, <2>4, <2>5, <2>6 DEF Live, FetchLive
  <2>8. stage'[reliesOn'[d]] # "settled" => pending' = reliesOn'[d]
    BY <2>3, <2>4, <2>5
  <2>9. QED
    BY <2>4, <2>5, <2>7, <2>8 DEF Fetches, NoFetch
<1>8. WaitersCounted'
  <2>1. pending' # NoFetch => pending' = pending /\ ~(Waiting(Calls, pending) \subseteq {c})
    BY <1>1
  <2>2. pending' # NoFetch => Waiting(Calls, pending)' # {}
    BY <2>1, InterruptCounts DEF TypeOK
  <2>3. QED
    BY <2>2, InterruptCounts DEF WaitersCounted
<1>9. IdentityOfThisSession' /\ OneLiveFetch'
  BY <1>2, InterruptTypes DEF TypeOK, IdentityOfThisSession, OneLiveFetch, FetchLive
<1>10. QED
  BY <1>1, <1>2, <1>3, <1>4, <1>5, <1>6, <1>7, <1>8, <1>9

LEMMA OwnerAbortsInv ==
    ASSUME SessionInv, OwnerAborts
    PROVE  SessionInv'
<1> USE DEF SessionInv, OwnerAborts, sessionVars
<1>1. Abandons(Calls) <=> pending # NoFetch /\ Waiting(Calls, pending) \subseteq Calls
  BY AbandonedByAll
<1>2. \A f \in Fetches : released'[f] <=> released[f] \/ (f = pending /\ Abandons(Calls))
  BY DEF Interrupt, Leave
<1>3. TypeOK'
  BY InterruptTypes DEF TypeOK
<1>4. FetchOrder'
  BY InterruptTypes DEF FetchOrder
<1>5. PastSessions'
  <2>1. \A f \in Fetches : stage[f] = "unused" => waiters'[f] = 0 /\ ~released'[f]
    <3>1. SUFFICES ASSUME NEW f \in Fetches, stage[f] = "unused"
                   PROVE  waiters'[f] = 0 /\ ~released'[f]
      OBVIOUS
    <3>2. Waiting(Calls, f) = {}
      BY <3>1, UnusedUnwaited
    <3>3. Waiting(Calls, f)' = {} /\ waiters'[f] = Cardinality(Waiting(Calls, f)')
      BY <3>2, InterruptCounts
    <3>4. f # pending
      BY <3>1 DEF PendingIsCurrent, NoFetch, Fetches
    <3>5. QED
      BY <3>1, <3>3, <3>4, <1>2, FS_EmptySet DEF PastSessions
  <2>2. QED
    BY <2>1, InterruptTypes DEF TypeOK, PastSessions, Interrupt
<1>6. VerdictOfStage' /\ PendingIsCurrent'
  BY <1>2, InterruptTypes DEF TypeOK, VerdictOfStage, PendingIsCurrent, FetchLive
<1>7. WaitingOnLiveFetch'
  <2>1. SUFFICES ASSUME NEW d \in Calls, pc'[d] = "waiting"
                 PROVE  /\ Live(d)'
                        /\ reliesOn'[d] # NoFetch
                        /\ FetchLive(reliesOn[d])'
                        /\ stage'[reliesOn'[d]] # "settled" => pending' = reliesOn'[d]
    BY InterruptTypes DEF WaitingOnLiveFetch
  <2>2. d \notin Calls /\ pc[d] = "waiting"
    BY <2>1 DEF Interrupt, TypeOK
  <2>3. reliesOn[d] = pending => ~Abandons(Calls)
    BY <1>1, <2>2 DEF Waiting
  <2>4. QED
    BY <1>2, <2>2, <2>3, InterruptTypes DEF TypeOK, WaitingOnLiveFetch, Live, FetchLive
<1>8. WaitersCounted'
  <2>1. pending' # NoFetch => pending' = pending /\ ~(Waiting(Calls, pending) \subseteq Calls)
    BY <1>1
  <2>2. pending' # NoFetch => Waiting(Calls, pending)' # {}
    BY <2>1, InterruptCounts DEF TypeOK
  <2>3. QED
    BY <2>2, InterruptCounts DEF WaitersCounted
<1>9. IdentityOfThisSession' /\ OneLiveFetch'
  BY <1>2, InterruptTypes DEF TypeOK, IdentityOfThisSession, OneLiveFetch, FetchLive
<1>10. QED
  BY <1>1, <1>2, <1>3, <1>4, <1>5, <1>6, <1>7, <1>8, <1>9

-----------------------------------------------------------------------------
(* The end of a session.                                                   *)
LEMMA EndSessionInv ==
    ASSUME SessionInv, EndSession,
           disposed' \in BOOLEAN, generation' <= MaxGenerations \/ disposed'
    PROVE  SessionInv'
<1> USE DEF SessionInv, EndSession
<1>1. generation \in 0 .. MaxGenerations /\ InSession \in SUBSET Calls
  BY BoundsAssumption DEF TypeOK, PastSessions, InSession
<1>2. \A f \in Fetches : released'[f] <=> released[f] \/ (f = pending /\ Abandons(InSession))
  BY DEF Interrupt, Leave
<1>3. \A c \in Calls : pc'[c] # "waiting"
  BY DEF Interrupt, TypeOK, WaitingOnLiveFetch, Live, InSession
<1>4. TypeOK'
  BY <1>1, InterruptTypes, BoundsAssumption DEF TypeOK, NoFetch
<1>5. FetchOrder'
  BY <1>1, InterruptTypes DEF TypeOK, FetchOrder, NoFetch
<1>6. PastSessions'
  <2>1. \A f \in Fetches : stage[f] = "unused" => waiters'[f] = 0 /\ ~released'[f]
    <3>1. SUFFICES ASSUME NEW f \in Fetches, stage[f] = "unused"
                   PROVE  waiters'[f] = 0 /\ ~released'[f]
      OBVIOUS
    <3>2. Waiting(Calls, f)' = {} /\ waiters'[f] = Cardinality(Waiting(Calls, f)')
      BY <1>1, <1>3, InterruptCounts DEF Waiting
    <3>3. f # pending
      BY <3>1 DEF PendingIsCurrent, NoFetch, Fetches
    <3>4. QED
      BY <3>1, <3>2, <3>3, <1>2, FS_EmptySet DEF PastSessions
  <2>2. QED
    BY <1>1, <2>1, InterruptTypes DEF TypeOK, PastSessions, Interrupt
<1>7. VerdictOfStage' /\ PendingIsCurrent'
  BY <1>1, <1>2, InterruptTypes DEF TypeOK, VerdictOfStage, PendingIsCurrent, FetchLive, PastSessions
<1>8. WaitingOnLiveFetch'
  BY <1>3 DEF WaitingOnLiveFetch
<1>9. WaitersCounted'
  BY <1>1, InterruptCounts DEF WaitersCounted
<1>10. IdentityOfThisSession' /\ OneLiveFetch'
  BY <1>1, InterruptTypes DEF TypeOK, IdentityOfThisSession, OneLiveFetch, FetchLive, PastSessions
<1>11. QED
  BY <1>1, <1>2, <1>3, <1>4, <1>5, <1>6, <1>7, <1>8, <1>9, <1>10

LEMMA StutterInv ==
    ASSUME SessionInv, UNCHANGED vars
    PROVE  SessionInv'
<1> USE DEF SessionInv, vars, sessionVars, fetchVars, callVars
<1>1. TypeOK'
  BY DEF TypeOK
<1>2. FetchOrder' /\ PastSessions' /\ VerdictOfStage'
  BY DEF FetchOrder, PastSessions, VerdictOfStage, FetchLive
<1>3. PendingIsCurrent' /\ WaitingOnLiveFetch'
  BY DEF PendingIsCurrent, WaitingOnLiveFetch, Live, FetchLive
<1>4. WaitersCounted'
  BY DEF WaitersCounted, Waiting
<1>5. IdentityOfThisSession' /\ OneLiveFetch'
  BY DEF IdentityOfThisSession, OneLiveFetch, FetchLive
<1>6. QED
  BY <1>1, <1>2, <1>3, <1>4, <1>5

-----------------------------------------------------------------------------
(* Every step keeps the state of the session and its fetches consistent.   *)
LEMMA NextSessionInv ==
    ASSUME SessionInv, [Next]_vars
    PROVE  SessionInv'
<1>1. ASSUME NEW c \in Calls, NEW k \in Kinds, BeginRefused(c, k) PROVE SessionInv'
  BY <1>1, BeginRefusedInv, KindsAssumption
<1>2. ASSUME NEW c \in Calls, NEW k \in Kinds, BeginCached(c, k) PROVE SessionInv'
  BY <1>2, BeginCachedInv, KindsAssumption
<1>3. ASSUME NEW c \in Calls, NEW k \in Kinds, BeginJoin(c, k) PROVE SessionInv'
  BY <1>3, BeginJoinInv, KindsAssumption
<1>4. ASSUME NEW c \in Calls, NEW k \in Kinds, BeginFetch(c, k) PROVE SessionInv'
  BY <1>4, BeginFetchInv, KindsAssumption
<1>5. ASSUME NEW c \in Calls, WaiterResumes(c) PROVE SessionInv'
  BY <1>5, WaiterResumesInv
<1>6. ASSUME NEW c \in Calls, Proceed(c) PROVE SessionInv'
  <2>1. \E place \in {"done", "ready"} : pc' = [pc EXCEPT ![c] = place]
    BY <1>6 DEF Proceed, Settle
  <2>2. \/ outcome' = outcome
        \/ \E r \in {"aborted", "unsupported"} : outcome' = [outcome EXCEPT ![c] = r]
    BY <1>6 DEF Proceed, Settle
  <2>3. /\ pc[c] = "identified"
        /\ UNCHANGED <<sessionVars, fetchVars, kind, session, aborted, reliesOn>>
    BY <1>6 DEF Proceed
  <2>4. {"done", "ready"} \subseteq PCs /\ {"aborted", "unsupported"} \subseteq Outcomes
    BY DEF PCs, Outcomes
  <2>5. QED
    BY <2>1, <2>2, <2>3, <2>4, MoveInv
<1>14. ASSUME NEW c \in Calls, DiscoverReturns(c) PROVE SessionInv'
  <2>1. "done" \in PCs /\ "ok" \in Outcomes
    BY DEF PCs, Outcomes
  <2>2. QED
    BY <1>14, <2>1, MoveInv DEF DiscoverReturns, Settle
<1>7. ASSUME NEW c \in Calls, CallerAborts(c) PROVE SessionInv'
  BY <1>7, CallerAbortsInv
<1>8. ASSUME NEW f \in Fetches, FetchStep(f) PROVE SessionInv'
  BY <1>8, FetchAnswersInv, FetchFailsInv, FetchThenInv, FetchCatchInv,
     FetchFinallyInv DEF FetchStep
<1>9. CASE OwnerAborts
  BY <1>9, OwnerAbortsInv
<1>10. CASE Logout
  <2>1. disposed' \in BOOLEAN /\ generation' <= MaxGenerations
    BY <1>10, BoundsAssumption DEF Logout, EndSession, SessionInv, TypeOK
  <2>2. QED
    BY <1>10, <2>1, EndSessionInv DEF Logout
<1>11. CASE Dispose
  BY <1>11, EndSessionInv DEF Dispose
<1>12. CASE UNCHANGED vars
  BY <1>12, StutterInv
<1>13. QED
  BY <1>1, <1>2, <1>3, <1>4, <1>5, <1>6, <1>7, <1>8, <1>9, <1>10, <1>11, <1>12, <1>14
     DEF Next, CallStep, Continue, Begin, Quiescent

(* Once a call has a reason to be aborted, the reason stays.               *)
LEMMA NextForeignAbort ==
    ASSUME SessionInv, NoForeignAbort, [Next]_vars
    PROVE  NoForeignAbort'
<1> USE DEF SessionInv
<1> SUFFICES ASSUME NEW d \in Calls, outcome'[d] = "aborted"
             PROVE  aborted'[d] \/ ownerAborted' \/ disposed' \/ session'[d] # generation'
  BY DEF NoForeignAbort
<1>1. ASSUME NEW c \in Calls, NEW k \in Kinds, BeginRefused(c, k)
      PROVE  aborted'[d] \/ ownerAborted' \/ disposed' \/ session'[d] # generation'
  BY <1>1 DEF BeginRefused, Settle, NoForeignAbort, TypeOK, sessionVars
<1>2. ASSUME NEW c \in Calls, NEW k \in Kinds,
             BeginCached(c, k) \/ BeginJoin(c, k) \/ BeginFetch(c, k)
      PROVE  aborted'[d] \/ ownerAborted' \/ disposed' \/ session'[d] # generation'
  <2>1. outcome' = outcome /\ d # c
    BY <1>2 DEF BeginCached, BeginJoin, BeginFetch, Begins, PastSessions
  <2>2. /\ UNCHANGED <<generation, disposed, ownerAborted, aborted>>
        /\ session'[d] = session[d]
    BY <1>2, <2>1 DEF BeginCached, BeginJoin, BeginFetch, Begins, sessionVars, TypeOK
  <2>3. QED
    BY <2>1, <2>2 DEF NoForeignAbort
<1>3. ASSUME NEW c \in Calls, WaiterResumes(c)
      PROVE  aborted'[d] \/ ownerAborted' \/ disposed' \/ session'[d] # generation'
  <2>1. verdict[reliesOn[c]] # "aborted" /\ Live(c)
    BY <1>3 DEF WaiterResumes, WaitingOnLiveFetch, VerdictOfStage, TypeOK
  <2>2. outcome'[d] = outcome[d]
    BY <1>3, <2>1 DEF WaiterResumes, Settle, TypeOK
  <2>3. QED
    BY <1>3, <2>2 DEF WaiterResumes, sessionVars, NoForeignAbort
<1>4. ASSUME NEW c \in Calls, Proceed(c)
      PROVE  aborted'[d] \/ ownerAborted' \/ disposed' \/ session'[d] # generation'
  BY <1>4 DEF Proceed, Settle, Live, NoForeignAbort, TypeOK, sessionVars
<1>11. ASSUME NEW c \in Calls, DiscoverReturns(c)
      PROVE  aborted'[d] \/ ownerAborted' \/ disposed' \/ session'[d] # generation'
  BY <1>11 DEF DiscoverReturns, Settle, NoForeignAbort, TypeOK, sessionVars
<1>5. ASSUME NEW c \in Calls, CallerAborts(c)
      PROVE  aborted'[d] \/ ownerAborted' \/ disposed' \/ session'[d] # generation'
  BY <1>5 DEF CallerAborts, Interrupt, NoForeignAbort, TypeOK, sessionVars
<1>6. ASSUME NEW f \in Fetches, FetchStep(f)
      PROVE  aborted'[d] \/ ownerAborted' \/ disposed' \/ session'[d] # generation'
  BY <1>6 DEF FetchStep, FetchAnswers, FetchFails, FetchThen, FetchCatch, FetchFinally,
              NoForeignAbort, sessionVars, callVars
<1>7. CASE OwnerAborts
  BY <1>7 DEF OwnerAborts
<1>8. CASE EndSession
  <2>1. generation' = generation + 1 /\ session'[d] = session[d] /\ session[d] <= generation
    BY <1>8 DEF EndSession, Interrupt, PastSessions
  <2>2. QED
    BY <2>1, BoundsAssumption DEF TypeOK
<1>9. CASE UNCHANGED vars
  BY <1>9 DEF vars, sessionVars, callVars, NoForeignAbort
<1>10. QED
  BY <1>1, <1>2, <1>3, <1>4, <1>5, <1>6, <1>7, <1>8, <1>9, <1>11
     DEF Next, CallStep, Continue, Begin, Logout, Dispose, Quiescent

(* A caller that was told of a failed refresh never sees the identity that *)
(* refresh should have replaced.                                           *)
LEMMA NextFailure ==
    ASSUME SessionInv, FailureInvalidates, [Next]_vars
    PROVE  FailureInvalidates'
<1> USE DEF SessionInv
<1> DEFINE Good(d) ==
      /\ ToldOfFailure(d) => discovery = NoFetch \/ discovery > reliesOn[d]
      /\ reliesOn[d] # NoFetch /\ outcome[d] \in {"failed", "mismatch"} =>
            stage[reliesOn[d]] = "settled"
<1> SUFFICES ASSUME NEW d \in Calls, Good(d)
             PROVE  Good(d)'
  BY DEF FailureInvalidates
<1>1. ASSUME NEW c \in Calls, NEW k \in Kinds, BeginRefused(c, k) PROVE Good(d)'
  BY <1>1 DEF BeginRefused, Settle, ToldOfFailure, TypeOK, PastSessions, sessionVars, fetchVars
<1>2. ASSUME NEW c \in Calls, NEW k \in Kinds, BeginCached(c, k) PROVE Good(d)'
  BY <1>2 DEF BeginCached, Begins, ToldOfFailure, TypeOK, PastSessions, fetchVars
<1>3. ASSUME NEW c \in Calls, NEW k \in Kinds, BeginJoin(c, k) PROVE Good(d)'
  <2>1. CASE d # c
    BY <1>3, <2>1 DEF BeginJoin, Begins, ToldOfFailure, TypeOK
  <2>2. CASE d = c
    <3>1. PICK w \in Calls : pc[w] = "waiting" /\ reliesOn[w] = pending
      BY <1>3 DEF BeginJoin, WaitersCounted, Waiting
    <3>2. /\ outcome'[d] = "none"
          /\ reliesOn'[d] = pending
          /\ UNCHANGED <<discovery, stage, verdict>>
      BY <1>3, <2>2 DEF BeginJoin, Begins, TypeOK, PastSessions
    <3>3. ToldOfFailure(d)' => ToldOfFailure(w)
      BY <3>1, <3>2 DEF ToldOfFailure
    <3>4. QED
      BY <3>1, <3>2, <3>3 DEF FailureInvalidates
  <2>3. QED
    BY <2>1, <2>2
<1>4. ASSUME NEW c \in Calls, NEW k \in Kinds, BeginFetch(c, k) PROVE Good(d)'
  <2>1. started + 1 \in Fetches
    BY <1>4, BoundsAssumption DEF BeginFetch, TypeOK, Fetches
  <2>2. stage[started + 1] = "unused"
    BY <2>1 DEF FetchOrder, TypeOK, Fetches
  <2>3. CASE d = c
    BY <1>4, <2>1, <2>3 DEF BeginFetch, Begins, ToldOfFailure, TypeOK, PastSessions
  <2>4. CASE d # c
    <3>1. /\ reliesOn'[d] = reliesOn[d] /\ pc'[d] = pc[d]
          /\ UNCHANGED <<discovery, outcome, verdict>>
      BY <1>4, <2>4 DEF BeginFetch, Begins, TypeOK
    <3>2. reliesOn[d] # NoFetch => stage'[reliesOn[d]] = stage[reliesOn[d]]
      BY <1>4, <2>2 DEF BeginFetch, PastSessions, TypeOK
    <3>3. QED
      BY <3>1, <3>2 DEF ToldOfFailure
  <2>5. QED
    BY <2>3, <2>4
<1>5. ASSUME NEW c \in Calls, WaiterResumes(c) PROVE Good(d)'
  <2>1. /\ reliesOn[c] # NoFetch
        /\ stage[reliesOn[c]] = "settled"
        /\ UNCHANGED <<discovery, stage, verdict, reliesOn>>
    BY <1>5 DEF WaiterResumes, WaitingOnLiveFetch
  <2>2. CASE d = c
    <3>1. outcome[d] = "none"
      BY <1>5, <2>2 DEF WaiterResumes, PastSessions
    <3>2. ToldOfFailure(d)' => ToldOfFailure(d)
      BY <1>5, <2>1, <2>2, <3>1 DEF WaiterResumes, Settle, ToldOfFailure, TypeOK
    <3>3. QED
      BY <2>1, <2>2, <3>2
  <2>3. CASE d # c
    BY <1>5, <2>1, <2>3 DEF WaiterResumes, Settle, ToldOfFailure, TypeOK
  <2>4. QED
    BY <2>2, <2>3
<1>6. ASSUME NEW c \in Calls, Proceed(c) PROVE Good(d)'
  BY <1>6 DEF Proceed, Settle, ToldOfFailure, TypeOK, fetchVars
<1>17. ASSUME NEW c \in Calls, DiscoverReturns(c) PROVE Good(d)'
  BY <1>17 DEF DiscoverReturns, Settle, ToldOfFailure, TypeOK, fetchVars
<1>7. ASSUME NEW c \in Calls, CallerAborts(c) PROVE Good(d)'
  BY <1>7 DEF CallerAborts, Interrupt, ToldOfFailure, TypeOK
<1>8. ASSUME NEW f \in Fetches, FetchAnswers(f) PROVE Good(d)'
  BY <1>8 DEF FetchAnswers, ToldOfFailure, TypeOK, callVars
<1>9. ASSUME NEW f \in Fetches, FetchFails(f) PROVE Good(d)'
  BY <1>9 DEF FetchFails, ToldOfFailure, TypeOK, callVars
<1>10. ASSUME NEW f \in Fetches, FetchThen(f) PROVE Good(d)'
  <2>1. /\ UNCHANGED <<pc, reliesOn, outcome>>
        /\ stage'[f] \in {"failed", "fulfilled"}
        /\ \A g \in Fetches \ {f} : stage'[g] = stage[g] /\ verdict'[g] = verdict[g]
        /\ discovery' = discovery \/ (discovery' = f /\ FetchLive(f))
    BY <1>10 DEF FetchThen, callVars, TypeOK
  <2>2. ToldOfFailure(d)' => reliesOn[d] # f /\ ToldOfFailure(d)
    BY <1>10, <2>1 DEF FetchThen, ToldOfFailure, TypeOK
  <2>3. CASE discovery' = discovery
    BY <1>10, <2>1, <2>2, <2>3 DEF FetchThen, TypeOK
  <2>4. CASE discovery' = f /\ FetchLive(f)
    <3>1. f = started
      BY <1>10, <2>4 DEF FetchThen, OneLiveFetch, FetchOrder, Fetches, NoFetch
    <3>2. ToldOfFailure(d)' => reliesOn[d] < f
      BY <2>2, <3>1 DEF ToldOfFailure, PastSessions, FetchOrder, TypeOK, Fetches, NoFetch
    <3>3. QED
      BY <1>10, <2>1, <2>4, <3>2 DEF FetchThen, TypeOK
  <2>5. QED
    BY <2>1, <2>3, <2>4
<1>11. ASSUME NEW f \in Fetches, FetchCatch(f) PROVE Good(d)'
  <2>1. CASE discovery' = NoFetch
    BY <1>11, <2>1 DEF FetchCatch, callVars, TypeOK
  <2>2. CASE discovery' = discovery /\ ~(pending = f /\ FetchLive(f))
    <3>1. pc[d] = "waiting" => reliesOn[d] # f
      BY <1>11, <2>2 DEF FetchCatch, WaitingOnLiveFetch
    <3>2. QED
      BY <1>11, <2>2, <3>1 DEF FetchCatch, ToldOfFailure, callVars, TypeOK
  <2>3. QED
    BY <1>11, <2>1, <2>2 DEF FetchCatch, FetchLive
<1>12. ASSUME NEW f \in Fetches, FetchFinally(f) PROVE Good(d)'
  <2>1. /\ UNCHANGED <<pc, reliesOn, outcome, discovery, verdict>>
        /\ stage'[f] = "settled"
        /\ \A g \in Fetches \ {f} : stage'[g] = stage[g]
    BY <1>12 DEF FetchFinally, callVars, TypeOK
  <2>2. stage[f] = "caught" \/ verdict[f] = "ok"
    BY <1>12 DEF FetchFinally, VerdictOfStage
  <2>3. ToldOfFailure(d)' => ToldOfFailure(d)
    BY <2>1, <2>2 DEF ToldOfFailure, TypeOK
  <2>4. QED
    BY <2>1, <2>3 DEF TypeOK
<1>13. CASE OwnerAborts
  BY <1>13 DEF OwnerAborts, Interrupt, ToldOfFailure, TypeOK
<1>14. CASE EndSession
  BY <1>14 DEF EndSession, Interrupt, ToldOfFailure, TypeOK
<1>15. CASE UNCHANGED vars
  BY <1>15 DEF vars, fetchVars, callVars, ToldOfFailure
<1>16. QED
  BY <1>1, <1>2, <1>3, <1>4, <1>5, <1>6, <1>7, <1>8, <1>9, <1>10, <1>11, <1>12,
     <1>13, <1>14, <1>15, <1>17
     DEF Next, CallStep, Continue, FetchStep, Begin, Logout, Dispose, Quiescent

-----------------------------------------------------------------------------
(* What SessionInv says about the properties of HubDiscovery.              *)
LEMMA WaitersPositive ==
    ASSUME TypeOK, WaitersCounted, PendingIsCurrent
    PROVE  FetchIsJoinable
<1>1. ASSUME pending # NoFetch PROVE waiters[pending] > 0
  <2>1. pending \in Fetches /\ Waiting(Calls, pending) # {}
    BY <1>1 DEF TypeOK, WaitersCounted
  <2>2. Cardinality(Waiting(Calls, pending)) # 0
    BY <2>1, WaitingFinite, FS_EmptySet
  <2>3. QED
    BY <2>1, <2>2, WaitingFinite DEF WaitersCounted
<1>2. QED
  BY <1>1 DEF WaitersCounted, PendingIsCurrent, FetchIsJoinable

LEMMA WaitingIsLive ==
    ASSUME TypeOK, WaitingOnLiveFetch
    PROVE  WaitingCallsAreLive
BY DEF TypeOK, WaitingOnLiveFetch, WaitingCallsAreLive, Live, FetchLive

(* The invariant everything below rests on: a call that waits and the      *)
(* fetch it waits for are always both live, the counter is exact, and the  *)
(* fetch one can join is the latest (client.ts:158-240, 447-466).          *)
THEOREM IInvHolds == Spec => []IInv
<1>1. Init => IInv
  BY InitInv
<1>2. IInv /\ [Next]_vars => IInv'
  BY NextSessionInv, NextForeignAbort, NextFailure DEF IInv
<1>3. QED
  BY <1>1, <1>2, PTL DEF Spec

(* The client's fields always hold values of their types.                  *)
THEOREM TypeCorrect == Spec => []TypeOK
<1>1. IInv => TypeOK
  BY DEF IInv, SessionInv
<1>2. QED
  BY <1>1, IInvHolds, PTL

(* No identity outlives its session: whatever discovery was under way when *)
(* logout() or dispose() ran, what is cached was answered to the session   *)
(* that is current (client.ts:176-182, 447-466).                           *)
THEOREM IdentityIsOfThisSession == Spec => []IdentityOfThisSession
<1>1. IInv => IdentityOfThisSession
  BY DEF IInv, SessionInv
<1>2. QED
  BY <1>1, IInvHolds, PTL

(* PendingDiscovery.waiters is the number of calls that wait, so the fetch *)
(* that #discover() lets a call join is one nobody has aborted             *)
(* (client.ts:162-164, 203-240).                                           *)
THEOREM PendingIsJoinable == Spec => []FetchIsJoinable
<1>1. IInv => FetchIsJoinable
  BY WaitersPositive DEF IInv, SessionInv
<1>2. QED
  BY <1>1, IInvHolds, PTL

(* At most one fetch can still fill the cache (client.ts:162-201).         *)
THEOREM AtMostOneLiveFetch == Spec => []OneLiveFetch
<1>1. IInv => OneLiveFetch
  BY DEF IInv, SessionInv
<1>2. QED
  BY <1>1, IInvHolds, PTL

(* A call fails with "aborted" only if a signal of its own aborted or its  *)
(* session ended, never because others left (client.ts:209-223).           *)
THEOREM AbortsAreOnesOwn == Spec => []NoForeignAbort
<1>1. IInv => NoForeignAbort
  BY DEF IInv
<1>2. QED
  BY <1>1, IInvHolds, PTL

(* A failed or mismatched refresh, once reported, has invalidated the      *)
(* identity it was to replace (client.ts:183-192).                         *)
THEOREM FailureClearsIdentity == Spec => []FailedRefreshInvalidates
<1>1. IInv => FailedRefreshInvalidates
  BY DEF IInv, FailureInvalidates, FailedRefreshInvalidates, ToldOfFailure
<1>2. QED
  BY <1>1, IInvHolds, PTL

(* Abort listeners leave no call behind (client.ts:225-238).               *)
THEOREM NobodyWaitsInVain == Spec => []WaitingCallsAreLive
<1>1. IInv => WaitingCallsAreLive
  BY WaitingIsLive DEF IInv, SessionInv
<1>2. QED
  BY <1>1, IInvHolds, PTL

-----------------------------------------------------------------------------
(* The client: its invariant.                                              *)
ClientData ==
    /\ store \in Credentials \cup {NoCredential}
    /\ queue \in Seq(Mutations)
    /\ holds \in [Calls -> Credentials \cup {NoCredential}]
    /\ grant \in [Calls -> Credentials \cup {NoCredential}]
    /\ issued \in Credentials
    /\ honoured \subseteq Credentials
    /\ obtained \in [Credentials -> 0 .. MaxGenerations]
    /\ saved \subseteq Credentials
    /\ cleared \in 0 .. MaxGenerations

Undetermined == {"idle", "waiting", "resolved", "identified"}
Early        == Undetermined \cup {"ready", "loading"}
Matching     == {"matching", "matchingWithQueries"}

(* A fetch is fulfilled by a document of the expected Hub only, and a call *)
(* gets past its discovery only with one of its own session.               *)
KnownAnswers ==
    \A f \in Fetches :
        verdict[f] = "ok" =>
            stage[f] \in {"fulfilled", "settled"} /\ answer[f] \in Matching

Identified ==
    \A c \in Calls :
        /\ pc[c] = "waiting" => kind[c] # "none"
        /\ pc[c] = "resolved" => kind[c] = "discover"
        /\ pc[c] \notin {"idle", "waiting", "resolved", "done"} =>
              /\ reliesOn[c] # NoFetch
              /\ origin[reliesOn[c]] = session[c]
              /\ answer[reliesOn[c]] \in Matching
              /\ stage[reliesOn[c]] \in {"fulfilled", "settled"}
              /\ kind[c] \in {"claim", "rotate", "query"}

Answered == \A c \in Calls : outcome[c] # "none" => pc[c] = "done"

(* What call c has loaded and been granted, by where it stands.            *)
CarriedBy(c) ==
    /\ pc[c] \in Early => holds[c] = NoCredential
    /\ pc[c] \in Early \cup {"loaded", "authorized", "sent"} => grant[c] = NoCredential
    /\ pc[c] \in {"authorized", "sent"} /\ kind[c] = "rotate" => holds[c] # NoCredential
    /\ pc[c] = "accepted" /\ kind[c] # "query" => grant[c] # NoCredential
    /\ pc[c] = "read" => kind[c] = "query"
    /\ pc[c] = "saving" => grant[c] # NoCredential /\ kind[c] \in {"claim", "rotate"}
    /\ pc[c] = "saved" => grant[c] \in saved /\ kind[c] \in {"claim", "rotate"}
    /\ grant[c] # NoCredential =>
          /\ obtained[grant[c]] = session[c]
          /\ kind[c] = "rotate" => holds[c] # NoCredential /\ holds[c] < grant[c]

Carried == \A c \in Calls : CarriedBy(c)

(* Credentials are numbered as the Hub issues them, each to one call.      *)
Numbered ==
    /\ store <= issued
    /\ \A c \in Calls : holds[c] <= issued /\ grant[c] <= issued
    /\ \A c, d \in Calls :
          grant[c] # NoCredential /\ grant[c] = grant[d] => c = d

(* A granted credential reaches the store, and whoever loads it from       *)
(* there, only once its save has run.                                      *)
Written ==
    \A d \in Calls :
        grant[d] # NoCredential /\ (store = grant[d] \/ \E c \in Calls : holds[c] = grant[d]) =>
            pc[d] \in {"saved", "unsaved", "done"}

(* Only a call that loaded it can have had a credential rotated away.      *)
Honoured ==
    \A d \in Calls :
        grant[d] # NoCredential /\ grant[d] \notin honoured =>
            \E c \in Calls : holds[c] = grant[d]

(* A saved rotation has driven the credential it replaced from the store.  *)
Replaced ==
    \A c \in Calls :
        kind[c] = "rotate" /\ (pc[c] = "saved" \/ outcome[c] = "ok") =>
            store # holds[c]

IsSave(m) == m.what = "save"

QueueOrder ==
    /\ \A i \in DOMAIN queue :
          IF IsSave(queue[i]) THEN pc[queue[i].by] = "saving"
                              ELSE queue[i].by <= generation
    /\ \A i, j \in DOMAIN queue :
          IsSave(queue[i]) /\ IsSave(queue[j]) /\ queue[i].by = queue[j].by => i = j

(* The session of a save that has been begun was not over when it was.     *)
CurrentWrite ==
    /\ cleared <= generation
    /\ writing => queue # <<>>
    /\ writing /\ IsSave(Head(queue)) => session[Head(queue).by] >= cleared

StoreInv ==
    /\ Answered
    /\ Carried
    /\ Numbered
    /\ Written
    /\ Honoured
    /\ Replaced
    /\ LogoutIsFinal
    /\ SuccessIsSaved
    /\ LockoutIsReported

QueueInv == QueueOrder /\ CurrentWrite

CredentialInv ==
    /\ writing \in BOOLEAN
    /\ ClientData
    /\ StoreInv
    /\ QueueInv

ClientInv == SessionInv /\ KnownAnswers /\ Identified /\ CredentialInv

-----------------------------------------------------------------------------
(* The two kinds of steps: those of HubDiscovery, and one call going on.   *)
Moves(c) ==
    /\ pc[c] \notin Undetermined \cup {"done"}
    /\ \E place \in PCs \ Undetermined : pc' = [pc EXCEPT ![c] = place]
    /\ \/ UNCHANGED outcome
       \/ \E r \in Outcomes \ {"none"} :
             outcome' = [outcome EXCEPT ![c] = r] /\ pc'[c] = "done"
    /\ OnlyMoves

LEMMA SettleMoves ==
    ASSUME TypeOK, NEW c \in Calls, NEW r \in Outcomes \ {"none"},
           pc[c] \notin Undetermined \cup {"done"}, Settle(c, r), OnlyMoves
    PROVE  Moves(c)
<1>1. "done" \in PCs \ Undetermined
  BY DEF PCs, Undetermined
<1> QED
  BY <1>1 DEF Settle, Moves, TypeOK

LEMMA GoToMoves ==
    ASSUME TypeOK, NEW c \in Calls, NEW place \in PCs \ Undetermined,
           pc[c] \notin Undetermined \cup {"done"}, GoTo(c, place), OnlyMoves
    PROVE  Moves(c)
BY DEF GoTo, Moves

LEMMA RequestMoves ==
    ASSUME TypeOK, NEW c \in Calls, RequestStep(c)
    PROVE  Moves(c)
<1>1. {"failed", "aborted", "ok"} \subseteq Outcomes \ {"none"}
  BY DEF Outcomes
<1>2. {"loading", "loaded", "authorized", "sent", "accepted", "refused", "read", "saving"}
         \subseteq PCs \ Undetermined
  BY DEF PCs, Undetermined
<1>3. pc[c] \notin Undetermined \cup {"done"} /\ OnlyMoves
  BY DEF RequestStep, Load, LoadReturns, Authorize, StopsWaiting, Dispatch, HubAccepts,
     HubRefuses, TransportFails, Receive, ReadReturns, SaveReturns, Undetermined
<1>4. \/ \E r \in {"failed", "aborted", "ok"} : Settle(c, r)
      \/ \E place \in {"loading", "loaded", "authorized", "sent", "accepted", "refused",
                       "read", "saving"} : GoTo(c, place)
  BY DEF RequestStep, Load, LoadReturns, Authorize, StopsWaiting, Dispatch, HubAccepts,
     HubRefuses, TransportFails, Receive, ReadReturns, SaveReturns, Fail
<1> QED
  BY <1>1, <1>2, <1>3, <1>4, SettleMoves, GoToMoves

(* The first write of the queue, if there is one, is one of its elements.  *)
LEMMA FirstWrite ==
    ASSUME ClientData, queue # <<>>
    PROVE  /\ Head(queue) = queue[1] /\ 1 \in DOMAIN queue
           /\ Head(queue) \in Mutations
           /\ IsSave(Head(queue)) => Head(queue).by \in Calls
           /\ Head(queue).what = "clear" <=> ~IsSave(Head(queue))
           /\ Tail(queue) \in Seq(Mutations)
           /\ \A i \in DOMAIN Tail(queue) :
                 i + 1 \in DOMAIN queue /\ Tail(queue)[i] = queue[i + 1]
<1>1. queue \in Seq(Mutations)
  BY DEF ClientData
<1>2. /\ Head(queue) = queue[1] /\ 1 \in DOMAIN queue
      /\ Head(queue) \in Mutations
      /\ Tail(queue) \in Seq(Mutations)
      /\ \A i \in DOMAIN Tail(queue) :
            i + 1 \in DOMAIN queue /\ Tail(queue)[i] = queue[i + 1]
  BY <1>1
<1> QED
  BY <1>2 DEF Mutations, IsSave

LEMMA WriteMoves ==
    ASSUME ClientInv, WriteStep
    PROVE  UNCHANGED vars \/ \E c \in Calls : Moves(c)
<1> USE DEF ClientInv, CredentialInv, QueueInv
<1>1. CASE WriteStarts
  <2>1. CASE UNCHANGED <<pc, outcome>>
    BY <1>1, <2>1 DEF WriteStarts, OnlyMoves, vars, callVars
  <2>2. CASE IsSave(Head(queue)) /\ GoTo(Head(queue).by, "unsaved")
    <3>1. Head(queue).by \in Calls /\ pc[Head(queue).by] = "saving"
      BY <1>1, <2>2, FirstWrite DEF WriteStarts, QueueOrder
    <3>2. "unsaved" \in PCs \ Undetermined /\ "saving" \notin Undetermined \cup {"done"}
      BY DEF PCs, Undetermined
    <3> QED
      BY <1>1, <2>2, <3>1, <3>2, GoToMoves DEF WriteStarts, SessionInv
  <2> QED
    BY <1>1, <2>1, <2>2, FirstWrite DEF WriteStarts
<1>2. ASSUME NEW c \in Calls, SaveEnds(c) PROVE Moves(c)
  <2>1. pc[c] = "saving"
    BY <1>2, FirstWrite DEF SaveEnds, CurrentWrite, QueueOrder, IsSave
  <2>2. {"saved", "unsaved"} \subseteq PCs \ Undetermined
        /\ "saving" \notin Undetermined \cup {"done"}
    BY DEF PCs, Undetermined
  <2> QED
    BY <1>2, <2>1, <2>2, GoToMoves DEF SaveEnds, SessionInv
<1>3. CASE ClearEnds
  BY <1>3 DEF ClearEnds
<1> QED
  BY <1>1, <1>2, <1>3 DEF WriteStep

LEMMA MoveKeepsSession ==
    ASSUME SessionInv, NEW c \in Calls, Moves(c)
    PROVE  SessionInv'
<1>1. PICK place \in PCs \ Undetermined : pc' = [pc EXCEPT ![c] = place]
  BY DEF Moves
<1> QED
  BY <1>1, MoveInv DEF Moves, OnlyMoves, Undetermined

-----------------------------------------------------------------------------
(* What the steps of HubDiscovery leave alone.                             *)
Rests(c) ==
    /\ pc'[c] = pc[c] /\ outcome'[c] = outcome[c]
    /\ kind'[c] = kind[c] /\ session'[c] = session[c]

Discovers(c) ==
    /\ pc[c] \in Undetermined
    /\ pc'[c] \in Undetermined \cup {"ready", "done"}
    /\ outcome'[c] # "none" => pc'[c] = "done"
    /\ outcome'[c] = "ok" => kind[c] = "discover" /\ kind'[c] = "discover"

Undisturbed ==
    /\ generation <= generation'
    /\ \A c \in Calls : Rests(c) \/ Discovers(c)

LEMMA InterruptUndisturbed ==
    ASSUME SessionInv, NEW S \in SUBSET Calls, Interrupt(S)
    PROVE  \A c \in Calls : Rests(c) \/ Discovers(c)
BY DEF SessionInv, TypeOK, PastSessions, Interrupt, Rests, Discovers, Undetermined

LEMMA NextUndisturbed ==
    ASSUME SessionInv, Identified, [Next]_vars
    PROVE  Undisturbed
<1> USE DEF SessionInv
<1>1. generation <= generation'
  <2>1. generation \in Nat
    BY BoundsAssumption DEF TypeOK
  <2>2. generation' = generation \/ generation' = generation + 1
    BY DEF Next, CallStep, Continue, Begin, BeginRefused, BeginCached, BeginJoin, BeginFetch,
       Begins, WaiterResumes, DiscoverReturns, Proceed, CallerAborts, FetchStep, FetchAnswers, FetchFails, FetchThen,
       FetchCatch, FetchFinally, OwnerAborts, Logout, Dispose, EndSession, Quiescent, vars,
       sessionVars
  <2> QED
    BY <2>1, <2>2
<1>2. ASSUME NEW d \in Calls PROVE Rests(d) \/ Discovers(d)
  <2>1. ASSUME NEW c \in Calls, NEW k \in Kinds, BeginRefused(c, k)
        PROVE  Rests(d) \/ Discovers(d)
    BY <2>1 DEF BeginRefused, Settle, Rests, Discovers, Undetermined, TypeOK
  <2>2. ASSUME NEW c \in Calls, NEW k \in Kinds,
               BeginCached(c, k) \/ BeginJoin(c, k) \/ BeginFetch(c, k)
        PROVE  Rests(d) \/ Discovers(d)
    BY <2>2 DEF BeginCached, BeginJoin, BeginFetch, Begins, Rests, Discovers, Undetermined,
       TypeOK, PastSessions
  <2>3. ASSUME NEW c \in Calls, WaiterResumes(c)
        PROVE  Rests(d) \/ Discovers(d)
    BY <2>3 DEF WaiterResumes, Settle, Rests, Discovers, Undetermined, TypeOK, PastSessions
  <2>4. ASSUME NEW c \in Calls, Proceed(c)
        PROVE  Rests(d) \/ Discovers(d)
    BY <2>4 DEF Proceed, Settle, Rests, Discovers, Undetermined, TypeOK, PastSessions
  <2>10. ASSUME NEW c \in Calls, DiscoverReturns(c)
        PROVE  Rests(d) \/ Discovers(d)
    BY <2>10 DEF DiscoverReturns, Settle, Rests, Discovers, Undetermined, TypeOK, Identified
  <2>5. ASSUME NEW c \in Calls, CallerAborts(c)
        PROVE  Rests(d) \/ Discovers(d)
    BY <2>5, InterruptUndisturbed DEF CallerAborts
  <2>6. ASSUME NEW f \in Fetches, FetchStep(f)
        PROVE  Rests(d) \/ Discovers(d)
    BY <2>6 DEF FetchStep, FetchAnswers, FetchFails, FetchThen, FetchCatch, FetchFinally,
       callVars, Rests
  <2>7. CASE OwnerAborts
    BY <2>7, InterruptUndisturbed DEF OwnerAborts
  <2>8. CASE EndSession
    BY <2>8, InterruptUndisturbed DEF EndSession, InSession
  <2>9. CASE UNCHANGED vars
    BY <2>9 DEF vars, callVars, Rests
  <2> QED
    BY <2>1, <2>2, <2>3, <2>4, <2>5, <2>6, <2>7, <2>8, <2>9, <2>10
       DEF Next, CallStep, Continue, Begin, Logout, Dispose, Quiescent
<1> QED
  BY <1>1, <1>2 DEF Undisturbed

-----------------------------------------------------------------------------
(* Identity.                                                               *)
LEMMA NextKnownAnswers ==
    ASSUME SessionInv, KnownAnswers, [Next]_vars
    PROVE  KnownAnswers'
<1> USE DEF SessionInv
<1> SUFFICES ASSUME NEW g \in Fetches, verdict'[g] = "ok"
             PROVE  stage'[g] \in {"fulfilled", "settled"} /\ answer'[g] \in Matching
  BY DEF KnownAnswers
<1>1. CASE UNCHANGED <<stage, verdict, answer>>
  BY <1>1 DEF KnownAnswers
<1>2. ASSUME NEW c \in Calls, NEW k \in Kinds, BeginFetch(c, k)
      PROVE  stage'[g] \in {"fulfilled", "settled"} /\ answer'[g] \in Matching
  <2>1. started + 1 \in Fetches /\ stage[started + 1] = "unused"
    BY <1>2, BoundsAssumption DEF BeginFetch, TypeOK, Fetches, FetchOrder
  <2> QED
    BY <1>2, <2>1 DEF BeginFetch, KnownAnswers, TypeOK
<1>3. ASSUME NEW f \in Fetches, FetchStep(f)
      PROVE  stage'[g] \in {"fulfilled", "settled"} /\ answer'[g] \in Matching
  <2>1. CASE g # f
    BY <1>3, <2>1 DEF FetchStep, FetchAnswers, FetchFails, FetchThen, FetchCatch,
       FetchFinally, KnownAnswers, TypeOK
  <2>2. CASE g = f
    <3>1. CASE FetchAnswers(f) \/ FetchFails(f)
      BY <2>2, <3>1 DEF FetchAnswers, FetchFails, KnownAnswers, TypeOK, VerdictOfStage
    <3>2. CASE FetchThen(f)
      <4>1. answer[f] \in {"otherHub"} \cup Matching
        BY <3>2 DEF FetchThen, TypeOK, VerdictOfStage, Documents, Matching
      <4> QED
        BY <2>2, <3>2, <4>1 DEF FetchThen, TypeOK
    <3>3. CASE FetchCatch(f) \/ FetchFinally(f)
      BY <2>2, <3>3 DEF FetchCatch, FetchFinally, KnownAnswers, TypeOK, VerdictOfStage
    <3> QED
      BY <1>3, <3>1, <3>2, <3>3 DEF FetchStep
  <2> QED
    BY <2>1, <2>2
<1>4. CASE ~\E f \in Fetches : FetchStep(f)
  <2>1. \/ UNCHANGED <<stage, verdict, answer>>
        \/ \E c \in Calls, k \in Kinds : BeginFetch(c, k)
    BY <1>4 DEF Next, CallStep, Continue, Begin, BeginRefused, BeginCached, BeginJoin,
       WaiterResumes, DiscoverReturns, Proceed, CallerAborts, Interrupt, OwnerAborts, Logout, Dispose, EndSession, Quiescent,
       vars, fetchVars
  <2> QED
    BY <1>1, <1>2, <2>1
<1> QED
  BY <1>3, <1>4

(* A fetch that has been fulfilled keeps its origin and its answer.        *)
LEMMA FulfilledStays ==
    ASSUME SessionInv, [Next]_vars, NEW f \in Fetches, stage[f] \in {"fulfilled", "settled"}
    PROVE  /\ stage'[f] \in {"fulfilled", "settled"}
           /\ origin'[f] = origin[f]
           /\ answer'[f] = answer[f]
<1> USE DEF SessionInv
<1>1. CASE UNCHANGED <<stage, origin, answer>>
  BY <1>1
<1>2. ASSUME NEW c \in Calls, NEW k \in Kinds, BeginFetch(c, k)
      PROVE  /\ stage'[f] = stage[f]
             /\ origin'[f] = origin[f]
             /\ answer'[f] = answer[f]
  <2>1. started + 1 \in Fetches /\ stage[started + 1] = "unused"
    BY <1>2, BoundsAssumption DEF BeginFetch, TypeOK, Fetches, FetchOrder
  <2> QED
    BY <1>2, <2>1 DEF BeginFetch, TypeOK
<1>3. ASSUME NEW g \in Fetches, FetchStep(g)
      PROVE  /\ stage'[f] \in {"fulfilled", "settled"}
             /\ origin'[f] = origin[f]
             /\ answer'[f] = answer[f]
  BY <1>3 DEF FetchStep, FetchAnswers, FetchFails, FetchThen, FetchCatch, FetchFinally,
     TypeOK
<1>4. CASE ~\E g \in Fetches : FetchStep(g)
  <2>1. \/ UNCHANGED <<stage, origin, answer>>
        \/ \E c \in Calls, k \in Kinds : BeginFetch(c, k)
    BY <1>4 DEF Next, CallStep, Continue, Begin, BeginRefused, BeginCached, BeginJoin,
       WaiterResumes, DiscoverReturns, Proceed, CallerAborts, Interrupt, OwnerAborts, Logout, Dispose, EndSession, Quiescent,
       vars, fetchVars
  <2> QED
    BY <1>1, <1>2, <2>1
<1> QED
  BY <1>3, <1>4

(* What a step makes of one call, by the action it is taken with.          *)
Stands(d) ==
    /\ reliesOn'[d] = reliesOn[d]
    /\ session'[d] = session[d]
    /\ kind'[d] = kind[d]
    /\ pc'[d] \in {pc[d], "done"}

Fares(d) ==
    \/ Stands(d)
    \/ pc[d] = "idle" /\ pc'[d] = "done"
    \/ \E k \in Kinds : BeginCached(d, k) \/ BeginJoin(d, k) \/ BeginFetch(d, k)
    \/ WaiterResumes(d)
    \/ Proceed(d)

LEMMA NextFares ==
    ASSUME TypeOK, [Next]_vars, NEW d \in Calls
    PROVE  Fares(d)
<1>1. ASSUME NEW c \in Calls, NEW k \in Kinds, BeginRefused(c, k) PROVE Fares(d)
  BY <1>1 DEF BeginRefused, Settle, Fares, Stands, TypeOK
<1>2. ASSUME NEW c \in Calls, NEW k \in Kinds,
             BeginCached(c, k) \/ BeginJoin(c, k) \/ BeginFetch(c, k)
      PROVE  Fares(d)
  <2>1. CASE d = c
    BY <1>2, <2>1 DEF Fares
  <2>2. CASE d # c
    BY <1>2, <2>2 DEF BeginCached, BeginJoin, BeginFetch, Begins, Fares, Stands, TypeOK
  <2> QED
    BY <2>1, <2>2
<1>3. ASSUME NEW c \in Calls, WaiterResumes(c) PROVE Fares(d)
  <2>1. CASE d # c
    BY <1>3, <2>1 DEF WaiterResumes, Settle, Fares, Stands, TypeOK
  <2> QED
    BY <1>3, <2>1 DEF Fares
<1>4. ASSUME NEW c \in Calls, Proceed(c) PROVE Fares(d)
  <2>1. CASE d # c
    BY <1>4, <2>1 DEF Proceed, Settle, Fares, Stands, TypeOK
  <2> QED
    BY <1>4, <2>1 DEF Fares
<1>10. ASSUME NEW c \in Calls, DiscoverReturns(c) PROVE Fares(d)
  BY <1>10 DEF DiscoverReturns, Settle, Fares, Stands, TypeOK
<1>5. ASSUME NEW S \in SUBSET Calls, Interrupt(S) PROVE Fares(d)
  BY <1>5 DEF Interrupt, Fares, Stands, TypeOK
<1>6. ASSUME NEW f \in Fetches, FetchStep(f) PROVE Fares(d)
  BY <1>6 DEF FetchStep, FetchAnswers, FetchFails, FetchThen, FetchCatch, FetchFinally,
     callVars, Fares, Stands
<1>7. CASE UNCHANGED vars
  BY <1>7 DEF vars, callVars, Fares, Stands
<1>8. ASSUME NEW c \in Calls, CallerAborts(c) PROVE Fares(d)
  BY <1>5, <1>8 DEF CallerAborts
<1>9. CASE OwnerAborts \/ EndSession
  BY <1>5, <1>9 DEF OwnerAborts, EndSession, InSession
<1> QED
  BY <1>1, <1>2, <1>3, <1>4, <1>6, <1>7, <1>8, <1>9, <1>10
     DEF Next, CallStep, Continue, Begin, Logout, Dispose, Quiescent

LEMMA NextIdentified ==
    ASSUME SessionInv, KnownAnswers, Identified, [Next]_vars
    PROVE  Identified'
<1> USE DEF SessionInv
<1>1. ASSUME NEW d \in Calls, pc[d] # "idle"
      PROVE  /\ reliesOn'[d] = reliesOn[d]
             /\ session'[d] = session[d]
             /\ kind'[d] = kind[d]
  BY <1>1, NextFares DEF Fares, Stands, BeginCached, BeginJoin, BeginFetch, Begins,
     WaiterResumes, Proceed
<1>2. ASSUME NEW d \in Calls, pc'[d] = "waiting"
      PROVE  kind'[d] # "none"
  <2>1. pc[d] = "waiting" \/ \E k \in Kinds : BeginJoin(d, k) \/ BeginFetch(d, k)
    BY <1>2, NextFares DEF Fares, Stands, BeginCached, WaiterResumes, Proceed, Settle, TypeOK
  <2>2. CASE pc[d] = "waiting"
    BY <1>1, <2>2 DEF Identified
  <2>3. ASSUME NEW k \in Kinds, BeginJoin(d, k) \/ BeginFetch(d, k)
        PROVE  kind'[d] # "none"
    BY <2>3, KindsAssumption DEF BeginJoin, BeginFetch, Begins, TypeOK, AllKinds
  <2> QED
    BY <2>1, <2>2, <2>3
<1>4. ASSUME NEW d \in Calls, pc'[d] = "resolved"
      PROVE  kind'[d] = "discover"
  <2>1. pc[d] = "resolved" \/ WaiterResumes(d)
    BY <1>4, NextFares DEF Fares, Stands, BeginCached, BeginJoin, BeginFetch, Proceed, Settle,
       TypeOK
  <2>2. CASE pc[d] = "resolved"
    BY <1>1, <2>2 DEF Identified
  <2>3. CASE WaiterResumes(d)
    BY <1>4, <2>3 DEF WaiterResumes, Settle, TypeOK
  <2> QED
    BY <2>1, <2>2, <2>3
<1>3. ASSUME NEW d \in Calls, pc'[d] \notin {"idle", "waiting", "resolved", "done"}
      PROVE  /\ reliesOn'[d] # NoFetch
             /\ origin'[reliesOn'[d]] = session'[d]
             /\ answer'[reliesOn'[d]] \in Matching
             /\ stage'[reliesOn'[d]] \in {"fulfilled", "settled"}
             /\ kind'[d] \in {"claim", "rotate", "query"}
  <2>1. CASE pc[d] = "idle"
    <3>1. PICK k \in Kinds : BeginCached(d, k)
      BY <1>3, <2>1, NextFares DEF Fares, Stands, BeginJoin, BeginFetch, WaiterResumes,
         Proceed, TypeOK
    <3>2. reliesOn'[d] = discovery /\ session'[d] = generation /\ kind'[d] = k
          /\ UNCHANGED <<origin, answer, stage>>
      BY <3>1 DEF BeginCached, Begins, fetchVars, TypeOK
    <3>3. k \in {"claim", "rotate", "query"} /\ discovery # NoFetch
      BY <3>1, KindsAssumption DEF BeginCached, AllKinds
    <3> QED
      BY <3>2, <3>3 DEF IdentityOfThisSession, FetchOrder, Matching
  <2>2. CASE pc[d] = "waiting"
    <3>1. WaiterResumes(d)
      BY <1>3, <2>2, NextFares DEF Fares, Stands, BeginCached, BeginJoin, BeginFetch, Begins,
         Proceed
    <3>2. /\ verdict[reliesOn[d]] = "ok" /\ Live(d) /\ kind[d] # "discover"
          /\ UNCHANGED <<origin, answer, stage>>
      BY <1>3, <3>1 DEF WaiterResumes, Settle, TypeOK
    <3>3. /\ reliesOn[d] \in Fetches /\ reliesOn[d] # NoFetch
          /\ origin[reliesOn[d]] = generation
      BY <2>2 DEF WaitingOnLiveFetch, FetchLive, TypeOK
    <3>4. session[d] = generation /\ kind[d] \in {"claim", "rotate", "query"}
      BY <2>2, <3>2 DEF Live, Identified, TypeOK, AllKinds
    <3> QED
      BY <1>1, <2>2, <3>2, <3>3, <3>4 DEF KnownAnswers
  <2>3. CASE pc[d] \notin {"idle", "waiting"}
    <3>1. pc[d] \notin {"resolved", "done"}
      BY <1>3, <2>3, NextFares DEF Fares, Stands, BeginCached, BeginJoin, BeginFetch, Begins,
         WaiterResumes, Proceed
    <3>2. /\ reliesOn[d] \in Fetches /\ reliesOn[d] # NoFetch
          /\ origin[reliesOn[d]] = session[d]
          /\ answer[reliesOn[d]] \in Matching
          /\ stage[reliesOn[d]] \in {"fulfilled", "settled"}
          /\ kind[d] \in {"claim", "rotate", "query"}
      BY <2>3, <3>1 DEF Identified, TypeOK
    <3> QED
      BY <1>1, <2>3, <3>2, FulfilledStays
  <2> QED
    BY <2>1, <2>2, <2>3
<1> QED
  BY <1>2, <1>3, <1>4 DEF Identified

LEMMA MoveKeepsIdentity ==
    ASSUME SessionInv, KnownAnswers, Identified, NEW c \in Calls, Moves(c)
    PROVE  KnownAnswers' /\ Identified'
<1>1. KnownAnswers'
  BY DEF Moves, OnlyMoves, fetchVars, KnownAnswers
<1>2. ASSUME NEW d \in Calls
      PROVE  /\ pc'[d] = "waiting" => pc[d] = "waiting"
             /\ pc'[d] = "resolved" => pc[d] = "resolved"
             /\ pc[d] \in {"idle", "waiting", "resolved", "done"} =>
                    pc'[d] \in {"idle", "waiting", "resolved", "done"}
  BY <1>2 DEF Moves, SessionInv, TypeOK, Undetermined
<1>3. Identified'
  BY <1>2 DEF Moves, OnlyMoves, fetchVars, Identified
<1> QED
  BY <1>1, <1>3
-----------------------------------------------------------------------------
(* Credentials, where only HubDiscovery moves.                             *)
storeVars == <<store, holds, grant, issued, honoured, obtained, saved, cleared>>

LEMMA UndisturbedStore ==
    ASSUME SessionInv, ClientData, StoreInv, Undisturbed, UNCHANGED storeVars
    PROVE  StoreInv'
<1> USE DEF StoreInv, storeVars
<1>1. ASSUME NEW c \in Calls, grant[c] # NoCredential \/ holds[c] # NoCredential
      PROVE  Rests(c)
  BY <1>1 DEF Undisturbed, Discovers, Carried, CarriedBy, Early
<1>2. ASSUME NEW c \in Calls, pc'[c] \notin Undetermined \cup {"ready", "done"}
      PROVE  Rests(c)
  BY <1>2 DEF Undisturbed, Discovers
<1>3. ASSUME NEW c \in Calls, outcome'[c] = "ok", kind'[c] # "discover"
      PROVE  Rests(c)
  BY <1>3 DEF Undisturbed, Discovers
<1>4. Answered'
  BY DEF Answered, Undisturbed, Rests, Discovers
<1>5. Carried'
  <2> SUFFICES ASSUME NEW c \in Calls PROVE CarriedBy(c)'
    BY DEF Carried
  <2>1. CASE Rests(c)
    BY <2>1 DEF Rests, Carried, CarriedBy
  <2>2. CASE ~Rests(c)
    BY <1>1, <1>2, <2>2 DEF CarriedBy, Undetermined
  <2> QED
    BY <2>1, <2>2
<1>6. Numbered'
  BY DEF Numbered
<1>7. Written' /\ Honoured'
  BY <1>1 DEF Written, Honoured, Rests
<1>8. Replaced'
  <2> SUFFICES ASSUME NEW c \in Calls, kind'[c] = "rotate",
                      pc'[c] = "saved" \/ outcome'[c] = "ok"
               PROVE  store # holds[c]
    BY DEF Replaced
  <2>1. Rests(c)
    BY <1>2, <1>3 DEF Undetermined
  <2> QED
    BY <2>1 DEF Rests, Replaced
<1>9. LogoutIsFinal'
  BY DEF LogoutIsFinal
<1>10. SuccessIsSaved'
  BY <1>3 DEF SuccessIsSaved, Rests
<1>11. LockoutIsReported'
  <2> SUFFICES ASSUME store \notin honoured \cup {NoCredential}
               PROVE  \E c \in Calls : /\ kind'[c] = "rotate"
                                       /\ holds[c] = store
                                       /\ outcome'[c] # "ok"
    BY DEF LockoutIsReported
  <2>1. PICK c \in Calls : kind[c] = "rotate" /\ holds[c] = store /\ outcome[c] # "ok"
    BY DEF LockoutIsReported
  <2> QED
    BY <1>1, <2>1 DEF Rests
<1> QED
  BY <1>4, <1>5, <1>6, <1>7, <1>8, <1>9, <1>10, <1>11

(* The writes that are queued belong to calls that are being saved and to  *)
(* sessions that are over, and stay so.                                    *)
LEMMA UndisturbedQueue ==
    ASSUME SessionInv, SessionInv', ClientData, QueueInv, Undisturbed, UNCHANGED <<queue, cleared>>
    PROVE  /\ QueueOrder'
           /\ cleared' <= generation'
           /\ \A c \in Calls : pc[c] = "saving" => session'[c] = session[c]
<1>1. /\ generation \in Nat /\ generation' \in Nat /\ generation <= generation'
      /\ cleared \in Nat
  BY BoundsAssumption DEF SessionInv, TypeOK, ClientData, Undisturbed
<1>2. ASSUME NEW c \in Calls, pc[c] = "saving" PROVE Rests(c)
  BY <1>2 DEF Undisturbed, Discovers, Undetermined
<1>3. \A i \in DOMAIN queue : queue[i] \in Mutations
  BY DEF ClientData
<1>4. ASSUME NEW i \in DOMAIN queue
      PROVE  IF IsSave(queue[i]) THEN pc'[queue[i].by] = "saving"
                                 ELSE queue[i].by <= generation'
  <2>1. CASE IsSave(queue[i])
    BY <1>2, <1>3, <2>1 DEF QueueInv, QueueOrder, Rests, Mutations, IsSave
  <2>2. CASE ~IsSave(queue[i])
    <3>1. queue[i].by \in Nat /\ queue[i].by <= generation
      BY <1>3, <2>2, BoundsAssumption DEF QueueInv, QueueOrder, Mutations, IsSave
    <3> QED
      BY <1>1, <2>2, <3>1
  <2> QED
    BY <2>1, <2>2
<1>5. QueueOrder'
  BY <1>4 DEF QueueInv, QueueOrder, IsSave
<1> QED
  BY <1>1, <1>2, <1>5 DEF QueueInv, CurrentWrite, Rests

LEMMA IdentityStepCredentials ==
    ASSUME ClientInv, SessionInv', Undisturbed, UNCHANGED clientVars
    PROVE  CredentialInv'
<1> USE DEF ClientInv, CredentialInv, clientVars, credentialVars, hubVars, carriedVars
<1>1. writing' \in BOOLEAN
  BY Zenon
<1>2. ClientData'
  BY DEF ClientData
<1>3. StoreInv'
  BY UndisturbedStore DEF storeVars
<1>4. QueueOrder' /\ cleared' <= generation'
  BY UndisturbedQueue
<1>5. writing' => queue' # <<>>
  BY DEF QueueInv, CurrentWrite
<1>6. ASSUME writing', IsSave(Head(queue'))
      PROVE  session'[Head(queue').by] >= cleared'
  <2>1. queue # <<>> /\ session[Head(queue).by] >= cleared
    BY <1>6 DEF QueueInv, CurrentWrite, IsSave
  <2>2. Head(queue).by \in Calls /\ pc[Head(queue).by] = "saving"
    BY <1>6, <2>1, FirstWrite DEF QueueInv, QueueOrder, IsSave
  <2> QED
    BY <2>1, <2>2, UndisturbedQueue
<1>7. CurrentWrite'
  BY <1>4, <1>5, <1>6 DEF CurrentWrite, IsSave
<1> QED
  BY <1>1, <1>2, <1>3, <1>4, <1>7 DEF QueueInv

(* logout() queues a clear, behind everything that is queued.              *)
LEMMA ClientLogoutCredentials ==
    ASSUME ClientInv, SessionInv', Undisturbed, ClientLogout
    PROVE  CredentialInv'
<1> USE DEF ClientInv, CredentialInv, hubVars, carriedVars
<1> DEFINE m == [what |-> "clear", by |-> generation + 1]
<1>1. queue \in Seq(Mutations) /\ queue' = Append(queue, m)
      /\ UNCHANGED <<writing, cleared>> /\ generation' = generation + 1
  BY DEF ClientLogout, Enqueue, ClientData, Logout, EndSession
<1>2. m \in Mutations /\ ~IsSave(m) /\ m.by = generation'
  BY <1>1, BoundsAssumption DEF ClientLogout, Logout, SessionInv, TypeOK, Mutations, IsSave
<1>3. /\ queue' \in Seq(Mutations)
      /\ DOMAIN queue' = DOMAIN queue \cup {Len(queue) + 1}
      /\ \A i \in DOMAIN queue : queue'[i] = queue[i]
      /\ queue'[Len(queue) + 1] = m
      /\ queue' # <<>>
      /\ queue # <<>> => Head(queue') = Head(queue)
  BY <1>1, <1>2
<1>4. writing' \in BOOLEAN
  BY <1>1, Zenon
<1>5. ClientData'
  BY <1>3 DEF ClientLogout, ClientData
<1>6. StoreInv'
  BY UndisturbedStore DEF ClientLogout, storeVars
<1>7. ASSUME NEW i \in DOMAIN queue, IsSave(queue[i])
      PROVE  /\ queue[i].by \in Calls /\ pc[queue[i].by] = "saving"
             /\ Rests(queue[i].by)
  <2>1. queue[i].by \in Calls /\ pc[queue[i].by] = "saving"
    BY <1>1, <1>7 DEF QueueInv, QueueOrder, Mutations, IsSave
  <2> QED
    BY <2>1 DEF Undisturbed, Discovers, Undetermined
<1>8. ASSUME NEW i \in DOMAIN queue, ~IsSave(queue[i])
      PROVE  queue[i].by <= generation'
  <2>1. generation \in Nat /\ queue[i].by \in Nat /\ queue[i].by <= generation
    BY <1>1, <1>8, BoundsAssumption
       DEF QueueInv, QueueOrder, Mutations, IsSave, SessionInv, TypeOK
  <2> QED
    BY <1>1, <2>1
<1>9. \A i \in DOMAIN queue' :
         IF IsSave(queue'[i]) THEN pc'[queue'[i].by] = "saving"
                              ELSE queue'[i].by <= generation'
  <2>1. generation' \in Nat
    BY <1>1, BoundsAssumption DEF SessionInv, TypeOK
  <2> QED
    BY <1>2, <1>3, <1>7, <1>8, <2>1 DEF Rests
<1>10. \A i, j \in DOMAIN queue' :
          IsSave(queue'[i]) /\ IsSave(queue'[j]) /\ queue'[i].by = queue'[j].by => i = j
  BY <1>2, <1>3 DEF QueueInv, QueueOrder
<1>11. QueueOrder'
  BY <1>9, <1>10 DEF QueueOrder, IsSave
<1>12. CurrentWrite'
  <2>1. cleared' <= generation'
    BY <1>1, BoundsAssumption DEF QueueInv, CurrentWrite, SessionInv, TypeOK, ClientData
  <2>2. ASSUME writing', IsSave(Head(queue'))
        PROVE  session'[Head(queue').by] >= cleared'
    <3>1. queue # <<>> /\ Head(queue') = queue[1] /\ 1 \in DOMAIN queue
          /\ session[queue[1].by] >= cleared /\ IsSave(queue[1])
      BY <1>1, <1>3, <2>2, FirstWrite DEF QueueInv, CurrentWrite, IsSave
    <3> QED
      BY <1>1, <1>7, <3>1 DEF Rests
  <2> QED
    BY <1>3, <2>1, <2>2 DEF CurrentWrite, IsSave
<1> QED
  BY <1>4, <1>5, <1>6, <1>11, <1>12 DEF QueueInv
-----------------------------------------------------------------------------
(* Credentials, where one call goes on.                                    *)
LEMMA MoveLeavesOthers ==
    ASSUME SessionInv, Answered, NEW c \in Calls, Moves(c)
    PROVE  /\ \A d \in Calls \ {c} : pc'[d] = pc[d] /\ outcome'[d] = outcome[d]
           /\ pc[c] # "done" /\ outcome[c] = "none"
           /\ pc'[c] \in PCs \ Undetermined
           /\ outcome'[c] # "none" => pc'[c] = "done"
           /\ UNCHANGED <<generation, kind, session>>
BY DEF SessionInv, TypeOK, Answered, Moves, OnlyMoves, sessionVars

LEMMA QueueKept ==
    ASSUME ClientInv, NEW c \in Calls, Moves(c), pc[c] # "saving",
           UNCHANGED <<queue, writing, cleared>>
    PROVE  QueueInv'
<1> USE DEF ClientInv, CredentialInv, QueueInv, StoreInv
<1>1. \A i \in DOMAIN queue : queue[i] \in Mutations
  BY DEF ClientData
<1>2. ASSUME NEW i \in DOMAIN queue, IsSave(queue[i])
      PROVE  pc'[queue[i].by] = "saving"
  BY <1>1, <1>2, MoveLeavesOthers DEF QueueOrder, Mutations, IsSave
<1>3. QueueOrder'
  BY <1>2, MoveLeavesOthers DEF QueueOrder, IsSave
<1>4. CurrentWrite'
  BY MoveLeavesOthers DEF CurrentWrite, IsSave
<1> QED
  BY <1>3, <1>4

(* The call moves and no credential does.                                  *)
LEMMA QuietMove ==
    ASSUME ClientInv, NEW c \in Calls, Moves(c), UNCHANGED clientVars,
           pc[c] # "saving",
           pc[c] \in {"saved", "unsaved"} => pc'[c] = "done",
           CarriedBy(c)', pc'[c] # "saved",
           outcome'[c] = "ok" => kind[c] = "query" \/ pc[c] = "saved"
    PROVE  CredentialInv'
<1> USE DEF ClientInv, CredentialInv, StoreInv
<1>1. UNCHANGED <<store, queue, writing, holds, grant, issued, honoured, obtained, saved, cleared>>
  BY DEF clientVars, credentialVars, hubVars, carriedVars
<1>2. writing' \in BOOLEAN
  BY <1>1, Zenon
<1>3. ClientData' /\ Numbered' /\ LogoutIsFinal'
  BY <1>1 DEF ClientData, Numbered, LogoutIsFinal
<1>4. Answered'
  BY MoveLeavesOthers DEF Answered
<1>5. Carried'
  BY <1>1, MoveLeavesOthers DEF Carried, CarriedBy
<1>6. Written' /\ Honoured'
  BY <1>1, MoveLeavesOthers DEF Written, Honoured
<1>7. Replaced'
  BY <1>1, MoveLeavesOthers DEF Replaced
<1>8. SuccessIsSaved'
  BY <1>1, MoveLeavesOthers DEF SuccessIsSaved, Carried, CarriedBy
<1>9. LockoutIsReported'
  <2> SUFFICES ASSUME store \notin honoured \cup {NoCredential}
               PROVE  \E d \in Calls : /\ kind[d] = "rotate"
                                       /\ holds[d] = store
                                       /\ outcome'[d] # "ok"
    BY <1>1, MoveLeavesOthers DEF LockoutIsReported
  <2>1. PICK d \in Calls : kind[d] = "rotate" /\ holds[d] = store /\ outcome[d] # "ok"
    BY DEF LockoutIsReported
  <2>2. outcome'[d] # "ok"
    BY <2>1, MoveLeavesOthers DEF Replaced
  <2> QED
    BY <2>1, <2>2
<1>10. QueueInv'
  BY <1>1, QueueKept
<1> QED
  BY <1>2, <1>3, <1>4, <1>5, <1>6, <1>7, <1>8, <1>9, <1>10

LEMMA LoadCredentials ==
    ASSUME ClientInv, NEW c \in Calls, Load(c)
    PROVE  CredentialInv'
<1> USE DEF ClientInv, CredentialInv, StoreInv, clientVars, hubVars, carriedVars
<1>1. Moves(c) /\ UNCHANGED clientVars /\ pc[c] = "ready"
  BY RequestMoves DEF RequestStep, Load, SessionInv
<1>2. pc'[c] \in {"loading", "done"} /\ outcome'[c] # "ok"
  BY <1>1, MoveLeavesOthers DEF Load, GoTo, Fail, Settle, SessionInv, TypeOK
<1>3. CarriedBy(c)'
  BY <1>1, <1>2, MoveLeavesOthers DEF Carried, CarriedBy, Early
<1> QED
  BY <1>1, <1>2, <1>3, QuietMove

LEMMA AuthorizeCredentials ==
    ASSUME ClientInv, NEW c \in Calls, Authorize(c) \/ StopsWaiting(c)
    PROVE  CredentialInv'
<1> USE DEF ClientInv, CredentialInv, StoreInv, clientVars, hubVars, carriedVars
<1>1. Moves(c) /\ UNCHANGED clientVars /\ pc[c] \in {"loading", "loaded"}
  BY RequestMoves DEF RequestStep, Authorize, StopsWaiting, SessionInv
<1>2. /\ pc'[c] \in {"authorized", "done"} /\ outcome'[c] # "ok"
      /\ pc'[c] = "authorized" => holds[c] # NoCredential \/ kind[c] = "query"
  BY <1>1, MoveLeavesOthers
     DEF Authorize, StopsWaiting, GoTo, Fail, Settle, SessionInv, TypeOK
<1>3. CarriedBy(c)'
  BY <1>1, <1>2, MoveLeavesOthers DEF Carried, CarriedBy, Early, Undetermined
<1> QED
  BY <1>1, <1>2, <1>3, QuietMove

LEMMA DispatchCredentials ==
    ASSUME ClientInv, NEW c \in Calls, Dispatch(c)
    PROVE  CredentialInv'
<1> USE DEF ClientInv, CredentialInv, StoreInv, clientVars, hubVars, carriedVars
<1>1. /\ Moves(c) /\ UNCHANGED clientVars
      /\ pc[c] = "authorized" \/ (pc[c] = "ready" /\ kind[c] = "claim")
  BY RequestMoves DEF RequestStep, Dispatch, SessionInv
<1>2. pc'[c] \in {"sent", "done"} /\ outcome'[c] # "ok"
  BY <1>1, MoveLeavesOthers DEF Dispatch, GoTo, Fail, Settle, SessionInv, TypeOK
<1>3. CarriedBy(c)'
  BY <1>1, <1>2, MoveLeavesOthers DEF Carried, CarriedBy, Early, Undetermined
<1> QED
  BY <1>1, <1>2, <1>3, QuietMove

LEMMA RefusedCredentials ==
    ASSUME ClientInv, NEW c \in Calls, HubRefuses(c) \/ TransportFails(c)
    PROVE  CredentialInv'
<1> USE DEF ClientInv, CredentialInv, StoreInv, clientVars, hubVars, carriedVars
<1>1. Moves(c) /\ UNCHANGED clientVars /\ pc[c] \in {"sent", "accepted", "refused"}
  BY RequestMoves DEF RequestStep, HubRefuses, TransportFails, SessionInv
<1>2. pc'[c] \in {"refused", "done"} /\ outcome'[c] # "ok"
  BY <1>1, MoveLeavesOthers
     DEF HubRefuses, TransportFails, GoTo, Fail, Settle, SessionInv, TypeOK
<1>3. CarriedBy(c)'
  BY <1>1, <1>2, MoveLeavesOthers DEF Carried, CarriedBy, Early, Undetermined
<1> QED
  BY <1>1, <1>2, <1>3, QuietMove

LEMMA ReadReturnsCredentials ==
    ASSUME ClientInv, NEW c \in Calls, ReadReturns(c)
    PROVE  CredentialInv'
<1> USE DEF ClientInv, CredentialInv, StoreInv, clientVars, hubVars, carriedVars
<1>1. Moves(c) /\ UNCHANGED clientVars /\ pc[c] = "read"
  BY RequestMoves DEF RequestStep, ReadReturns, SessionInv
<1>2. pc'[c] = "done"
  BY <1>1, MoveLeavesOthers DEF ReadReturns, Settle, SessionInv, TypeOK
<1>3. CarriedBy(c)' /\ kind[c] = "query"
  BY <1>1, <1>2, MoveLeavesOthers DEF Carried, CarriedBy, Early, Undetermined
<1> QED
  BY <1>1, <1>2, <1>3, QuietMove

LEMMA SaveReturnsCredentials ==
    ASSUME ClientInv, NEW c \in Calls, SaveReturns(c)
    PROVE  CredentialInv'
<1> USE DEF ClientInv, CredentialInv, StoreInv, clientVars, hubVars, carriedVars
<1>1. Moves(c) /\ UNCHANGED clientVars /\ pc[c] \in {"saved", "unsaved"}
  BY RequestMoves DEF RequestStep, SaveReturns, SessionInv
<1>2. pc'[c] = "done" /\ (outcome'[c] = "ok" => pc[c] = "saved")
  BY <1>1, MoveLeavesOthers DEF SaveReturns, Fail, Settle, SessionInv, TypeOK
<1>3. CarriedBy(c)'
  BY <1>1, <1>2, MoveLeavesOthers DEF Carried, CarriedBy, Early, Undetermined
<1> QED
  BY <1>1, <1>2, <1>3, QuietMove

(* The credential that is loaded is the one in the store.                  *)
LEMMA LoadReturnsCredentials ==
    ASSUME ClientInv, NEW c \in Calls, LoadReturns(c)
    PROVE  CredentialInv'
<1> USE DEF ClientInv, CredentialInv, StoreInv, clientVars, credentialVars, hubVars
<1>1. /\ Moves(c) /\ pc[c] = "loading" /\ holds[c] = NoCredential /\ grant[c] = NoCredential
      /\ UNCHANGED <<store, queue, writing, grant, issued, honoured, obtained, saved, cleared>>
  BY RequestMoves DEF RequestStep, LoadReturns, SessionInv, Carried, CarriedBy, Early
<1>2. CASE holds' = holds
  <2>1. pc'[c] \in {"loaded", "done"} /\ outcome'[c] # "ok"
    BY <1>1, MoveLeavesOthers DEF LoadReturns, GoTo, Fail, Settle, SessionInv, TypeOK
  <2>2. CarriedBy(c)'
    BY <1>1, <1>2, <2>1, MoveLeavesOthers DEF Carried, CarriedBy, Early, Undetermined
  <2> QED
    BY <1>1, <1>2, <2>1, <2>2, QuietMove DEF carriedVars
<1>3. CASE holds' = [holds EXCEPT ![c] = store] /\ GoTo(c, "loaded")
  <2>1. /\ holds'[c] = store /\ \A d \in Calls \ {c} : holds'[d] = holds[d]
        /\ pc'[c] = "loaded" /\ outcome' = outcome
    BY <1>3 DEF GoTo, ClientData, SessionInv, TypeOK
  <2>2. writing' \in BOOLEAN
    BY <1>1, Zenon
  <2>3. ClientData' /\ LogoutIsFinal'
    BY <1>1, <1>3 DEF ClientData, LogoutIsFinal
  <2>4. Answered' /\ SuccessIsSaved'
    BY <1>1, <2>1, MoveLeavesOthers DEF Answered, SuccessIsSaved
  <2>5. Carried'
    BY <1>1, <2>1, MoveLeavesOthers DEF Carried, CarriedBy, Early, Undetermined
  <2>6. Numbered'
    BY <1>1, <2>1 DEF Numbered
  <2>7. Written'
    BY <1>1, <2>1, MoveLeavesOthers DEF Written
  <2>8. Honoured'
    BY <1>1, <2>1 DEF Honoured
  <2>9. Replaced'
    BY <1>1, <2>1, MoveLeavesOthers DEF Replaced
  <2>10. LockoutIsReported'
    BY <1>1, <2>1, MoveLeavesOthers DEF LockoutIsReported
  <2>11. QueueInv'
    BY <1>1, QueueKept
  <2> QED
    BY <2>2, <2>3, <2>4, <2>5, <2>6, <2>7, <2>8, <2>9, <2>10, <2>11
<1> QED
  BY <1>2, <1>3 DEF LoadReturns

LEMMA CredentialsAreNumbers ==
    ASSUME ClientData
    PROVE  /\ issued \in Nat /\ store \in Nat
           /\ \A d \in Calls : holds[d] \in Nat /\ grant[d] \in Nat
<1>1. Credentials \cup {NoCredential} \subseteq Nat
  BY CredentialsAssumption DEF Credentials, NoCredential
<1>2. issued \in Credentials /\ store \in Credentials \cup {NoCredential}
  BY DEF ClientData
<1>3. ASSUME NEW d \in Calls
      PROVE  {holds[d], grant[d]} \subseteq Credentials \cup {NoCredential}
  BY DEF ClientData
<1> QED
  BY <1>1, <1>2, <1>3

(* A credential that is granted is new: nobody holds it, and nothing that  *)
(* is in the store or on its way there is it.                              *)
LEMMA GrantCredentials ==
    ASSUME ClientInv, NEW c \in Calls, HubAccepts(c), kind[c] # "query"
    PROVE  CredentialInv'
<1> USE DEF ClientInv, CredentialInv, StoreInv, credentialVars
<1> DEFINE k == issued + 1
<1>1. /\ Moves(c) /\ pc[c] = "sent" /\ pc'[c] = "accepted" /\ outcome' = outcome
      /\ UNCHANGED <<store, queue, writing, holds, saved, cleared>>
  BY RequestMoves DEF RequestStep, HubAccepts, GoTo, SessionInv, TypeOK
<1>2. /\ k \in Credentials /\ issued' = k /\ k # NoCredential
      /\ grant'[c] = k /\ \A d \in Calls \ {c} : grant'[d] = grant[d]
      /\ obtained'[k] = session[c]
      /\ \A j \in Credentials \ {k} : obtained'[j] = obtained[j]
      /\ k \in honoured' \/ holds[c] = k
      /\ \A j \in honoured \ honoured' : kind[c] = "rotate" /\ holds[c] = j
  BY CredentialsAssumption DEF HubAccepts, ClientData, Credentials, NoCredential
<1>3. /\ store # k /\ \A d \in Calls : holds[d] # k /\ grant[d] # k /\ holds[d] < k
      /\ grant[c] = NoCredential
      /\ kind[c] = "rotate" => holds[c] # NoCredential
  <2>1. /\ issued \in Nat /\ store \in Nat
        /\ \A d \in Calls : holds[d] \in Nat /\ grant[d] \in Nat
    BY CredentialsAreNumbers
  <2>2. store # k /\ \A d \in Calls : holds[d] # k /\ grant[d] # k /\ holds[d] < k
    BY <2>1 DEF Numbered
  <2>3. grant[c] = NoCredential /\ (kind[c] = "rotate" => holds[c] # NoCredential)
    BY <1>1 DEF Carried, CarriedBy
  <2> QED
    BY <2>2, <2>3
<1>4. writing' \in BOOLEAN
  BY <1>1, Zenon
<1>5. ClientData'
  <2>1. grant' \in [Calls -> Credentials \cup {NoCredential}]
    BY <1>2 DEF HubAccepts, ClientData
  <2>2. session[c] \in 0 .. MaxGenerations
    BY DEF SessionInv, TypeOK
  <2>3. obtained' \in [Credentials -> 0 .. MaxGenerations]
    BY <1>2, <2>2 DEF HubAccepts, ClientData
  <2>4. honoured' \subseteq Credentials
    BY <1>2 DEF HubAccepts, ClientData
  <2> QED
    BY <1>1, <1>2, <2>1, <2>3, <2>4 DEF ClientData
<1>6. Answered' /\ Replaced'
  BY <1>1, MoveLeavesOthers DEF Answered, Replaced
<1>7. Carried'
  <2>1. CarriedBy(c)'
    BY <1>1, <1>2, <1>3, MoveLeavesOthers DEF CarriedBy, Early, Undetermined
  <2>2. ASSUME NEW d \in Calls \ {c} PROVE CarriedBy(d)'
    BY <1>1, <1>2, <1>3, MoveLeavesOthers DEF Carried, CarriedBy, ClientData
  <2> QED
    BY <2>1, <2>2 DEF Carried
<1>8. Numbered'
  <2>1. /\ issued \in Nat /\ issued' = issued + 1 /\ store \in Nat
        /\ \A d \in Calls : holds[d] \in Nat /\ grant[d] \in Nat
    BY <1>2, CredentialsAreNumbers
  <2>2. store' <= issued' /\ \A d \in Calls : holds'[d] <= issued'
    BY <1>1, <2>1 DEF Numbered
  <2>3. ASSUME NEW d \in Calls PROVE grant'[d] <= issued'
    <3>1. CASE d = c
      BY <1>2, <2>1, <3>1
    <3>2. CASE d # c
      BY <1>2, <2>1, <3>2 DEF Numbered
    <3> QED
      BY <3>1, <3>2
  <2>4. \A d, e \in Calls : grant'[d] # NoCredential /\ grant'[d] = grant'[e] => d = e
    BY <1>2, <1>3 DEF Numbered
  <2> QED
    BY <2>2, <2>3, <2>4 DEF Numbered
<1>9. Written'
  BY <1>1, <1>2, <1>3, MoveLeavesOthers DEF Written
<1>10. Honoured'
  BY <1>1, <1>2, <1>3 DEF Honoured
<1>11. LogoutIsFinal'
  BY <1>1, <1>2, <1>3 DEF LogoutIsFinal, ClientData
<1>12. SuccessIsSaved'
  BY <1>1, <1>2, MoveLeavesOthers DEF SuccessIsSaved
<1>13. LockoutIsReported'
  <2>1. outcome[c] # "ok"
    BY <1>1, MoveLeavesOthers
  <2> QED
    BY <1>1, <1>2, <2>1, MoveLeavesOthers DEF LockoutIsReported
<1>14. QueueInv'
  BY <1>1, QueueKept
<1> QED
  BY <1>4, <1>5, <1>6, <1>7, <1>8, <1>9, <1>10, <1>11, <1>12, <1>13, <1>14

LEMMA HubAcceptsCredentials ==
    ASSUME ClientInv, NEW c \in Calls, HubAccepts(c)
    PROVE  CredentialInv'
<1> USE DEF ClientInv, CredentialInv, StoreInv
<1>1. CASE kind[c] = "query"
  <2>1. /\ Moves(c) /\ UNCHANGED clientVars
        /\ pc[c] = "sent" /\ pc'[c] = "accepted" /\ outcome' = outcome
    BY <1>1, RequestMoves DEF RequestStep, HubAccepts, GoTo, SessionInv, TypeOK, clientVars,
       carriedVars
  <2>2. CarriedBy(c)'
    BY <1>1, <2>1, MoveLeavesOthers
       DEF Carried, CarriedBy, Early, Undetermined, clientVars, hubVars, carriedVars
  <2> QED
    BY <1>1, <2>1, <2>2, QuietMove, MoveLeavesOthers
<1> QED
  BY <1>1, GrantCredentials

(* What the Hub granted is queued to be saved.                             *)
LEMMA ReceiveCredentials ==
    ASSUME ClientInv, NEW c \in Calls, Receive(c)
    PROVE  CredentialInv'
<1> USE DEF ClientInv, CredentialInv, StoreInv, hubVars, carriedVars
<1>1. /\ Moves(c) /\ pc[c] \in {"accepted", "refused"}
      /\ UNCHANGED <<store, writing, holds, grant, issued, honoured, obtained, saved, cleared>>
  BY RequestMoves DEF RequestStep, Receive, SessionInv
<1>2. CASE UNCHANGED queue /\ \/ Fail(c)
                              \/ kind[c] = "query" /\ GoTo(c, "read")
  <2>1. \/ pc'[c] = "done" /\ outcome'[c] # "ok"
        \/ pc'[c] = "read" /\ outcome'[c] # "ok" /\ kind[c] = "query"
    BY <1>1, <1>2, MoveLeavesOthers DEF Fail, GoTo, Settle, SessionInv, TypeOK
  <2>2. CarriedBy(c)'
    BY <1>1, <2>1, MoveLeavesOthers DEF Carried, CarriedBy, Early, Undetermined
  <2> QED
    BY <1>1, <1>2, <2>1, <2>2, QuietMove DEF clientVars, credentialVars
<1>3. CASE /\ pc[c] = "accepted" /\ kind[c] # "query"
           /\ GoTo(c, "saving") /\ Enqueue("save", c)
  <2> DEFINE m == [what |-> "save", by |-> c]
  <2>1. pc'[c] = "saving" /\ outcome' = outcome /\ kind[c] \in {"claim", "rotate"}
        /\ grant[c] # NoCredential
    BY <1>3 DEF GoTo, SessionInv, TypeOK, Identified, Carried, CarriedBy
  <2>2. queue \in Seq(Mutations) /\ queue' = Append(queue, m) /\ m \in Mutations
        /\ IsSave(m) /\ m.by = c
    BY <1>3 DEF Enqueue, ClientData, Mutations, IsSave
  <2>3. /\ queue' \in Seq(Mutations)
        /\ DOMAIN queue' = DOMAIN queue \cup {Len(queue) + 1}
        /\ \A i \in DOMAIN queue : queue'[i] = queue[i]
        /\ queue'[Len(queue) + 1] = m
        /\ queue' # <<>>
        /\ queue # <<>> => Head(queue') = Head(queue)
    BY <2>2
  <2>4. writing' \in BOOLEAN
    BY <1>1, Zenon
  <2>5. ClientData' /\ Numbered' /\ LogoutIsFinal'
    BY <1>1, <2>3 DEF ClientData, Numbered, LogoutIsFinal
  <2>6. Answered' /\ SuccessIsSaved' /\ Replaced' /\ LockoutIsReported'
    BY <1>1, <2>1, MoveLeavesOthers
       DEF Answered, SuccessIsSaved, Replaced, LockoutIsReported
  <2>7. Carried'
    <3>1. CarriedBy(c)'
      BY <1>1, <2>1, MoveLeavesOthers DEF Carried, CarriedBy, Early, Undetermined
    <3>2. ASSUME NEW d \in Calls \ {c} PROVE CarriedBy(d)'
      BY <1>1, MoveLeavesOthers DEF Carried, CarriedBy
    <3> QED
      BY <3>1, <3>2 DEF Carried
  <2>8. Written' /\ Honoured'
    BY <1>1, <2>1, MoveLeavesOthers DEF Written, Honoured
  <2>9. ASSUME NEW i \in DOMAIN queue, IsSave(queue[i])
        PROVE  /\ queue[i].by \in Calls \ {c} /\ pc'[queue[i].by] = "saving"
    BY <1>1, <2>2, <2>9, MoveLeavesOthers DEF QueueInv, QueueOrder, Mutations, IsSave
  <2>10. QueueOrder'
    <3>1. \A i \in DOMAIN queue' :
             IF IsSave(queue'[i]) THEN pc'[queue'[i].by] = "saving"
                                  ELSE queue'[i].by <= generation'
      BY <1>1, <2>1, <2>2, <2>3, <2>9, MoveLeavesOthers DEF QueueInv, QueueOrder
    <3>2. \A i, j \in DOMAIN queue' :
             IsSave(queue'[i]) /\ IsSave(queue'[j]) /\ queue'[i].by = queue'[j].by
                => i = j
      BY <2>2, <2>3, <2>9 DEF QueueInv, QueueOrder
    <3> QED
      BY <3>1, <3>2 DEF QueueOrder, IsSave
  <2>11. CurrentWrite'
    <3>1. cleared' <= generation'
      BY <1>1, MoveLeavesOthers DEF QueueInv, CurrentWrite
    <3>2. writing => queue # <<>>
      BY DEF QueueInv, CurrentWrite
    <3>3. writing' /\ IsSave(Head(queue')) => session'[Head(queue').by] >= cleared'
      BY <1>1, <2>3, <3>2, MoveLeavesOthers DEF QueueInv, CurrentWrite, IsSave
    <3> QED
      BY <2>3, <3>1, <3>3 DEF CurrentWrite, IsSave
  <2> QED
    BY <2>4, <2>5, <2>6, <2>7, <2>8, <2>10, <2>11 DEF QueueInv
<1> QED
  BY <1>2, <1>3 DEF Receive

-----------------------------------------------------------------------------
(* Credentials, where a write starts or ends.                              *)

(* Taking the first write off the queue leaves the others in order.        *)
LEMMA TailOrder ==
    ASSUME ClientInv, queue # <<>>, queue' = Tail(queue), generation' = generation,
           \A d \in Calls :
               pc[d] = "saving" /\ ~(IsSave(Head(queue)) /\ Head(queue).by = d) =>
                   pc'[d] = "saving"
    PROVE  QueueOrder'
<1> USE DEF ClientInv, CredentialInv, QueueInv
<1>1. /\ Head(queue) = queue[1] /\ 1 \in DOMAIN queue /\ queue \in Seq(Mutations)
      /\ DOMAIN queue' \subseteq Nat \ {0}
      /\ \A i \in DOMAIN queue' : i + 1 \in DOMAIN queue /\ queue'[i] = queue[i + 1]
  BY FirstWrite DEF ClientData
<1>2. ASSUME NEW i \in DOMAIN queue', IsSave(queue'[i])
      PROVE  pc'[queue'[i].by] = "saving"
  <2>1. /\ IsSave(queue[i + 1]) /\ queue[i + 1].by \in Calls
        /\ pc[queue[i + 1].by] = "saving"
    BY <1>1, <1>2 DEF QueueOrder, Mutations, IsSave
  <2>2. ~(IsSave(queue[1]) /\ queue[1].by = queue[i + 1].by)
    BY <1>1, <1>2, <2>1 DEF QueueOrder
  <2> QED
    BY <1>1, <1>2, <2>1, <2>2
<1>3. ASSUME NEW i \in DOMAIN queue', ~IsSave(queue'[i])
      PROVE  queue'[i].by <= generation'
  BY <1>1, <1>3 DEF QueueOrder
<1>4. ASSUME NEW i \in DOMAIN queue', NEW j \in DOMAIN queue',
             IsSave(queue'[i]), IsSave(queue'[j]), queue'[i].by = queue'[j].by
      PROVE  i = j
  <2>1. i + 1 = j + 1
    BY <1>1, <1>4 DEF QueueOrder
  <2> QED
    BY <1>1, <2>1
<1> QED
  BY <1>2, <1>3, <1>4 DEF QueueOrder, IsSave

LEMMA WriteStartsCredentials ==
    ASSUME ClientInv, WriteStarts
    PROVE  CredentialInv'
<1> USE DEF ClientInv, CredentialInv, StoreInv, hubVars, carriedVars
<1>1. /\ UNCHANGED <<store, holds, grant, issued, honoured, obtained, saved, cleared>>
      /\ UNCHANGED <<generation, kind, session>>
  BY DEF WriteStarts, OnlyMoves, sessionVars
<1>2. CASE writing' = TRUE /\ UNCHANGED <<queue, pc, outcome>>
  <2>1. ClientData' /\ Answered' /\ Carried' /\ Numbered'
    BY <1>1, <1>2 DEF ClientData, Answered, Carried, CarriedBy, Numbered
  <2>2. Written' /\ Honoured' /\ Replaced' /\ LogoutIsFinal' /\ SuccessIsSaved'
        /\ LockoutIsReported'
    BY <1>1, <1>2
       DEF Written, Honoured, Replaced, LogoutIsFinal, SuccessIsSaved, LockoutIsReported
  <2>3. QueueOrder'
    BY <1>1, <1>2 DEF QueueInv, QueueOrder, IsSave
  <2>4. IsSave(Head(queue)) => session[Head(queue).by] = generation
    BY <1>2, FirstWrite DEF WriteStarts, Live
  <2>5. CurrentWrite'
    BY <1>1, <1>2, <2>4, BoundsAssumption
       DEF WriteStarts, QueueInv, CurrentWrite, IsSave, SessionInv, TypeOK, ClientData
  <2> QED
    BY <1>2, <2>1, <2>2, <2>3, <2>5 DEF QueueInv
<1>3. CASE /\ IsSave(Head(queue)) /\ queue' = Tail(queue)
           /\ GoTo(Head(queue).by, "unsaved") /\ UNCHANGED writing
  <2> DEFINE c == Head(queue).by
  <2>1. c \in Calls /\ pc[c] = "saving" /\ queue # <<>> /\ writing = FALSE
    BY <1>3, FirstWrite DEF WriteStarts, QueueInv, QueueOrder
  <2>2. /\ pc'[c] = "unsaved" /\ \A d \in Calls \ {c} : pc'[d] = pc[d]
        /\ outcome' = outcome
    BY <1>3, <2>1 DEF GoTo, SessionInv, TypeOK
  <2>3. ClientData' /\ Numbered' /\ LogoutIsFinal'
    BY <1>1, <1>3, <2>1, FirstWrite DEF ClientData, Numbered, LogoutIsFinal
  <2>4. Answered' /\ SuccessIsSaved' /\ Replaced' /\ LockoutIsReported'
    BY <1>1, <2>1, <2>2 DEF Answered, SuccessIsSaved, Replaced, LockoutIsReported
  <2>5. Carried'
    BY <1>1, <2>1, <2>2 DEF Carried, CarriedBy, Early, Undetermined
  <2>6. Written' /\ Honoured'
    BY <1>1, <2>1, <2>2 DEF Written, Honoured
  <2>7. QueueOrder'
    BY <1>1, <1>3, <2>1, <2>2, TailOrder
  <2>8. CurrentWrite'
    BY <1>1, <1>3, <2>1 DEF QueueInv, CurrentWrite
  <2>9. writing' \in BOOLEAN
    BY <1>3, Zenon
  <2> QED
    BY <2>3, <2>4, <2>5, <2>6, <2>7, <2>8, <2>9 DEF QueueInv
<1> QED
  BY <1>2, <1>3, FirstWrite DEF WriteStarts

(* A save that ends: nobody can have loaded, let alone replaced, the       *)
(* credential it has brought into the store.                               *)
LEMMA SaveEndsCredentials ==
    ASSUME ClientInv, NEW c \in Calls, SaveEnds(c)
    PROVE  CredentialInv'
<1> USE DEF ClientInv, CredentialInv, StoreInv, hubVars, carriedVars
<1>1. /\ UNCHANGED <<holds, grant, issued, honoured, obtained, cleared>>
      /\ UNCHANGED <<generation, kind, session>>
  BY DEF SaveEnds, OnlyMoves, sessionVars
<1>2. /\ queue # <<>> /\ queue' = Tail(queue) /\ writing = TRUE /\ writing' = FALSE
      /\ IsSave(Head(queue)) /\ Head(queue).by = c
  BY DEF SaveEnds, IsSave, QueueInv, CurrentWrite
<1>3. pc[c] = "saving" /\ grant[c] # NoCredential /\ kind[c] \in {"claim", "rotate"}
  BY <1>2, FirstWrite DEF QueueInv, QueueOrder, Carried, CarriedBy
<1>4. /\ obtained[grant[c]] = session[c] /\ session[c] >= cleared
      /\ grant[c] \in Credentials /\ grant[c] <= issued
  BY <1>2, <1>3 DEF QueueInv, CurrentWrite, Carried, CarriedBy, ClientData, Numbered
<1>5. \A d \in Calls : holds[d] # grant[c]
  BY <1>3 DEF Written
<1>6. \A d \in Calls : grant[d] = grant[c] => d = c
  BY <1>3 DEF Numbered
<1>7. grant[c] \in honoured
  BY <1>3, <1>5 DEF Honoured
<1>8. /\ pc'[c] \in {"saved", "unsaved"} /\ \A d \in Calls \ {c} : pc'[d] = pc[d]
      /\ outcome' = outcome /\ outcome[c] = "none"
      /\ store' \in {store, grant[c]}
      /\ pc'[c] = "saved" => store' = grant[c] /\ grant[c] \in saved'
      /\ saved \subseteq saved' /\ saved' \subseteq saved \cup {grant[c]}
  BY <1>3 DEF SaveEnds, GoTo, SessionInv, TypeOK, Answered
<1>9. ClientData'
  BY <1>1, <1>2, <1>4, <1>8, FirstWrite DEF ClientData
<1>10. Answered' /\ SuccessIsSaved'
  BY <1>1, <1>3, <1>8 DEF Answered, SuccessIsSaved
<1>11. Carried'
  BY <1>1, <1>3, <1>8 DEF Carried, CarriedBy, Early, Undetermined
<1>12. Numbered'
  BY <1>1, <1>4, <1>8 DEF Numbered
<1>13. Written'
  BY <1>1, <1>3, <1>6, <1>8 DEF Written
<1>14. Honoured'
  BY <1>1 DEF Honoured
<1>15. Replaced'
  <2> SUFFICES ASSUME NEW d \in Calls, kind[d] = "rotate",
                      pc'[d] = "saved" \/ outcome[d] = "ok"
               PROVE  store' # holds[d]
    BY <1>1, <1>8 DEF Replaced
  <2>1. CASE store' = grant[c]
    BY <1>5, <2>1
  <2>2. CASE store' = store
    <3>1. CASE d = c
      BY <1>5, <1>8, <3>1
    <3>2. CASE d # c
      BY <1>8, <2>2, <3>2 DEF Replaced
    <3> QED
      BY <3>1, <3>2
  <2> QED
    BY <1>8, <2>1, <2>2
<1>16. LogoutIsFinal'
  BY <1>1, <1>4, <1>8 DEF LogoutIsFinal
<1>17. LockoutIsReported'
  BY <1>1, <1>7, <1>8 DEF LockoutIsReported
<1>18. QueueOrder'
  BY <1>1, <1>2, <1>8, TailOrder
<1>19. CurrentWrite'
  BY <1>1, <1>2 DEF QueueInv, CurrentWrite
<1> QED
  BY <1>2, <1>9, <1>10, <1>11, <1>12, <1>13, <1>14, <1>15, <1>16, <1>17, <1>18, <1>19
     DEF QueueInv

(* A clear that ends: a saved rotation has replaced some credential.       *)
LEMMA ClearEndsCredentials ==
    ASSUME ClientInv, ClearEnds
    PROVE  CredentialInv'
<1> USE DEF ClientInv, CredentialInv, StoreInv, hubVars, carriedVars
<1>1. /\ UNCHANGED <<holds, grant, issued, honoured, obtained, saved>>
      /\ UNCHANGED <<generation, kind, session, pc, outcome>>
  BY DEF ClearEnds, vars, sessionVars, callVars
<1>2. /\ queue # <<>> /\ queue' = Tail(queue) /\ writing' = FALSE
      /\ ~IsSave(Head(queue))
  BY DEF ClearEnds, IsSave, QueueInv, CurrentWrite
<1>3. Head(queue).by \in 0 .. MaxGenerations /\ Head(queue).by <= generation
  BY <1>2, FirstWrite, BoundsAssumption DEF Mutations, IsSave, QueueInv, QueueOrder
<1>4. /\ store' \in {store, NoCredential}
      /\ cleared' = cleared \/ (cleared' = Head(queue).by /\ store' = NoCredential)
  BY DEF ClearEnds
<1>5. ClientData'
  BY <1>1, <1>2, <1>3, <1>4, FirstWrite DEF ClientData
<1>6. Answered' /\ Carried' /\ SuccessIsSaved' /\ Honoured'
  BY <1>1 DEF Answered, Carried, CarriedBy, SuccessIsSaved, Honoured
<1>7. Numbered'
  <2>1. NoCredential <= issued /\ store' <= issued
    BY <1>4, CredentialsAssumption DEF Numbered, ClientData, Credentials, NoCredential
  <2> QED
    BY <1>1, <2>1 DEF Numbered
<1>8. Written'
  BY <1>1, <1>4 DEF Written
<1>9. Replaced'
  <2> SUFFICES ASSUME NEW d \in Calls, kind[d] = "rotate", pc[d] = "saved" \/ outcome[d] = "ok"
               PROVE  store # holds[d] /\ holds[d] # NoCredential
    BY <1>1, <1>4 DEF Replaced
  <2>1. grant[d] \in saved /\ grant[d] # NoCredential
    BY DEF Carried, CarriedBy, SuccessIsSaved, ClientData, Credentials, NoCredential
  <2> QED
    BY <2>1 DEF Replaced, Carried, CarriedBy
<1>10. LogoutIsFinal' /\ LockoutIsReported'
  BY <1>1, <1>4 DEF LogoutIsFinal, LockoutIsReported
<1>11. QueueOrder'
  BY <1>1, <1>2, TailOrder
<1>12. CurrentWrite'
  BY <1>1, <1>2, <1>3, <1>4 DEF QueueInv, CurrentWrite
<1> QED
  BY <1>2, <1>5, <1>6, <1>7, <1>8, <1>9, <1>10, <1>11, <1>12 DEF QueueInv

-----------------------------------------------------------------------------
LEMMA ClientInitInv == ClientInit => ClientInv
<1> SUFFICES ASSUME ClientInit PROVE ClientInv
  OBVIOUS
<1> USE CredentialsAssumption, BoundsAssumption DEF ClientInit
<1>1. SessionInv
  BY InitInv DEF IInv
<1>2. KnownAnswers /\ Identified /\ Answered
  BY DEF Init, KnownAnswers, Identified, Answered
<1>3. writing \in BOOLEAN
  BY Zenon
<1>4. ClientData
  BY DEF ClientData, Credentials, NoCredential
<1>5. Carried /\ Numbered /\ Written /\ Honoured /\ Replaced
  BY DEF Init, Carried, CarriedBy, Early, Undetermined, Numbered, Written, Honoured,
     Replaced, NoCredential
<1>6. LogoutIsFinal /\ SuccessIsSaved /\ LockoutIsReported
  BY DEF Init, LogoutIsFinal, SuccessIsSaved, LockoutIsReported, Credentials
<1>7. QueueInv
  BY DEF Init, QueueInv, QueueOrder, CurrentWrite
<1> QED
  BY <1>1, <1>2, <1>3, <1>4, <1>5, <1>6, <1>7 DEF ClientInv, CredentialInv, StoreInv

(* Every step of the client is one of HubDiscovery, a call going on, or a  *)
(* write to the store.                                                     *)
LEMMA NextClientInv ==
    ASSUME ClientInv, [ClientNext]_allVars
    PROVE  ClientInv'
<1> USE DEF ClientInv
<1>1. CASE IdentityStep \/ UNCHANGED allVars \/ ClientQuiescent
  <2>1. [Next]_vars /\ UNCHANGED clientVars
    BY <1>1 DEF IdentityStep, ClientQuiescent, Next, allVars
  <2>2. SessionInv' /\ KnownAnswers' /\ Identified' /\ Undisturbed
    BY <2>1, NextSessionInv, NextKnownAnswers, NextIdentified, NextUndisturbed
  <2> QED
    BY <2>1, <2>2, IdentityStepCredentials
<1>2. CASE ClientLogout
  <2>1. [Next]_vars
    BY <1>2 DEF ClientLogout, Next
  <2>2. SessionInv' /\ KnownAnswers' /\ Identified' /\ Undisturbed
    BY <2>1, NextSessionInv, NextKnownAnswers, NextIdentified, NextUndisturbed
  <2> QED
    BY <1>2, <2>2, ClientLogoutCredentials
<1>3. ASSUME NEW c \in Calls, RequestStep(c) PROVE ClientInv'
  <2>1. Moves(c)
    BY <1>3, RequestMoves DEF SessionInv
  <2>2. CredentialInv'
    BY <1>3, LoadCredentials, LoadReturnsCredentials, AuthorizeCredentials,
       DispatchCredentials, HubAcceptsCredentials, RefusedCredentials, ReceiveCredentials,
       ReadReturnsCredentials, SaveReturnsCredentials DEF RequestStep
  <2> QED
    BY <2>1, <2>2, MoveKeepsSession, MoveKeepsIdentity
<1>4. CASE WriteStep
  <2>1. CredentialInv'
    BY <1>4, WriteStartsCredentials, SaveEndsCredentials, ClearEndsCredentials DEF WriteStep
  <2>2. CASE UNCHANGED vars
    BY <2>1, <2>2, NextSessionInv, NextKnownAnswers, NextIdentified
  <2>3. ASSUME NEW c \in Calls, Moves(c) PROVE ClientInv'
    BY <2>1, <2>3, MoveKeepsSession, MoveKeepsIdentity
  <2> QED
    BY <1>4, <2>2, <2>3, WriteMoves
<1> QED
  BY <1>1, <1>2, <1>3, <1>4 DEF ClientNext

(* The invariant everything below rests on: a credential gets from the Hub *)
(* to one call, by its save into the store, and from there to whoever      *)
(* loads it, in this order (client.ts:273-333, 447-508).                   *)
THEOREM ClientInvHolds == ClientSpec => []ClientInv
<1>1. ClientInit => ClientInv
  BY ClientInitInv
<1>2. ClientInv /\ [ClientNext]_allVars => ClientInv'
  BY NextClientInv
<1> QED
  BY <1>1, <1>2, PTL DEF ClientSpec

(* The client's fields, the queue and the store hold values of their       *)
(* types, so no more clears are queued than sessions have ended.           *)
THEOREM ClientTypeCorrect == ClientSpec => []ClientTypeOK
<1>1. ClientInv => ClientTypeOK
  <2> SUFFICES ASSUME ClientInv PROVE ClientTypeOK
    OBVIOUS
  <2>1. TypeOK /\ ClientData
    BY DEF ClientInv, CredentialInv, SessionInv
  <2>2. writing \in BOOLEAN
    BY Zenon DEF ClientInv, CredentialInv
  <2> QED
    BY <2>1, <2>2 DEF ClientData, ClientTypeOK
<1> QED
  BY <1>1, ClientInvHolds, PTL

(* Who takes a call to where it is answered or its bearer is sent.         *)
LEMMA WhoMoves ==
    ASSUME ClientInv, [ClientNext]_allVars, NEW c \in Calls
    PROVE  \/ RequestStep(c)
           \/ pc'[c] \in {pc[c], "saved", "unsaved"} /\ outcome'[c] = outcome[c]
           \/ /\ pc'[c] \in Undetermined \cup {"ready", "done"}
              /\ outcome'[c] = "ok" => kind[c] = "discover"
<1> USE DEF ClientInv, CredentialInv
<1>1. CASE IdentityStep \/ ClientLogout \/ UNCHANGED allVars \/ ClientQuiescent
  <2>1. [Next]_vars
    BY <1>1 DEF IdentityStep, ClientLogout, ClientQuiescent, Next, allVars
  <2> QED
    BY <2>1, NextUndisturbed DEF Undisturbed, Rests, Discovers
<1>2. ASSUME NEW d \in Calls, RequestStep(d), d # c
      PROVE  pc'[c] = pc[c] /\ outcome'[c] = outcome[c]
  <2>1. Moves(d)
    BY <1>2, RequestMoves DEF SessionInv
  <2> QED
    BY <1>2, <2>1, MoveLeavesOthers DEF StoreInv
<1>3. CASE WriteStep
  <2>1. outcome' = outcome
    BY <1>3 DEF WriteStep, WriteStarts, SaveEnds, ClearEnds, GoTo, vars, callVars
  <2>2. \/ pc' = pc
        \/ \E d, place : pc' = [pc EXCEPT ![d] = place] /\ place \in {"saved", "unsaved"}
    BY <1>3 DEF WriteStep, WriteStarts, SaveEnds, ClearEnds, GoTo, vars, callVars
  <2>3. pc'[c] \in {pc[c], "saved", "unsaved"}
    BY <2>2 DEF SessionInv, TypeOK
  <2> QED
    BY <2>1, <2>3
<1> QED
  BY <1>1, <1>2, <1>3 DEF ClientNext

(* No bearer is sent for a call unless the expected Hub was identified in  *)
(* the session that is current when it leaves (client.ts:468-489,          *)
(* 510-545).                                                               *)
THEOREM BearersFollowIdentity == ClientSpec => BearerAfterIdentity
<1>1. ASSUME ClientInv, [ClientNext]_allVars,
             NEW c \in Calls, pc[c] # "sent", pc'[c] = "sent"
      PROVE  /\ ~disposed
             /\ origin[reliesOn[c]] = generation
             /\ answer[reliesOn[c]] \in {"matching", "matchingWithQueries"}
  <2>1. RequestStep(c)
    BY <1>1, WhoMoves DEF Undetermined
  <2>2. Dispatch(c)
    BY <1>1, <2>1 DEF ClientInv, SessionInv, TypeOK, RequestStep, Load, LoadReturns,
       Authorize, StopsWaiting, HubAccepts, HubRefuses, TransportFails, Receive, ReadReturns,
       SaveReturns, Fail, GoTo, Settle
  <2>3. Live(c) /\ pc[c] \in {"authorized", "ready"}
    BY <1>1, <2>2 DEF ClientInv, SessionInv, TypeOK, Dispatch, Fail, Settle
  <2> QED
    BY <1>1, <2>3 DEF ClientInv, Identified, Matching, Live
<1>2. ClientInv /\ [ClientNext]_allVars =>
        [\A c \in Calls :
            pc[c] # "sent" /\ pc'[c] = "sent" =>
                /\ ~disposed
                /\ origin[reliesOn[c]] = generation
                /\ answer[reliesOn[c]] \in {"matching", "matchingWithQueries"}]_allVars
  BY <1>1
<1> QED
  BY <1>2, ClientInvHolds, PTL DEF ClientSpec, BearerAfterIdentity

(* What a logout has cleared stays cleared: no save of an earlier session  *)
(* can still bring its credential back (client.ts:447-456, 491-508).       *)
THEOREM LogoutsAreFinal == ClientSpec => []LogoutIsFinal
<1>1. ClientInv => LogoutIsFinal
  BY DEF ClientInv, CredentialInv, StoreInv
<1> QED
  BY <1>1, ClientInvHolds, PTL

(* A claim or rotation succeeds only with its credential saved             *)
(* (client.ts:301-307, 327-332, 491-502).                                  *)
THEOREM SuccessesAreSaved == ClientSpec => []SuccessIsSaved
<1>1. ClientInv => SuccessIsSaved
  BY DEF ClientInv, CredentialInv, StoreInv
<1> QED
  BY <1>1, ClientInvHolds, PTL

(* A dead credential in the store is always that of a rotation which is    *)
(* under way or was reported as failed (client.ts:310-333).                *)
THEOREM LockoutsAreReported == ClientSpec => []LockoutIsReported
<1>1. ClientInv => LockoutIsReported
  BY DEF ClientInv, CredentialInv, StoreInv
<1> QED
  BY <1>1, ClientInvHolds, PTL

-----------------------------------------------------------------------------
(* What a saved credential can count on: of the writes still queued none   *)
(* is of an earlier session, and no clear is its own session's.            *)
Behind(s, m) == IF IsSave(m) THEN session[m.by] >= s ELSE m.by > s

QueueBySession ==
    \A i, j \in DOMAIN queue :
        i < j /\ IsSave(queue[i]) => Behind(session[queue[i].by], queue[j])

KeptBy(c) ==
    /\ \A i \in DOMAIN queue : Behind(session[c], queue[i])
    /\ session[c] = generation => store # NoCredential /\ obtained[store] = generation

Keeping == QueueBySession /\ \A c \in Calls : pc[c] = "saved" => KeptBy(c)

(* What no step changes.                                                   *)
LEMMA Steady ==
    ASSUME ClientInv, [ClientNext]_allVars
    PROVE  /\ generation \in Nat /\ generation' \in Nat /\ generation <= generation'
           /\ \A d \in Calls : session[d] \in Nat /\ session[d] <= generation
           /\ \A d \in Calls : pc[d] \in {"saving", "saved"} => session'[d] = session[d]
           /\ store # NoCredential => obtained'[store] = obtained[store]
<1> USE DEF ClientInv, CredentialInv, StoreInv
<1>1. SessionInv'
  BY NextClientInv
<1>2. /\ generation \in Nat /\ generation' \in Nat
      /\ \A d \in Calls : session[d] \in Nat /\ session[d] <= generation
  BY <1>1, BoundsAssumption DEF SessionInv, TypeOK, PastSessions
<1>3. CASE IdentityStep \/ ClientLogout \/ UNCHANGED allVars \/ ClientQuiescent
  <2>1. [Next]_vars /\ UNCHANGED obtained
    BY <1>3 DEF IdentityStep, ClientLogout, ClientQuiescent, Next, allVars, clientVars,
       hubVars
  <2>2. Undisturbed
    BY <2>1, NextUndisturbed
  <2> QED
    BY <1>2, <2>1, <2>2 DEF Undisturbed, Rests, Discovers, Undetermined
<1>4. ASSUME NEW c \in Calls, RequestStep(c)
      PROVE  /\ UNCHANGED <<generation, session>>
             /\ store # NoCredential => obtained'[store] = obtained[store]
  <2>1. UNCHANGED <<generation, session>>
    <3>1. Moves(c)
      BY <1>4, RequestMoves DEF SessionInv
    <3> QED
      BY <3>1, MoveLeavesOthers
  <2>2. CASE UNCHANGED obtained
    BY <2>1, <2>2
  <2>3. CASE HubAccepts(c) /\ ~UNCHANGED obtained
    <3>1. obtained' = [obtained EXCEPT ![issued + 1] = session[c]]
      BY <2>3 DEF HubAccepts, hubVars
    <3>2. store <= issued /\ store \in Nat /\ issued \in Nat
      BY CredentialsAssumption DEF Numbered, ClientData, Credentials, NoCredential
    <3>3. store # issued + 1
      BY <3>2
    <3>4. store # NoCredential => store \in DOMAIN obtained
      BY DEF ClientData
    <3> QED
      BY <2>1, <3>1, <3>3, <3>4
  <2> QED
    BY <1>4, <2>2, <2>3 DEF RequestStep, Load, LoadReturns, Authorize, StopsWaiting,
       Dispatch, HubRefuses, TransportFails, Receive, ReadReturns, SaveReturns,
       clientVars, hubVars
<1>5. CASE WriteStep
  <2>1. UNCHANGED obtained
    BY <1>5 DEF WriteStep, WriteStarts, SaveEnds, ClearEnds, hubVars
  <2>2. UNCHANGED <<generation, session>>
    BY <1>5 DEF WriteStep, WriteStarts, SaveEnds, ClearEnds, OnlyMoves, vars,
       sessionVars, callVars
  <2> QED
    BY <1>2, <2>1, <2>2
<1> QED
  BY <1>2, <1>3, <1>4, <1>5 DEF ClientNext

(* Only a save that succeeds takes its call to "saved".                    *)
LEMMA WhoSaves ==
    ASSUME ClientInv, [ClientNext]_allVars, NEW c \in Calls, pc'[c] = "saved"
    PROVE  pc[c] = "saved" \/ SaveEnds(c)
<1> USE DEF ClientInv, CredentialInv, StoreInv
<1>1. CASE IdentityStep \/ ClientLogout \/ UNCHANGED allVars \/ ClientQuiescent
  <2>1. [Next]_vars
    BY <1>1 DEF IdentityStep, ClientLogout, ClientQuiescent, Next, allVars
  <2> QED
    BY <2>1, NextUndisturbed DEF Undisturbed, Rests, Discovers, Undetermined
<1>2. ASSUME NEW d \in Calls, RequestStep(d)
      PROVE  pc[c] = "saved"
  <2>1. CASE d # c
    <3>1. Moves(d)
      BY <1>2, RequestMoves DEF SessionInv
    <3> QED
      BY <2>1, <3>1, MoveLeavesOthers
  <2>2. CASE d = c
    BY <1>2, <2>2 DEF SessionInv, TypeOK, RequestStep, Load, LoadReturns, Authorize,
       StopsWaiting, Dispatch, HubAccepts, HubRefuses, TransportFails, Receive,
       ReadReturns, SaveReturns, Fail, GoTo, Settle
  <2> QED
    BY <2>1, <2>2
<1>3. ASSUME NEW d \in Calls, SaveEnds(d), d # c
      PROVE  pc[c] = "saved"
  BY <1>3 DEF SaveEnds, GoTo, SessionInv, TypeOK
<1>4. CASE WriteStarts
  BY <1>4 DEF WriteStarts, GoTo, SessionInv, TypeOK
<1>5. CASE ClearEnds
  BY <1>5 DEF ClearEnds, vars, callVars
<1> QED
  BY <1>1, <1>2, <1>3, <1>4, <1>5 DEF ClientNext, WriteStep

(* The queue grows by a save of the current session or the clear of the    *)
(* session that begins, and loses its first write.                         *)
LEMMA QueueSteps ==
    ASSUME ClientInv, [ClientNext]_allVars
    PROVE  \/ queue' = queue
           \/ queue # <<>> /\ queue' = Tail(queue)
           \/ \E m \in Mutations :
                 /\ queue' = Append(queue, m)
                 /\ IF IsSave(m) THEN session[m.by] = generation /\ UNCHANGED session
                                 ELSE m.by = generation + 1
<1> USE DEF ClientInv, CredentialInv
<1>1. CASE IdentityStep \/ UNCHANGED allVars \/ ClientQuiescent
  BY <1>1 DEF IdentityStep, ClientQuiescent, allVars, clientVars, credentialVars
<1>2. CASE ClientLogout
  <2> DEFINE m == [what |-> "clear", by |-> generation + 1]
  <2>1. m \in Mutations /\ ~IsSave(m)
    BY <1>2, BoundsAssumption DEF ClientLogout, Logout, SessionInv, TypeOK, Mutations,
       IsSave
  <2> QED
    BY <1>2, <2>1 DEF ClientLogout, Enqueue
<1>3. ASSUME NEW c \in Calls, Receive(c)
      PROVE  \/ queue' = queue
             \/ \E m \in Mutations :
                   /\ queue' = Append(queue, m)
                   /\ IsSave(m) /\ session[m.by] = generation /\ UNCHANGED session
  <2> DEFINE m == [what |-> "save", by |-> c]
  <2>1. CASE UNCHANGED queue
    BY <2>1
  <2>2. CASE Live(c) /\ Enqueue("save", c)
    <3>1. m \in Mutations /\ IsSave(m) /\ m.by = c
      BY DEF Mutations, IsSave
    <3> QED
      BY <1>3, <2>2, <3>1 DEF Enqueue, Live, Receive, OnlyMoves
  <2> QED
    BY <1>3, <2>1, <2>2 DEF Receive
<1>4. ASSUME NEW c \in Calls, RequestStep(c), ~Receive(c)
      PROVE  queue' = queue
  BY <1>4 DEF RequestStep, Load, LoadReturns, Authorize, StopsWaiting, Dispatch,
     HubAccepts, HubRefuses, TransportFails, ReadReturns, SaveReturns, clientVars,
     credentialVars
<1>5. CASE WriteStep
  BY <1>5 DEF WriteStep, WriteStarts, SaveEnds, ClearEnds, QueueInv, CurrentWrite
<1> QED
  BY <1>1, <1>2, <1>3, <1>4, <1>5 DEF ClientNext

(* Only a write that ends changes the store.                               *)
LEMMA WhoStores ==
    ASSUME ClientInv, [ClientNext]_allVars
    PROVE  store' = store \/ ClearEnds \/ \E d \in Calls : SaveEnds(d)
BY DEF ClientNext, IdentityStep, ClientLogout, RequestStep, Load, LoadReturns, Authorize,
   StopsWaiting, Dispatch, HubAccepts, HubRefuses, TransportFails, Receive, ReadReturns,
   SaveReturns, WriteStep, WriteStarts, ClientQuiescent, allVars, clientVars,
   credentialVars

LEMMA KeepingInit == ClientInit => Keeping
BY DEF ClientInit, Init, Keeping, QueueBySession

(* A write that was queued stays behind what it was behind of.             *)
StillBehind(s, m) == IF IsSave(m) THEN session'[m.by] >= s ELSE m.by > s

LEMMA BehindStays ==
    ASSUME ClientInv, [ClientNext]_allVars, NEW s, NEW i \in DOMAIN queue,
           Behind(s, queue[i])
    PROVE  StillBehind(s, queue[i])
<1>1. queue[i] \in Mutations
  BY DEF ClientInv, CredentialInv, ClientData
<1>2. IsSave(queue[i]) =>
         queue[i].by \in Calls /\ session'[queue[i].by] = session[queue[i].by]
  BY <1>1, Steady DEF ClientInv, CredentialInv, QueueInv, QueueOrder, Mutations, IsSave
<1> QED
  BY <1>2 DEF Behind, StillBehind

LEMMA KeepingNext == ClientInv /\ Keeping /\ [ClientNext]_allVars => Keeping'
<1> SUFFICES ASSUME ClientInv, Keeping, [ClientNext]_allVars PROVE Keeping'
  OBVIOUS
<1> USE DEF Keeping
<1>1. queue \in Seq(Mutations)
  BY DEF ClientInv, CredentialInv, ClientData
<1>2. \A i \in DOMAIN queue : IsSave(queue[i]) =>
         /\ queue[i].by \in Calls /\ pc[queue[i].by] = "saving"
         /\ session[queue[i].by] \in Nat
         /\ session'[queue[i].by] = session[queue[i].by]
  BY <1>1, Steady DEF ClientInv, CredentialInv, QueueInv, QueueOrder, Mutations, IsSave
<1>3. ASSUME NEW s \in 0 .. generation, NEW m \in Mutations,
             IF IsSave(m) THEN session[m.by] = generation /\ UNCHANGED session
                          ELSE m.by = generation + 1
      PROVE  StillBehind(s, m)
  BY <1>3, Steady DEF StillBehind
<1>4. QueueBySession'
  <2> SUFFICES ASSUME NEW i \in DOMAIN queue', NEW j \in DOMAIN queue',
                      i < j, IsSave(queue'[i])
               PROVE  StillBehind(session'[queue'[i].by], queue'[j])
    BY DEF QueueBySession, Behind, StillBehind, IsSave
  <2>1. CASE queue' = queue
    <3>1. Behind(session[queue[i].by], queue[j])
      BY <2>1 DEF QueueBySession
    <3> QED
      BY <1>2, <2>1, <3>1, BehindStays DEF Behind, StillBehind, IsSave
  <2>2. CASE queue # <<>> /\ queue' = Tail(queue)
    <3>1. /\ i + 1 \in DOMAIN queue /\ queue'[i] = queue[i + 1]
          /\ j + 1 \in DOMAIN queue /\ queue'[j] = queue[j + 1]
          /\ i + 1 < j + 1
      BY <1>1, <2>2
    <3>2. Behind(session[queue[i + 1].by], queue[j + 1])
      BY <3>1 DEF QueueBySession
    <3> QED
      BY <1>2, <3>1, <3>2, BehindStays DEF Behind, StillBehind, IsSave
  <2>3. ASSUME NEW m \in Mutations, queue' = Append(queue, m),
               IF IsSave(m) THEN session[m.by] = generation /\ UNCHANGED session
                            ELSE m.by = generation + 1
        PROVE  StillBehind(session'[queue'[i].by], queue'[j])
    <3>1. /\ DOMAIN queue' = DOMAIN queue \cup {Len(queue) + 1}
          /\ \A k \in DOMAIN queue : queue'[k] = queue[k]
          /\ queue'[Len(queue) + 1] = m
      BY <1>1, <2>3
    <3>2. i \in DOMAIN queue /\ (j \in DOMAIN queue \/ queue'[j] = m)
      BY <1>1, <3>1
    <3>3. CASE j \in DOMAIN queue
      <4>1. Behind(session[queue[i].by], queue[j])
        BY <3>1, <3>2, <3>3 DEF QueueBySession
      <4> QED
        BY <1>2, <3>1, <3>2, <3>3, <4>1, BehindStays DEF Behind, StillBehind, IsSave
    <3>4. CASE queue'[j] = m
      <4>1. session[queue[i].by] \in Nat /\ session[queue[i].by] <= generation
            /\ session'[queue'[i].by] = session[queue[i].by]
        BY <1>2, <3>1, <3>2, Steady
      <4> QED
        BY <1>3, <2>3, <3>4, <4>1 DEF Behind, StillBehind, IsSave
    <3> QED
      BY <3>2, <3>3, <3>4
  <2> QED
    BY <2>1, <2>2, <2>3, QueueSteps
<1>5. ASSUME NEW c \in Calls, pc'[c] = "saved"
      PROVE  KeptBy(c)'
  <2>1. /\ pc[c] \in {"saving", "saved"}
        /\ SaveEnds(c) => writing /\ queue # <<>> /\ IsSave(Head(queue)) /\ Head(queue).by = c
    <3>1. CASE SaveEnds(c)
      <4>1. writing /\ queue # <<>> /\ IsSave(Head(queue)) /\ Head(queue).by = c
        BY <3>1 DEF SaveEnds, IsSave, ClientInv, CredentialInv, QueueInv, CurrentWrite
      <4>2. pc[c] = "saving"
        BY <4>1, FirstWrite DEF ClientInv, CredentialInv, QueueInv, QueueOrder
      <4> QED
        BY <4>1, <4>2
    <3>2. CASE ~SaveEnds(c)
      BY <1>5, <3>2, WhoSaves
    <3> QED
      BY <3>1, <3>2
  <2>2. session[c] \in Nat /\ session[c] <= generation /\ session'[c] = session[c]
    BY <2>1, Steady
  <2>3. \A i \in DOMAIN queue' : StillBehind(session[c], queue'[i])
    <3>1. CASE pc[c] = "saved"
      <4>1. \A i \in DOMAIN queue : Behind(session[c], queue[i])
        BY <3>1 DEF KeptBy
      <4>2. \A i \in DOMAIN queue : StillBehind(session[c], queue[i])
        BY <2>2, <4>1, BehindStays DEF Behind, StillBehind, IsSave
      <4>3. CASE queue' = queue
        BY <4>2, <4>3
      <4>4. CASE queue # <<>> /\ queue' = Tail(queue)
        <5>1. \A i \in DOMAIN queue' : i + 1 \in DOMAIN queue /\ queue'[i] = queue[i + 1]
          BY <1>1, <4>4
        <5> QED
          BY <1>2, <2>2, <4>1, <5>1 DEF Behind, StillBehind, IsSave
      <4>5. ASSUME NEW m \in Mutations, queue' = Append(queue, m),
                   IF IsSave(m) THEN session[m.by] = generation /\ UNCHANGED session
                                ELSE m.by = generation + 1
            PROVE  \A i \in DOMAIN queue' : StillBehind(session[c], queue'[i])
        <5>1. \A i \in DOMAIN queue' : \/ i \in DOMAIN queue /\ queue'[i] = queue[i]
                                      \/ queue'[i] = m
          BY <1>1, <4>5
        <5>2. StillBehind(session[c], m)
          BY <1>3, <2>2, <4>5 DEF Behind, StillBehind, IsSave
        <5> QED
          BY <1>2, <2>2, <4>1, <5>1, <5>2 DEF Behind, StillBehind, IsSave
      <4> QED
        BY <4>3, <4>4, <4>5, QueueSteps
    <3>2. CASE SaveEnds(c)
      <4>1. /\ Head(queue) = queue[1] /\ 1 \in DOMAIN queue /\ queue' = Tail(queue)
            /\ \A i \in DOMAIN queue' :
                  i + 1 \in DOMAIN queue /\ queue'[i] = queue[i + 1] /\ 1 < i + 1
        BY <1>1, <2>1, <3>2 DEF SaveEnds
      <4>2. \A i \in DOMAIN queue' : Behind(session[c], queue[i + 1])
        BY <2>1, <3>2, <4>1 DEF QueueBySession
      <4> QED
        BY <1>2, <2>2, <4>1, <4>2 DEF Behind, StillBehind, IsSave
    <3> QED
      BY <1>5, <3>1, <3>2, WhoSaves
  <2>4. ASSUME session'[c] = generation'
        PROVE  store' # NoCredential /\ obtained'[store'] = generation'
    <3>1. generation' = generation /\ session[c] = generation
      BY <2>2, <2>4, Steady
    <3>2. ASSUME NEW d \in Calls, SaveEnds(d)
          PROVE  /\ grant[d] # NoCredential /\ obtained' = obtained
                 /\ obtained[grant[d]] = session[d]
                 /\ IsSave(queue[1]) /\ queue[1].by = d /\ 1 \in DOMAIN queue
                 /\ pc[d] = "saving"
      BY <3>2, FirstWrite
         DEF SaveEnds, IsSave, ClientInv, CredentialInv, StoreInv, QueueInv, QueueOrder,
             CurrentWrite, Carried, CarriedBy, hubVars
    <3>3. CASE SaveEnds(c)
      <4>1. store' = grant[c]
        BY <1>5, <3>2, <3>3 DEF SaveEnds, GoTo, ClientInv, SessionInv, TypeOK
      <4> QED
        BY <3>1, <3>2, <3>3, <4>1
    <3>4. CASE pc[c] = "saved"
      <4>1. /\ store # NoCredential /\ obtained[store] = generation
            /\ \A i \in DOMAIN queue : Behind(session[c], queue[i])
        BY <3>1, <3>4 DEF KeptBy
      <4>2. CASE store' = store
        BY <3>1, <4>1, <4>2, Steady
      <4>3. ASSUME NEW d \in Calls, SaveEnds(d)
            PROVE  store' # NoCredential /\ obtained'[store'] = generation'
        <5>1. session[d] >= generation /\ session[d] <= generation /\ session[d] \in Nat
          BY <3>1, <3>2, <4>1, <4>3, Steady DEF Behind
        <5>2. session[d] = generation
          BY <5>1, Steady
        <5>3. store' = store \/ store' = grant[d]
          BY <4>3 DEF SaveEnds
        <5> QED
          BY <3>1, <3>2, <4>1, <4>3, <5>2, <5>3
      <4>4. ~ClearEnds
        <5>1. SUFFICES ASSUME ClearEnds PROVE FALSE
          OBVIOUS
        <5>2. queue # <<>> /\ Head(queue).what = "clear"
          BY <5>1 DEF ClearEnds, ClientInv, CredentialInv, QueueInv, CurrentWrite
        <5>3. ~IsSave(queue[1]) /\ 1 \in DOMAIN queue /\ queue[1] \in Mutations
          BY <5>2, FirstWrite DEF ClientInv, CredentialInv
        <5>4. queue[1].by <= generation /\ queue[1].by \in Nat
          BY <5>3, BoundsAssumption
             DEF ClientInv, CredentialInv, QueueInv, QueueOrder, Mutations, IsSave
        <5>5. queue[1].by > generation
          BY <3>1, <4>1, <5>3 DEF Behind
        <5> QED
          BY <5>4, <5>5, Steady
      <4> QED
        BY <4>2, <4>3, <4>4, WhoStores
    <3> QED
      BY <1>5, <3>3, <3>4, WhoSaves
  <2> QED
    BY <2>2, <2>3, <2>4 DEF KeptBy, Behind, StillBehind, IsSave
<1> QED
  BY <1>4, <1>5

(* A claim or rotation is told of its success only while the store holds a *)
(* credential of the current session and no clear is to come: an assertion *)
(* behind the save, and the order of the queue                             *)
(* (client.ts:301-307, 327-332, 447-456, 491-508).                         *)
THEOREM SuccessesAreKept == ClientSpec => SuccessIsKept
<1>1. ASSUME ClientInv, Keeping, [ClientNext]_allVars, NEW c \in Calls,
             kind[c] \in {"claim", "rotate"}, outcome[c] # "ok", outcome'[c] = "ok"
      PROVE  /\ ~disposed
             /\ store # NoCredential /\ obtained[store] = generation
             /\ \A i \in DOMAIN queue : queue[i].what = "save"
  <2>1. RequestStep(c)
    BY <1>1, WhoMoves
  <2>2. ~ReadReturns(c)
    BY <1>1 DEF ReadReturns, ClientInv, CredentialInv, StoreInv, Carried, CarriedBy
  <2>3. SaveReturns(c)
    BY <1>1, <2>1, <2>2 DEF ClientInv, SessionInv, TypeOK, RequestStep, Load, LoadReturns,
       Authorize, StopsWaiting, Dispatch, HubAccepts, HubRefuses, TransportFails, Receive,
       Fail, GoTo, Settle
  <2>4. Live(c) /\ pc[c] = "saved"
    BY <1>1, <2>3 DEF ClientInv, SessionInv, TypeOK, SaveReturns, Fail, Settle
  <2>5. ~disposed /\ session[c] = generation
    BY <2>4 DEF Live
  <2>6. KeptBy(c)
    BY <1>1, <2>4 DEF Keeping
  <2>7. ASSUME NEW i \in DOMAIN queue
        PROVE  queue[i].what = "save"
    <3>1. queue[i] \in Mutations
      BY <1>1 DEF ClientInv, CredentialInv, ClientData
    <3>2. SUFFICES ASSUME ~IsSave(queue[i]) PROVE FALSE
      BY DEF IsSave
    <3>3. queue[i].by \in Nat /\ queue[i].by <= generation
      BY <1>1, <3>1, <3>2, BoundsAssumption
         DEF ClientInv, CredentialInv, QueueInv, QueueOrder, Mutations, IsSave
    <3>4. queue[i].by > generation
      BY <2>5, <2>6, <3>2 DEF KeptBy, Behind
    <3> QED
      BY <1>1, <3>3, <3>4, Steady
  <2> QED
    BY <2>5, <2>6, <2>7 DEF KeptBy
<1>2. ClientInv /\ Keeping /\ [ClientNext]_allVars =>
        [\A c \in Calls :
            kind[c] \in {"claim", "rotate"} /\ outcome[c] # "ok" /\ outcome'[c] = "ok" =>
                /\ ~disposed
                /\ store # NoCredential /\ obtained[store] = generation
                /\ \A i \in DOMAIN queue : queue[i].what = "save"]_allVars
  BY <1>1
<1>3. ClientSpec => []Keeping
  BY KeepingInit, KeepingNext, ClientInvHolds, PTL DEF ClientSpec
<1> QED
  BY <1>2, <1>3, ClientInvHolds, PTL DEF ClientSpec, SuccessIsKept
=============================================================================
