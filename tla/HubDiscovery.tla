---------------------------- MODULE HubDiscovery ----------------------------
(***************************************************************************)
(* The session and the shared discovery of the Hub client                  *)
(* (src/src/hub/client.ts).                                                *)
(*                                                                         *)
(* One client is shared by any number of concurrent method calls.  Each    *)
(* call belongs to the session it was begun in: logout() and dispose()     *)
(* start a new generation and abort the signal of the old one.  Every      *)
(* call but an explicit discover() first needs the Hub's identity          *)
(* (#ensureDiscovery): the cached document if there is one, else the       *)
(* answer of one discovery fetch that all concurrent callers share and     *)
(* that is aborted when the last of them leaves.                           *)
(*                                                                         *)
(* A step is the code between two awaits.  JavaScript runs one step at a   *)
(* time, but between any two of them every other call, a caller's abort,   *)
(* a logout or a disposal may run.  Abort listeners run inside the step    *)
(* that aborts the signal.                                                 *)
(*                                                                         *)
(* The definitions named Bad... are no part of the model: each is a        *)
(* definition with a mistake one could make in the code, and stands before *)
(* the right one.  Put in its place, it breaks the property PROJECT.json   *)
(* lists it under.                                                         *)
(***************************************************************************)
EXTENDS Naturals, FiniteSets

CONSTANTS
    Calls,          \* method calls on the client; each is made at most once
    Kinds,          \* the methods they call: a subset of AllKinds
    MaxFetches,     \* bound: discovery fetches
    MaxGenerations  \* bound: a logout needs generation < MaxGenerations

AllKinds == {"discover", "claim", "rotate", "query"}

ASSUME CallsAssumption  == IsFiniteSet(Calls)
ASSUME KindsAssumption  == Kinds \subseteq AllKinds
ASSUME BoundsAssumption == MaxFetches \in Nat /\ MaxGenerations \in Nat

VARIABLES
    generation,    \* #sessionGeneration
    disposed,      \* #disposed
    ownerAborted,  \* options.signal of createHubClient has aborted
    discovery,     \* #discovery: the fetch that brought the cached document
    pending,       \* #discoveryPending
    started,       \* number of discovery fetches begun so far
    stage,         \* stage[f]: how far the promise chain of fetch f has run
    origin,        \* origin[f]: generation of its sharedOperation
    released,      \* released[f]: its AbortController has been aborted
    waiters,       \* waiters[f]: the counter PendingDiscovery.waiters
    answer,        \* answer[f]: the document the Hub answered
    verdict,       \* verdict[f]: what the shared promise settles with
    pc,            \* pc[c]: where call c is
    kind,          \* kind[c]: the method
    session,       \* session[c]: HubOperation.generation
    aborted,       \* aborted[c]: the caller's own signal has aborted
    reliesOn,      \* reliesOn[c]: the fetch it waits for or was identified by
    outcome        \* outcome[c]: what its promise settled with

sessionVars == <<generation, disposed, ownerAborted>>
fetchVars   == <<discovery, pending, started, stage, origin, released, waiters,
                 answer, verdict>>
callVars    == <<pc, kind, session, aborted, reliesOn, outcome>>
vars        == <<sessionVars, fetchVars, callVars>>

-----------------------------------------------------------------------------
NoFetch == 0
Fetches == 1 .. MaxFetches

(* What the client tells apart in a valid discovery document: whether it   *)
(* names the expected Hub, and whether that Hub offers the query methods.  *)
Documents == {"otherHub", "matching", "matchingWithQueries"}

Stages   == {"unused", "flight", "answered", "failed", "fulfilled", "caught",
             "settled"}
Verdicts == {"none", "ok", "mismatch", "failed", "aborted"}

(* Where a call can be.  Behind "ready" HubClient takes over; here a call  *)
(* that knows its Hub stays there.                                         *)
PCs == {"idle", "waiting", "resolved", "identified", "ready", "loading",
        "loaded", "authorized", "sent", "accepted", "refused", "read",
        "saving", "saved", "unsaved", "done"}

Outcomes == {"none", "ok", "mismatch", "failed", "aborted", "unsupported",
             "disposed"}

TypeOK ==
    /\ generation \in 0 .. MaxGenerations + 1
    /\ disposed \in BOOLEAN
    /\ ownerAborted \in BOOLEAN
    /\ discovery \in Fetches \cup {NoFetch}
    /\ pending \in Fetches \cup {NoFetch}
    /\ started \in 0 .. MaxFetches
    /\ stage \in [Fetches -> Stages]
    /\ origin \in [Fetches -> 0 .. MaxGenerations]
    /\ released \in [Fetches -> BOOLEAN]
    /\ waiters \in [Fetches -> Nat]
    /\ answer \in [Fetches -> Documents \cup {"none"}]
    /\ verdict \in [Fetches -> Verdicts]
    /\ pc \in [Calls -> PCs]
    /\ kind \in [Calls -> AllKinds \cup {"none"}]
    /\ session \in [Calls -> 0 .. MaxGenerations]
    /\ aborted \in [Calls -> BOOLEAN]
    /\ reliesOn \in [Calls -> Fetches \cup {NoFetch}]
    /\ outcome \in [Calls -> Outcomes]

Init ==
    /\ generation = 0
    /\ disposed = FALSE
    /\ ownerAborted = FALSE
    /\ discovery = NoFetch
    /\ pending = NoFetch
    /\ started = 0
    /\ stage = [f \in Fetches |-> "unused"]
    /\ origin = [f \in Fetches |-> 0]
    /\ released = [f \in Fetches |-> FALSE]
    /\ waiters = [f \in Fetches |-> 0]
    /\ answer = [f \in Fetches |-> "none"]
    /\ verdict = [f \in Fetches |-> "none"]
    /\ pc = [c \in Calls |-> "idle"]
    /\ kind = [c \in Calls |-> "none"]
    /\ session = [c \in Calls |-> 0]
    /\ aborted = [c \in Calls |-> FALSE]
    /\ reliesOn = [c \in Calls |-> NoFetch]
    /\ outcome = [c \in Calls |-> "none"]

-----------------------------------------------------------------------------
(* #assertOperation does not throw for call c.  AbortSignal.any combines   *)
(* the owner's, the session's and the caller's signal; the session's is    *)
(* aborted exactly when the generation moves on.                           *)
Live(c) ==
    /\ ~disposed
    /\ session[c] = generation
    /\ ~ownerAborted
    /\ ~aborted[c]

(* The same for the operation of a shared fetch, whose third signal is the *)
(* controller in PendingDiscovery.                                         *)
FetchLive(f) ==
    /\ ~disposed
    /\ origin[f] = generation
    /\ ~ownerAborted
    /\ ~released[f]

Settle(c, result) ==
    /\ pc' = [pc EXCEPT ![c] = "done"]
    /\ outcome' = [outcome EXCEPT ![c] = result]

-----------------------------------------------------------------------------
(* finish() of #waitForDiscovery, for a set S of waiting calls at once:    *)
(* each takes one off the counter, and the one that brings the counter of  *)
(* the current fetch to zero aborts the fetch and drops it.                *)
Waiting(S, f) == {c \in S : pc[c] = "waiting" /\ reliesOn[c] = f}

(* Whoever leaves takes the fetch along.                                   *)
BadAbandons(S) == pending # NoFetch /\ Waiting(S, pending) # {}

Abandons(S) ==
    /\ pending # NoFetch
    /\ Waiting(S, pending) # {}
    /\ waiters[pending] = Cardinality(Waiting(S, pending))

(* The abandoned fetch is dropped but not aborted.                         *)
BadLeave(S) ==
    /\ waiters' = [f \in Fetches |-> waiters[f] - Cardinality(Waiting(S, f))]
    /\ UNCHANGED released

Leave(S) ==
    /\ waiters' = [f \in Fetches |-> waiters[f] - Cardinality(Waiting(S, f))]
    /\ released' = [f \in Fetches |->
                       released[f] \/ (f = pending /\ Abandons(S))]

(* The abort listeners of the calls in S run: those that wait reject.      *)
Interrupt(S) ==
    /\ Leave(S)
    /\ pc' = [c \in Calls |->
                 IF c \in S /\ pc[c] = "waiting" THEN "done" ELSE pc[c]]
    /\ outcome' = [c \in Calls |->
                 IF c \in S /\ pc[c] = "waiting" THEN "aborted" ELSE outcome[c]]
    /\ UNCHANGED <<started, stage, origin, answer, verdict, kind, session,
                   reliesOn>>

-----------------------------------------------------------------------------
(* A call begins: #beginOperation, the checks before the first await, then *)
(* #ensureDiscovery or #discover, all in one step.                         *)

(* #requireActive throws, or #assertOperation does because the owner's     *)
(* signal or the one the call is made with has already aborted.  A claim   *)
(* also fails here when its invitation, device name, body size or          *)
(* transport is not usable.                                                *)
BeginRefused(c, k) ==
    /\ pc[c] = "idle"
    /\ kind' = [kind EXCEPT ![c] = k]
    /\ \/ disposed /\ Settle(c, "disposed") /\ UNCHANGED aborted
       \/ ~disposed /\ ownerAborted /\ Settle(c, "aborted") /\ UNCHANGED aborted
       \/ ~disposed /\ Settle(c, "aborted")
          /\ aborted' = [aborted EXCEPT ![c] = TRUE]
       \/ ~disposed /\ ~ownerAborted /\ k = "claim" /\ Settle(c, "failed")
          /\ UNCHANGED aborted
    /\ UNCHANGED <<sessionVars, fetchVars, session, reliesOn>>

(* The assertion of #beginOperation holds and the call joins the session.  *)
Begins(c, k) ==
    /\ pc[c] = "idle"
    /\ ~disposed
    /\ ~ownerAborted
    /\ kind' = [kind EXCEPT ![c] = k]
    /\ session' = [session EXCEPT ![c] = generation]
    /\ UNCHANGED <<sessionVars, aborted>>

(* #ensureDiscovery finds a cached document.                               *)
BeginCached(c, k) ==
    /\ Begins(c, k)
    /\ k # "discover"
    /\ discovery # NoFetch
    /\ pc' = [pc EXCEPT ![c] = "identified"]
    /\ reliesOn' = [reliesOn EXCEPT ![c] = discovery]
    /\ UNCHANGED <<fetchVars, outcome>>

NeedsFetch(k) == k = "discover" \/ discovery = NoFetch

(* The joining call is not counted.                                        *)
BadBeginJoin(c, k) ==
    /\ Begins(c, k)
    /\ NeedsFetch(k)
    /\ pending # NoFetch
    /\ pc' = [pc EXCEPT ![c] = "waiting"]
    /\ reliesOn' = [reliesOn EXCEPT ![c] = pending]
    /\ UNCHANGED <<fetchVars, outcome>>

(* #discover joins the fetch under way.                                    *)
BeginJoin(c, k) ==
    /\ Begins(c, k)
    /\ NeedsFetch(k)
    /\ pending # NoFetch
    /\ pc' = [pc EXCEPT ![c] = "waiting"]
    /\ reliesOn' = [reliesOn EXCEPT ![c] = pending]
    /\ waiters' = [waiters EXCEPT ![pending] = @ + 1]
    /\ UNCHANGED <<discovery, pending, started, stage, origin, released, answer,
                   verdict, outcome>>

(* #discover starts a fetch of its own and becomes its first waiter.       *)
BeginFetch(c, k) ==
    LET f == started + 1 IN
    /\ Begins(c, k)
    /\ NeedsFetch(k)
    /\ pending = NoFetch
    /\ started < MaxFetches
    /\ started' = f
    /\ pending' = f
    /\ stage' = [stage EXCEPT ![f] = "flight"]
    /\ origin' = [origin EXCEPT ![f] = generation]
    /\ waiters' = [waiters EXCEPT ![f] = 1]
    /\ pc' = [pc EXCEPT ![c] = "waiting"]
    /\ reliesOn' = [reliesOn EXCEPT ![c] = f]
    /\ UNCHANGED <<discovery, released, answer, verdict, outcome>>

Begin(c) ==
    \E k \in Kinds :
        BeginRefused(c, k) \/ BeginCached(c, k) \/ BeginJoin(c, k)
            \/ BeginFetch(c, k)

-----------------------------------------------------------------------------
(* The shared #read ends: the Hub's answer has been decoded ...            *)
FetchAnswers(f) ==
    /\ stage[f] = "flight"
    /\ \E d \in Documents : answer' = [answer EXCEPT ![f] = d]
    /\ stage' = [stage EXCEPT ![f] = "answered"]
    /\ UNCHANGED <<sessionVars, callVars, discovery, pending, started, origin,
                   released, waiters, verdict>>

(* ... or it failed: transport, status, decoding, or its signal aborted.   *)
FetchFails(f) ==
    /\ stage[f] = "flight"
    /\ stage' = [stage EXCEPT ![f] = "failed"]
    /\ verdict' = [verdict EXCEPT ![f] =
                      IF FetchLive(f) THEN "failed" ELSE "aborted"]
    /\ UNCHANGED <<sessionVars, callVars, discovery, pending, started, origin,
                   released, waiters, answer>>

(* The shared operation is not asserted.                                   *)
BadFetchThen(f) ==
    /\ stage[f] = "answered"
    /\ IF answer[f] = "otherHub"
       THEN /\ verdict' = [verdict EXCEPT ![f] = "mismatch"]
            /\ stage' = [stage EXCEPT ![f] = "failed"]
            /\ UNCHANGED discovery
       ELSE /\ verdict' = [verdict EXCEPT ![f] = "ok"]
            /\ stage' = [stage EXCEPT ![f] = "fulfilled"]
            /\ discovery' = f
    /\ UNCHANGED <<sessionVars, callVars, pending, started, origin, released,
                   waiters, answer>>

(* .then: assert the shared operation, compare the Hub UUID, fill the      *)
(* cache.                                                                  *)
FetchThen(f) ==
    /\ stage[f] = "answered"
    /\ \/ /\ ~FetchLive(f)
          /\ verdict' = [verdict EXCEPT ![f] = "aborted"]
          /\ stage' = [stage EXCEPT ![f] = "failed"]
          /\ UNCHANGED discovery
       \/ /\ FetchLive(f)
          /\ answer[f] = "otherHub"
          /\ verdict' = [verdict EXCEPT ![f] = "mismatch"]
          /\ stage' = [stage EXCEPT ![f] = "failed"]
          /\ UNCHANGED discovery
       \/ /\ FetchLive(f)
          /\ answer[f] # "otherHub"
          /\ verdict' = [verdict EXCEPT ![f] = "ok"]
          /\ stage' = [stage EXCEPT ![f] = "fulfilled"]
          /\ discovery' = f
    /\ UNCHANGED <<sessionVars, callVars, pending, started, origin, released,
                   waiters, answer>>

(* Only a mismatch invalidates the identity.                               *)
BadFetchCatch(f) ==
    /\ stage[f] = "failed"
    /\ stage' = [stage EXCEPT ![f] = "caught"]
    /\ discovery' = IF pending = f /\ verdict[f] = "mismatch"
                    THEN NoFetch ELSE discovery
    /\ UNCHANGED <<sessionVars, callVars, pending, started, origin, released,
                   waiters, answer, verdict>>

(* .catch: a failure of the current fetch of the current session           *)
(* invalidates the cached identity.                                        *)
FetchCatch(f) ==
    /\ stage[f] = "failed"
    /\ stage' = [stage EXCEPT ![f] = "caught"]
    /\ discovery' = IF pending = f /\ origin[f] = generation /\ ~disposed
                    THEN NoFetch ELSE discovery
    /\ UNCHANGED <<sessionVars, callVars, pending, started, origin, released,
                   waiters, answer, verdict>>

(* .finally: the fetch is no longer one to join.                           *)
FetchFinally(f) ==
    /\ stage[f] \in {"fulfilled", "caught"}
    /\ stage' = [stage EXCEPT ![f] = "settled"]
    /\ pending' = IF pending = f THEN NoFetch ELSE pending
    /\ UNCHANGED <<sessionVars, callVars, discovery, started, origin, released,
                   waiters, answer, verdict>>

-----------------------------------------------------------------------------
(* Nobody listens for the rejection of the shared promise.                 *)
BadWaiterResumes(c) ==
    LET f == reliesOn[c] IN
    /\ pc[c] = "waiting"
    /\ stage[f] = "settled"
    /\ verdict[f] = "ok"
    /\ Leave({c})
    /\ pc' = [pc EXCEPT ![c] =
                  IF kind[c] = "discover" THEN "resolved" ELSE "identified"]
    /\ UNCHANGED <<sessionVars, discovery, pending, started, stage, origin,
                   answer, verdict, kind, session, aborted, reliesOn, outcome>>

(* The shared promise calls back a call that still waits: its wait rejects *)
(* or, behind an assertion, resolves.                                      *)
WaiterResumes(c) ==
    LET f == reliesOn[c] IN
    /\ pc[c] = "waiting"
    /\ stage[f] = "settled"
    /\ Leave({c})
    /\ pending' = IF Abandons({c}) THEN NoFetch ELSE pending
    /\ \/ /\ verdict[f] # "ok"
          /\ Settle(c, verdict[f])
       \/ /\ verdict[f] = "ok"
          /\ ~Live(c)
          /\ Settle(c, "aborted")
       \/ /\ verdict[f] = "ok"
          /\ Live(c)
          /\ pc' = [pc EXCEPT ![c] =
                        IF kind[c] = "discover" THEN "resolved" ELSE "identified"]
          /\ UNCHANGED outcome
    /\ UNCHANGED <<sessionVars, discovery, started, stage, origin, answer,
                   verdict, kind, session, aborted, reliesOn>>

(* discover() passes the result on through the promises of two async       *)
(* functions, and asserts nothing on the way.                              *)
DiscoverReturns(c) ==
    /\ pc[c] = "resolved"
    /\ Settle(c, "ok")
    /\ UNCHANGED <<sessionVars, fetchVars, kind, session, aborted, reliesOn>>

(* Behind the await of #ensureDiscovery: assert, and for the query methods *)
(* check the capability in the document the call was given.                *)
Proceed(c) ==
    /\ pc[c] = "identified"
    /\ \/ /\ ~Live(c)
          /\ Settle(c, "aborted")
       \/ /\ Live(c)
          /\ kind[c] = "query"
          /\ answer[reliesOn[c]] # "matchingWithQueries"
          /\ Settle(c, "unsupported")
       \/ /\ Live(c)
          /\ kind[c] = "query" => answer[reliesOn[c]] = "matchingWithQueries"
          /\ pc' = [pc EXCEPT ![c] = "ready"]
          /\ UNCHANGED outcome
    /\ UNCHANGED <<sessionVars, fetchVars, kind, session, aborted, reliesOn>>

-----------------------------------------------------------------------------
(* The caller aborts the signal it passed while the call is under way.     *)
CallerAborts(c) ==
    /\ pc[c] \notin {"idle", "done"}
    /\ ~aborted[c]
    /\ aborted' = [aborted EXCEPT ![c] = TRUE]
    /\ Interrupt({c})
    /\ pending' = IF Abandons({c}) THEN NoFetch ELSE pending
    /\ UNCHANGED <<sessionVars, discovery>>

(* The owner aborts the signal the client was created with.                *)
OwnerAborts ==
    /\ ~ownerAborted
    /\ ownerAborted' = TRUE
    /\ Interrupt(Calls)
    /\ pending' = IF Abandons(Calls) THEN NoFetch ELSE pending
    /\ UNCHANGED <<generation, disposed, discovery, aborted>>

InSession == {c \in Calls : session[c] = generation}

(* logout() up to its await, and dispose(): abort the session's signal,    *)
(* start the next generation, forget the identity and the fetch.           *)
EndSession ==
    /\ ~disposed
    /\ generation' = generation + 1
    /\ Interrupt(InSession)
    /\ discovery' = NoFetch
    /\ pending' = NoFetch
    /\ UNCHANGED <<ownerAborted, aborted>>

Logout ==
    /\ generation < MaxGenerations
    /\ EndSession
    /\ UNCHANGED disposed

Dispose ==
    /\ EndSession
    /\ disposed' = TRUE

-----------------------------------------------------------------------------
FetchStep(f) ==
    FetchAnswers(f) \/ FetchFails(f) \/ FetchThen(f) \/ FetchCatch(f)
        \/ FetchFinally(f)

(* The continuations of a call.                                            *)
Continue(c) == WaiterResumes(c) \/ DiscoverReturns(c) \/ Proceed(c)

CallStep(c) == Begin(c) \/ Continue(c) \/ CallerAborts(c)

(* Nothing is left to run: every call has been answered and every fetch    *)
(* has settled.  Any other state without a successor is a deadlock.        *)
Quiescent ==
    /\ \A c \in Calls : pc[c] \in {"ready", "done"}
    /\ \A f \in Fetches : stage[f] \in {"unused", "settled"}
    /\ UNCHANGED vars

Next ==
    \/ \E c \in Calls : CallStep(c)
    \/ \E f \in Fetches : FetchStep(f)
    \/ OwnerAborts
    \/ Logout
    \/ Dispose
    \/ Quiescent

Spec == Init /\ [][Next]_vars

(* Promise callbacks run, and a fetch answers or fails.  Nothing obliges a *)
(* caller to begin a call, to abort, or to end the session.                *)
Fairness ==
    /\ \A f \in Fetches : WF_vars(FetchStep(f))
    /\ \A c \in Calls : WF_vars(Continue(c))

FairSpec == Spec /\ Fairness

-----------------------------------------------------------------------------
(* A cached identity was answered by the expected Hub to a fetch of the    *)
(* session that is current now; a disposed client caches none.  So no      *)
(* answer that was under way when logout() or dispose() ran can bring the  *)
(* old identity back (client.ts:176-182, 451-453, 463-465).                *)
IdentityOfThisSession ==
    discovery # NoFetch =>
        /\ ~disposed
        /\ origin[discovery] = generation
        /\ answer[discovery] \in {"matching", "matchingWithQueries"}

(* The waiters counter is the number of calls that wait, whatever mix of   *)
(* joins, results and aborts there was, and a fetch that can be joined is  *)
(* of this session, has not been aborted, has not settled, and has         *)
(* somebody waiting for it (client.ts:203-240).                            *)
FetchIsJoinable ==
    /\ \A f \in Fetches : waiters[f] = Cardinality(Waiting(Calls, f))
    /\ pending # NoFetch =>
          /\ origin[pending] = generation /\ ~disposed
          /\ ~released[pending]
          /\ stage[pending] \notin {"unused", "settled"}
          /\ waiters[pending] > 0

(* Concurrent callers share one discovery: of all fetches that could still *)
(* fill the cache there is at most one, the one a new caller joins; a      *)
(* superseded fetch can no longer overwrite a newer identity               *)
(* (client.ts:162-201).                                                    *)
OneLiveFetch ==
    \A f \in Fetches :
        stage[f] \notin {"unused", "settled"} /\ FetchLive(f) => pending = f

(* A call is only told "aborted" when a signal of its own is: its caller's *)
(* or the owner's, or its session has ended.  A caller that leaves a       *)
(* shared discovery never fails the others (client.ts:209-223).            *)
NoForeignAbort ==
    \A c \in Calls :
        outcome[c] = "aborted" =>
            aborted[c] \/ ownerAborted \/ disposed \/ session[c] # generation

(* docs/compatibility.md:68 - a refresh that fails or finds another Hub    *)
(* invalidates the cached identity: once a caller has been told so, the    *)
(* cache is empty or was filled by a later fetch (client.ts:183-192).      *)
FailedRefreshInvalidates ==
    \A c \in Calls :
        reliesOn[c] # NoFetch /\ outcome[c] \in {"failed", "mismatch"} =>
            discovery = NoFetch \/ discovery > reliesOn[c]

(* A call that waits can still succeed: an abort of any kind answers it in *)
(* the step of the abort, so it waits for a fetch of its own session and   *)
(* is never left behind by one (client.ts:225-238).                        *)
WaitingCallsAreLive ==
    \A c \in Calls :
        pc[c] = "waiting" =>
            Live(c) /\ origin[reliesOn[c]] = session[c]
=============================================================================
