----------------------------- MODULE HubClient -----------------------------
(***************************************************************************)
(* The Hub client (src/src/hub/client.ts) with its credentials: what the   *)
(* calls of HubDiscovery do once they know the Hub, and the queue that     *)
(* orders every write to the caller's credential store.                    *)
(*                                                                         *)
(* claim:  send the pairing secret, save the credential the Hub grants.    *)
(* rotate: load the credential, have the Hub replace it, save the new one. *)
(* query:  vehicles(), current() and drives(): load the credential, send   *)
(*         it as the bearer of one read.                                   *)
(*                                                                         *)
(* The credential store and the Hub are not the client's own: load() is    *)
(* not ordered with the writes, any of them may fail, and a write that     *)
(* fails may have happened.  The Hub honours a credential until it rotates *)
(* it.                                                                     *)
(***************************************************************************)
EXTENDS HubDiscovery, Sequences

CONSTANT MaxCredentials  \* bound: credentials ever issued, the first included

ASSUME CredentialsAssumption == MaxCredentials \in Nat \ {0}

VARIABLES
    store,      \* the credential in the caller's HubCredentialStore
    queue,      \* #credentialMutation: the writes not yet finished, in order
    writing,    \* the first of them has been handed to the store
    holds,      \* holds[c]: the credential call c loaded
    grant,      \* grant[c]: the credential the Hub granted to call c
    issued,     \* number of credentials issued so far
    honoured,   \* the credentials the Hub accepts
    obtained,   \* history: obtained[k] is the session that obtained k
    saved,      \* history: the credentials whose save has succeeded
    cleared     \* history: the latest generation whose logout has cleared

credentialVars == <<store, queue, writing, saved, cleared>>
hubVars        == <<issued, honoured, obtained>>
carriedVars    == <<holds, grant>>
clientVars     == <<credentialVars, hubVars, carriedVars>>
allVars        == <<vars, clientVars>>

-----------------------------------------------------------------------------
NoCredential == 0
Credentials  == 1 .. MaxCredentials
Mutations    == [what : {"save"}, by : Calls]
                    \cup [what : {"clear"}, by : 1 .. MaxGenerations]

ClientTypeOK ==
    /\ TypeOK
    /\ store \in Credentials \cup {NoCredential}
    /\ queue \in Seq(Mutations)
    /\ writing \in BOOLEAN
    /\ holds \in [Calls -> Credentials \cup {NoCredential}]
    /\ grant \in [Calls -> Credentials \cup {NoCredential}]
    /\ issued \in Credentials
    /\ honoured \subseteq Credentials
    /\ obtained \in [Credentials -> 0 .. MaxGenerations]
    /\ saved \subseteq Credentials
    /\ cleared \in 0 .. MaxGenerations

(* Credential 1 is what an earlier client of the same store has left, or   *)
(* there is none.                                                          *)
ClientInit ==
    /\ Init
    /\ store \in {NoCredential, 1}
    /\ queue = <<>>
    /\ writing = FALSE
    /\ holds = [c \in Calls |-> NoCredential]
    /\ grant = [c \in Calls |-> NoCredential]
    /\ issued = 1
    /\ honoured = {1}
    /\ obtained = [k \in Credentials |-> 0]
    /\ saved = {}
    /\ cleared = 0

-----------------------------------------------------------------------------
GoTo(c, place) ==
    /\ pc' = [pc EXCEPT ![c] = place]
    /\ UNCHANGED outcome

(* The rest of the state when only where call c stands changes.            *)
OnlyMoves == UNCHANGED <<sessionVars, fetchVars, kind, session, aborted, reliesOn>>

(* The error a call ends with: #assertOperation's when its signal or its   *)
(* session is gone, which also takes precedence over the store's errors.   *)
Fail(c) == Settle(c, IF Live(c) THEN "failed" ELSE "aborted")

-----------------------------------------------------------------------------
(* #loadCredential: asserted, then credentials.load() is called.           *)
Load(c) ==
    /\ pc[c] = "ready"
    /\ kind[c] \in {"query", "rotate"}
    /\ IF Live(c) THEN GoTo(c, "loading") ELSE Fail(c)
    /\ OnlyMoves
    /\ UNCHANGED clientVars

(* The store answers at a moment of its own, whatever is being written.    *)
LoadReturns(c) ==
    /\ pc[c] = "loading"
    /\ \/ /\ holds' = [holds EXCEPT ![c] = store]
          /\ GoTo(c, "loaded")
       \/ /\ Fail(c)
          /\ UNCHANGED holds
    /\ OnlyMoves
    /\ UNCHANGED <<credentialVars, hubVars, grant>>

(* The operation is asserted again and the credential validated.  Without  *)
(* one, rotateDevice() stops; a query goes on and sends no bearer.         *)
Authorize(c) ==
    /\ pc[c] = "loaded"
    /\ \/ Live(c) /\ (holds[c] # NoCredential \/ kind[c] = "query")
          /\ GoTo(c, "authorized")
       \/ Fail(c)
    /\ OnlyMoves
    /\ UNCHANGED clientVars

(* waitForAuthorization races the load of a query against its signal;      *)
(* rotateDevice() awaits its own load without a race.                      *)
StopsWaiting(c) ==
    /\ pc[c] \in {"loading", "loaded"}
    /\ kind[c] = "query"
    /\ ~Live(c)
    /\ Settle(c, "aborted")
    /\ OnlyMoves
    /\ UNCHANGED clientVars

(* Nothing is asserted behind the load.                                    *)
BadDispatch(c) ==
    /\ \/ pc[c] = "authorized"
       \/ pc[c] = "ready" /\ kind[c] = "claim"
    /\ GoTo(c, "sent")
    /\ OnlyMoves
    /\ UNCHANGED clientVars

(* The request leaves, behind onDispatch's assertion for Fetch and behind  *)
(* the assertion of claimPairing() for the claim transport.                *)
Dispatch(c) ==
    /\ \/ pc[c] = "authorized"
       \/ pc[c] = "ready" /\ kind[c] = "claim"
    /\ IF Live(c) THEN GoTo(c, "sent") ELSE Fail(c)
    /\ OnlyMoves
    /\ UNCHANGED clientVars

-----------------------------------------------------------------------------
(* The Hub (external).  It answers a query or rotates for a credential it  *)
(* honours, and grants one to a claim; rotation ends the old credential.   *)
HubAccepts(c) ==
    /\ pc[c] = "sent"
    /\ kind[c] \in {"query", "rotate"} => holds[c] \in honoured
    /\ GoTo(c, "accepted")
    /\ IF kind[c] = "query"
       THEN UNCHANGED <<hubVars, grant>>
       ELSE LET k == issued + 1 IN
            /\ issued < MaxCredentials
            /\ issued' = k
            /\ grant' = [grant EXCEPT ![c] = k]
            /\ obtained' = [obtained EXCEPT ![k] = session[c]]
            /\ honoured' = (honoured \cup {k}) \
                               (IF kind[c] = "rotate" THEN {holds[c]} ELSE {})
    /\ OnlyMoves
    /\ UNCHANGED <<credentialVars, holds>>

HubRefuses(c) ==
    /\ pc[c] = "sent"
    /\ GoTo(c, "refused")
    /\ OnlyMoves
    /\ UNCHANGED clientVars

(* The request or its response is lost, or the transport gives up because  *)
(* the signal aborted.  A typed error of the transport is passed on as it  *)
(* is, even then.                                                          *)
TransportFails(c) ==
    /\ pc[c] \in {"sent", "accepted", "refused"}
    /\ Fail(c) \/ Settle(c, "failed")
    /\ OnlyMoves
    /\ UNCHANGED clientVars

-----------------------------------------------------------------------------
(* #enqueueCredentialMutation: behind every write enqueued before.         *)
Enqueue(what, by) == queue' = Append(queue, [what |-> what, by |-> by])

(* A rotation is answered without saving what the Hub granted.             *)
BadReceive(c) ==
    /\ pc[c] \in {"accepted", "refused"}
    /\ \/ Fail(c) /\ UNCHANGED queue
       \/ Live(c) /\ pc[c] = "accepted" /\ kind[c] # "claim"
          /\ GoTo(c, "read") /\ UNCHANGED queue
       \/ Live(c) /\ pc[c] = "accepted" /\ kind[c] = "claim"
          /\ GoTo(c, "saving") /\ Enqueue("save", c)
    /\ OnlyMoves
    /\ UNCHANGED <<store, writing, saved, cleared, hubVars, carriedVars>>

(* The response is decoded and asserted.  A query has its answer; a        *)
(* granted credential that is valid, unexpired and of the right device is  *)
(* queued to be saved.                                                     *)
Receive(c) ==
    /\ pc[c] \in {"accepted", "refused"}
    /\ \/ Fail(c) /\ UNCHANGED queue
       \/ Live(c) /\ pc[c] = "accepted" /\ kind[c] = "query"
          /\ GoTo(c, "read") /\ UNCHANGED queue
       \/ Live(c) /\ pc[c] = "accepted" /\ kind[c] # "query"
          /\ GoTo(c, "saving") /\ Enqueue("save", c)
    /\ OnlyMoves
    /\ UNCHANGED <<store, writing, saved, cleared, hubVars, carriedVars>>

(* The answer of a query passes through withResponseOwnership and the      *)
(* query method, which assert nothing more; current() compares the vehicle *)
(* it names.                                                               *)
ReadReturns(c) ==
    /\ pc[c] = "read"
    /\ Settle(c, "ok") \/ Settle(c, "failed")
    /\ OnlyMoves
    /\ UNCHANGED clientVars

(* The first write starts: a save asserts its operation once more, and     *)
(* leaves the queue without touching the store if that is over.            *)
WriteStarts ==
    /\ queue # <<>>
    /\ ~writing
    /\ LET m == Head(queue) IN
       IF m.what = "clear" \/ Live(m.by)
       THEN /\ writing' = TRUE
            /\ UNCHANGED <<queue, pc, outcome>>
       ELSE /\ queue' = Tail(queue)
            /\ GoTo(m.by, "unsaved")
            /\ UNCHANGED writing
    /\ OnlyMoves
    /\ UNCHANGED <<store, saved, cleared, hubVars, carriedVars>>

(* The caller is given the promise whose rejection the queue swallows.     *)
BadSaveEnds(c) ==
    /\ writing
    /\ Head(queue) = [what |-> "save", by |-> c]
    /\ \/ store' = grant[c] /\ saved' = saved \cup {grant[c]}
       \/ UNCHANGED <<store, saved>>
    /\ GoTo(c, "saved")
    /\ queue' = Tail(queue)
    /\ writing' = FALSE
    /\ OnlyMoves
    /\ UNCHANGED <<cleared, hubVars, carriedVars>>

(* The queue is not caught: a rejected save rejects every write behind it. *)
BadSaveEndsUncaught(c) ==
    /\ writing
    /\ Head(queue) = [what |-> "save", by |-> c]
    /\ \/ /\ store' = grant[c]
          /\ saved' = saved \cup {grant[c]}
          /\ GoTo(c, "saved")
          /\ queue' = Tail(queue)
       \/ /\ store' \in {store, grant[c]}
          /\ pc' = [d \in Calls |-> IF pc[d] = "saving" THEN "unsaved" ELSE pc[d]]
          /\ queue' = <<>>
          /\ UNCHANGED <<saved, outcome>>
    /\ writing' = FALSE
    /\ OnlyMoves
    /\ UNCHANGED <<cleared, hubVars, carriedVars>>

(* The store has saved ...                                                 *)
SaveEnds(c) ==
    /\ writing
    /\ Head(queue) = [what |-> "save", by |-> c]
    /\ \/ /\ store' = grant[c]
          /\ saved' = saved \cup {grant[c]}
          /\ GoTo(c, "saved")
       \/ /\ store' \in {store, grant[c]}
          /\ UNCHANGED saved
          /\ GoTo(c, "unsaved")
    /\ queue' = Tail(queue)
    /\ writing' = FALSE
    /\ OnlyMoves
    /\ UNCHANGED <<cleared, hubVars, carriedVars>>

(* ... or cleared, which settles the logout() that asked for it.           *)
ClearEnds ==
    /\ writing
    /\ Head(queue).what = "clear"
    /\ \/ /\ store' = NoCredential
          /\ cleared' = Head(queue).by
       \/ /\ store' \in {store, NoCredential}
          /\ UNCHANGED cleared
    /\ queue' = Tail(queue)
    /\ writing' = FALSE
    /\ UNCHANGED <<vars, saved, hubVars, carriedVars>>

(* Nothing is asserted behind the save.                                    *)
BadSaveReturns(c) ==
    /\ \/ pc[c] = "saved" /\ Settle(c, "ok")
       \/ pc[c] = "unsaved" /\ Fail(c)
    /\ OnlyMoves
    /\ UNCHANGED clientVars

(* The call learns how its save ended, and succeeds only if its session    *)
(* and signal are still good.                                              *)
SaveReturns(c) ==
    /\ \/ pc[c] = "saved" /\ Live(c) /\ Settle(c, "ok")
       \/ pc[c] = "saved" /\ ~Live(c) /\ Settle(c, "aborted")
       \/ pc[c] = "unsaved" /\ Fail(c)
    /\ OnlyMoves
    /\ UNCHANGED clientVars

-----------------------------------------------------------------------------
(* logout() clears the store at once, ahead of the writes under way.       *)
BadClientLogout ==
    /\ Logout
    /\ store' = NoCredential
    /\ cleared' = generation + 1
    /\ UNCHANGED <<queue, writing, saved, hubVars, carriedVars>>

(* logout(): the session ends and a clear joins the queue.                 *)
ClientLogout ==
    /\ Logout
    /\ Enqueue("clear", generation + 1)
    /\ UNCHANGED <<store, writing, saved, cleared, hubVars, carriedVars>>

(* The steps of HubDiscovery that leave the credentials alone.             *)
IdentityStep ==
    /\ \/ \E c \in Calls : CallStep(c)
       \/ \E f \in Fetches : FetchStep(f)
       \/ OwnerAborts
       \/ Dispose
    /\ UNCHANGED clientVars

RequestStep(c) ==
    Load(c) \/ LoadReturns(c) \/ Authorize(c) \/ StopsWaiting(c) \/ Dispatch(c)
        \/ HubAccepts(c) \/ HubRefuses(c) \/ TransportFails(c) \/ Receive(c)
        \/ ReadReturns(c) \/ SaveReturns(c)

WriteStep == WriteStarts \/ ClearEnds \/ \E c \in Calls : SaveEnds(c)

ClientQuiescent ==
    /\ \A c \in Calls : pc[c] = "done"
    /\ \A f \in Fetches : stage[f] \in {"unused", "settled"}
    /\ queue = <<>>
    /\ UNCHANGED allVars

ClientNext ==
    \/ IdentityStep
    \/ ClientLogout
    \/ \E c \in Calls : RequestStep(c)
    \/ WriteStep
    \/ ClientQuiescent

ClientSpec == ClientInit /\ [][ClientNext]_allVars

(* As in HubDiscovery; the store answers and requests end.                 *)
ClientFairness ==
    /\ \A f \in Fetches : WF_allVars(FetchStep(f) /\ UNCHANGED clientVars)
    /\ \A c \in Calls :
         /\ WF_allVars(Continue(c) /\ UNCHANGED clientVars)
         /\ WF_allVars(RequestStep(c))
    /\ WF_allVars(WriteStep)

FairClientSpec == ClientSpec /\ ClientFairness

-----------------------------------------------------------------------------
(* A bearer leaves only in the session the expected Hub was identified in: *)
(* when a logout or a disposal comes between the identity and the load, or *)
(* between the load and the dispatch, it is kept off the wire              *)
(* (client.ts:468-489, 510-545; docs/api.md:34).                           *)
BearerAfterIdentity ==
    [][\A c \in Calls :
          pc[c] # "sent" /\ pc'[c] = "sent" =>
              /\ ~disposed
              /\ origin[reliesOn[c]] = generation
              /\ answer[reliesOn[c]] \in {"matching", "matchingWithQueries"}]_allVars

(* models.ts (logout): once a logout's clear has succeeded, no credential  *)
(* that an earlier session obtained is in the store again, whatever saves  *)
(* were queued or running when it was called (client.ts:447-456, 491-508). *)
LogoutIsFinal ==
    store # NoCredential => obtained[store] >= cleared

(* A claim or rotation that reports success has had its credential saved;  *)
(* a rejected or skipped save is never reported as success                 *)
(* (client.ts:301-307, 327-332, 491-502).                                  *)
SuccessIsSaved ==
    \A c \in Calls :
        outcome[c] = "ok" /\ kind[c] \in {"claim", "rotate"} =>
            grant[c] \in saved

(* The store holds a credential the Hub has rotated away only while the    *)
(* rotation that did it is under way, or after it failed towards its       *)
(* caller: no success leaves the device locked out (client.ts:310-333).    *)
LockoutIsReported ==
    store \notin honoured \cup {NoCredential} =>
        \E c \in Calls :
            /\ kind[c] = "rotate"
            /\ holds[c] = store
            /\ outcome[c] # "ok"

(* models.ts:144-151 (logout, dispose): a claim or rotation that is told   *)
(* it succeeded leaves its device paired.  The store then holds a          *)
(* credential of the current session, and no clear of a logout is running  *)
(* or queued behind the save (client.ts:301-307, 327-332, 447-456,         *)
(* 491-508).                                                               *)
SuccessIsKept ==
    [][\A c \in Calls :
          kind[c] \in {"claim", "rotate"} /\ outcome[c] # "ok" /\ outcome'[c] = "ok" =>
              /\ ~disposed
              /\ store # NoCredential /\ obtained[store] = generation
              /\ \A i \in DOMAIN queue : queue[i].what = "save"]_allVars

(* Every call is answered if fetches, requests and store calls end         *)
(* (client.ts:203-240, 491-508).                                           *)
CallsAreAnswered ==
    \A c \in Calls : pc[c] # "idle" ~> pc[c] = "done"

(* The clear of every logout is handed to the store, however the writes    *)
(* queued before it ended: one that rejects does not take those behind it  *)
(* along, and none is skipped (client.ts:455, 504-508).                    *)
LogoutsClear ==
    \A g \in 1 .. MaxGenerations :
        <>(generation = g /\ ~disposed) =>
            <>(writing /\ Head(queue) = [what |-> "clear", by |-> g])

(* docs/compatibility.md:68-70 - "An explicit discovery refresh            *)
(* invalidates the cached identity on transport failure or UUID mismatch,  *)
(* so an authenticated request cannot silently reuse an old discovery      *)
(* result": a bearer leaves only while an identity is cached.              *)
DispatchNeedsIdentity ==
    [][\A c \in Calls :
          pc[c] = "authorized" /\ pc'[c] = "sent" =>
              discovery # NoFetch]_allVars
=============================================================================
