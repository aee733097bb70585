--------------------------- MODULE SseSubscription ---------------------------
(***************************************************************************)
(* subscribeToSse (src/src/events/sse-subscription.ts), as streamEvents    *)
(* uses it (src/src/events/protocol-subscription.ts): an async generator   *)
(* that yields the events of a server-sent stream to one consumer,         *)
(* reconnects when the stream breaks, and keeps the caller's checkpoint    *)
(* store at the last event the consumer is done with.                      *)
(*                                                                         *)
(* The generator's process may stop anywhere (a crash, or a consumer that  *)
(* drops it), and another subscription may then begin from the same store. *)
(* Subscriptions that share a store do not overlap.                        *)
(*                                                                         *)
(* The Hub is external.  It has a fixed log of blocks, numbered by their   *)
(* event ID, sends them in order strictly after Last-Event-ID, and all of  *)
(* them to a request without one.  Bytes, lines and chunks are the         *)
(* parser's: a block arrives here once its blank line has been read.       *)
(* Retry hints only change how long a sleep is, and are left out.          *)
(***************************************************************************)
EXTENDS Naturals

CONSTANTS
    Blocks,            \* bound: length of the Hub's log
    MaxBreaks,         \* bound: connections that fail or end early
    MaxSubscriptions,  \* bound: subscriptions begun
    Policies           \* the reconnect policies a subscription may be given

ASSUME SseAssumption ==
    /\ Blocks \in Nat
    /\ MaxBreaks \in Nat
    /\ MaxSubscriptions \in Nat
    /\ Policies \subseteq {"protocol", "custom"} /\ Policies # {}

VARIABLES
    log,            \* log[i]: the kind of block i
    policy,         \* "protocol": the reconnect policy of streamEvents;
                    \* "custom": one that may decide anything
    store,          \* the ID in the checkpoint store; 0 is undefined
    place,          \* where the generator is
    committed,      \* committedLastEventId
    next,           \* the block the open stream brings next
    item,           \* the block in hand
    cause,          \* why the connection ended: reconnectReason and -Error
    aborted,        \* options.signal has aborted
    result,         \* how the generator ended
    consumed,       \* history: events whose consumer asked for the next one
    breaks,         \* history: connections that have failed or ended early
    subscriptions   \* history: subscriptions begun

vars == <<log, policy, store, place, committed, next, item, cause, aborted, result,
          consumed, breaks, subscriptions>>

-----------------------------------------------------------------------------
Ids == 1 .. Blocks

(* An event the mapper accepts, one whose name it does not know, one that  *)
(* does not validate, an ID without data, and an empty ID.                 *)
BlockKinds == {"event", "unknown", "invalid", "mark", "reset"}

Places == {"none", "loading", "connecting", "streaming", "mapping", "yielded",
           "saving", "deciding", "sleeping", "ended"}

(* "gap": the Hub no longer has what follows Last-Event-ID.  "refused":    *)
(* any other response that is not a stream.  "limit": a line or an event   *)
(* beyond the parser's bounds.                                             *)
Causes  == {"none", "eof", "transport", "gap", "refused", "invalid"}
Results == {"none", "done", "returned", "aborted", "checkpoint", "limit",
            "error"} \cup Causes

SseTypeOK ==
    /\ log \in [Ids -> BlockKinds]
    /\ policy \in Policies
    /\ store \in 0 .. Blocks
    /\ place \in Places
    /\ committed \in 0 .. Blocks
    /\ next \in 1 .. Blocks + 1
    /\ item \in 0 .. Blocks
    /\ cause \in Causes
    /\ aborted \in BOOLEAN
    /\ result \in Results
    /\ consumed \subseteq Ids
    /\ breaks \in 0 .. MaxBreaks
    /\ subscriptions \in 0 .. MaxSubscriptions

Init ==
    /\ log \in [Ids -> BlockKinds]
    /\ policy \in Policies
    /\ store = 0
    /\ place = "none"
    /\ committed = 0
    /\ next = 1
    /\ item = 0
    /\ cause = "none"
    /\ aborted = FALSE
    /\ result = "none"
    /\ consumed = {}
    /\ breaks = 0
    /\ subscriptions = 0

-----------------------------------------------------------------------------
End(how) ==
    /\ place' = "ended"
    /\ result' = how

GoTo(p) ==
    /\ place' = p
    /\ UNCHANGED result

(* The catch of the loop: an abort goes first, and what cannot be retried  *)
(* is thrown before the reconnect policy is asked.                         *)
Disconnect(why) ==
    \/ aborted /\ End("aborted") /\ UNCHANGED cause
    \/ ~aborted /\ GoTo("deciding") /\ cause' = why

Terminate(how) == End(IF aborted THEN "aborted" ELSE how) /\ UNCHANGED cause

(* The network, the Hub or the parser ends a connection before its time.   *)
Breaks ==
    /\ breaks < MaxBreaks
    /\ breaks' = breaks + 1

(* committedLastEventId = normalizeCheckpoint(...), then saveCheckpoint.   *)
(* An ID that cannot be sent back in a header is not taken.                *)
Commit(i) ==
    \/ committed' = (IF log[i] = "reset" THEN 0 ELSE i) /\ GoTo("saving")
    \/ End("checkpoint") /\ UNCHANGED committed

-----------------------------------------------------------------------------
(* The first next() runs the generator to the load of the checkpoint.      *)
Subscribe ==
    /\ place \in {"none", "ended"}
    /\ subscriptions < MaxSubscriptions
    /\ subscriptions' = subscriptions + 1
    /\ policy' \in Policies
    /\ place' = "loading"
    /\ aborted' = FALSE
    /\ result' = "none"
    /\ cause' = "none"
    /\ UNCHANGED <<log, store, committed, next, item, consumed, breaks>>

(* A load that fails, or brings what is no checkpoint, ends it; the signal *)
(* is looked at behind the load only.                                      *)
CheckpointLoads ==
    /\ place = "loading"
    /\ \/ End("checkpoint") /\ UNCHANGED committed
       \/ aborted /\ End("aborted") /\ UNCHANGED committed
       \/ ~aborted /\ GoTo("connecting") /\ committed' = store
    /\ UNCHANGED <<log, policy, store, next, item, cause, aborted, consumed, breaks,
                   subscriptions>>

(* Last-Event-ID is not sent.                                              *)
BadLastEventId ==
    /\ place = "connecting"
    /\ ~aborted
    /\ next' = 1
    /\ GoTo("streaming")
    /\ UNCHANGED <<log, policy, store, committed, item, cause, aborted, consumed, breaks,
                   subscriptions>>

(* The request is answered with a stream that goes on behind Last-Event-ID.*)
StreamOpens ==
    /\ place = "connecting"
    /\ ~aborted
    /\ next' = committed + 1
    /\ GoTo("streaming")
    /\ UNCHANGED <<log, policy, store, committed, item, cause, aborted, consumed, breaks,
                   subscriptions>>

(* There is none: the transport fails, a 204 ends the subscription, or the *)
(* Hub refuses.                                                            *)
StreamRefused ==
    /\ place = "connecting"
    /\ \/ Breaks /\ Disconnect("transport")
       \/ Breaks /\ Disconnect("refused")
       \/ Breaks /\ committed # 0 /\ Disconnect("gap")
       \/ Terminate("done") /\ UNCHANGED breaks
    /\ UNCHANGED <<log, policy, store, committed, next, item, aborted, consumed,
                   subscriptions>>

(* The open stream brings a block.  A block without data is committed.     *)
BlockArrives ==
    /\ place = "streaming"
    /\ ~aborted
    /\ next \in Ids
    /\ item' = next
    /\ next' = next + 1
    /\ \/ /\ log[next] \in {"event", "unknown", "invalid"}
          /\ GoTo("mapping")
          /\ UNCHANGED committed
       \/ /\ log[next] \in {"mark", "reset"}
          /\ Commit(next)
    /\ UNCHANGED <<log, policy, store, cause, aborted, consumed, breaks, subscriptions>>

(* It ends, fails, or goes beyond a bound of the parser.                   *)
StreamEnds ==
    /\ place = "streaming"
    /\ \/ Breaks /\ Disconnect("eof")
       \/ next = Blocks + 1 /\ Disconnect("eof") /\ UNCHANGED breaks
       \/ Breaks /\ Disconnect("transport")
       \/ Breaks /\ Terminate("limit")
    /\ UNCHANGED <<log, policy, store, committed, next, item, aborted, consumed,
                   subscriptions>>

(* The event is committed when it is yielded.                              *)
BadMapped ==
    /\ place = "mapping"
    /\ \/ aborted /\ End("aborted") /\ UNCHANGED <<committed, store, cause>>
       \/ /\ ~aborted /\ log[item] = "event"
          /\ GoTo("yielded") /\ committed' = item /\ store' = item
          /\ UNCHANGED cause
       \/ ~aborted /\ log[item] = "unknown" /\ Commit(item)
          /\ UNCHANGED <<cause, store>>
       \/ log[item] = "invalid" /\ Disconnect("invalid")
          /\ UNCHANGED <<committed, store>>
    /\ UNCHANGED <<log, policy, next, item, aborted, consumed, breaks, subscriptions>>

(* Nothing is asserted behind the await of the mapper.                     *)
BadMappedAbort ==
    /\ place = "mapping"
    /\ \/ log[item] = "event" /\ GoTo("yielded") /\ UNCHANGED <<committed, cause>>
       \/ log[item] = "unknown" /\ Commit(item) /\ UNCHANGED cause
       \/ log[item] = "invalid" /\ Disconnect("invalid") /\ UNCHANGED committed
    /\ UNCHANGED <<log, policy, store, next, item, aborted, consumed, breaks, subscriptions>>

(* The mapper has decoded the event: it is yielded, passed over and        *)
(* committed, or rejected.                                                 *)
Mapped ==
    /\ place = "mapping"
    /\ \/ aborted /\ End("aborted") /\ UNCHANGED <<committed, cause>>
       \/ ~aborted /\ log[item] = "event" /\ GoTo("yielded")
          /\ UNCHANGED <<committed, cause>>
       \/ ~aborted /\ log[item] = "unknown" /\ Commit(item) /\ UNCHANGED cause
       \/ log[item] = "invalid" /\ Disconnect("invalid") /\ UNCHANGED committed
    /\ UNCHANGED <<log, policy, store, next, item, aborted, consumed, breaks, subscriptions>>

(* The consumer is done with the event and asks for the next one.          *)
ConsumerNext ==
    /\ place = "yielded"
    /\ consumed' = consumed \cup {item}
    /\ \/ aborted /\ End("aborted") /\ UNCHANGED committed
       \/ ~aborted /\ Commit(item)
    /\ UNCHANGED <<log, policy, store, next, item, cause, aborted, breaks, subscriptions>>

(* The consumer leaves its loop with the event in hand.                    *)
ConsumerReturns ==
    /\ place = "yielded"
    /\ End("returned")
    /\ UNCHANGED <<log, policy, store, committed, next, item, cause, aborted, consumed,
                   breaks, subscriptions>>

(* A save that fails may have happened.                                    *)
SaveEnds ==
    /\ place = "saving"
    /\ \/ store' = committed /\ GoTo("streaming") /\ UNCHANGED cause
       \/ store' \in {store, committed} /\ Terminate("checkpoint")
    /\ UNCHANGED <<log, policy, committed, next, item, aborted, consumed, breaks,
                   subscriptions>>

-----------------------------------------------------------------------------
(* Only the end of a stream is retried.                                    *)
BadRetries(why) == why = "eof"

(* The reconnect policy returns a delay.                                   *)
Retries(why) == policy = "custom" \/ why \in {"eof", "transport"}

Declines(why) == policy = "custom" \/ ~Retries(why)

(* Declined, the end of a stream is a return and a failure is thrown.      *)
PolicyDecides ==
    /\ place = "deciding"
    /\ \/ policy = "custom" /\ End("error")
       \/ aborted /\ End("aborted")
       \/ ~aborted /\ Retries(cause) /\ GoTo("sleeping")
       \/ ~aborted /\ Declines(cause) /\ End(IF cause = "eof" THEN "done" ELSE cause)
    /\ UNCHANGED <<log, policy, store, committed, next, item, cause, aborted, consumed,
                   breaks, subscriptions>>

SleepEnds ==
    /\ place = "sleeping"
    /\ IF aborted THEN End("aborted") ELSE GoTo("connecting")
    /\ UNCHANGED <<log, policy, store, committed, next, item, cause, aborted, consumed,
                   breaks, subscriptions>>

(* An abort stops what is awaited on the network or the clock; the awaits  *)
(* of the caller's own functions end when these do.                        *)
AbortSeen ==
    /\ place \in {"connecting", "streaming"}
    /\ aborted
    /\ End("aborted")
    /\ UNCHANGED <<log, policy, store, committed, next, item, cause, aborted, consumed,
                   breaks, subscriptions>>

-----------------------------------------------------------------------------
Running == place \notin {"none", "ended"}

Abort ==
    /\ Running
    /\ ~aborted
    /\ aborted' = TRUE
    /\ UNCHANGED <<log, policy, store, place, committed, next, item, cause, result,
                   consumed, breaks, subscriptions>>

(* The process stops; a save under way may have happened.                  *)
Crash ==
    /\ Running
    /\ place' = "none"
    /\ store' \in {store} \cup (IF place = "saving" THEN {committed} ELSE {})
    /\ UNCHANGED <<log, policy, committed, next, item, cause, aborted, result, consumed,
                   breaks, subscriptions>>

GeneratorStep ==
    CheckpointLoads \/ StreamOpens \/ StreamRefused \/ BlockArrives \/ StreamEnds
        \/ Mapped \/ SaveEnds \/ PolicyDecides \/ SleepEnds \/ AbortSeen

ConsumerStep == ConsumerNext \/ ConsumerReturns

(* No subscription is left to begin.                                       *)
Finished ==
    /\ ~Running
    /\ subscriptions = MaxSubscriptions
    /\ UNCHANGED vars

Next ==
    Subscribe \/ GeneratorStep \/ ConsumerStep \/ Abort \/ Crash \/ Finished

Spec == Init /\ [][Next]_vars

(* Awaited promises settle, and the consumer does not keep an event.       *)
FairSpec == Spec /\ WF_vars(GeneratorStep) /\ WF_vars(ConsumerStep)

-----------------------------------------------------------------------------
(* docs/compatibility.md:123 - at-least-once replay: neither the store nor *)
(* a reconnect is ever ahead of the consumer.  Every event up to the       *)
(* checkpoint has been consumed, whatever crashes, failed saves, broken    *)
(* streams and new subscriptions came in between, and no event that failed *)
(* to validate has been passed over (sse-subscription.ts:165-194).         *)
CheckpointCovered ==
    \A i \in Ids :
        i <= store \/ (place \notin {"none", "loading", "ended"} /\ i <= committed) =>
            /\ log[i] # "invalid"
            /\ log[i] = "event" => i \in consumed

(* The other half: an event is not yielded again once its ID is in the     *)
(* store, neither after a reconnect nor by a later subscription            *)
(* (sse-subscription.ts:105-123, 193).                                     *)
NoReplayOfSaved ==
    [][place # "yielded" /\ place' = "yielded" => item' > store]_vars

(* Once the signal has aborted nothing is yielded and no save is begun     *)
(* (sse-subscription.ts:165, 185, 192; tests/unit/sse-remediation.test.ts). *)
AbortIsSilent ==
    [][aborted /\ place' \in {"yielded", "saving"} => place' = place]_vars

(* Every event reaches the consumer.  With the policy of streamEvents a    *)
(* subscription ends before that only if it is aborted, crashes, is left   *)
(* by its consumer or ended by the Hub, or if the store, the parser's      *)
(* bounds or an invalid event stop it: a broken connection never does      *)
(* (protocol-subscription.ts:86-91, sse-subscription.ts:201-239).          *)
EventsReachConsumer ==
    place = "loading" /\ policy = "protocol" ~>
        \/ \A i \in Ids : log[i] = "event" => i \in consumed
        \/ place = "none"
        \/ result \in {"aborted", "returned", "done", "gap", "refused", "invalid",
                       "checkpoint", "limit"}
=============================================================================
