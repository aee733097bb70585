--------------------------- MODULE RichOperation ----------------------------
(***************************************************************************)
(* One operation of the client of the rich protocol                        *)
(* (src/src/client/client.ts, client/session.ts) from its call to its      *)
(* answer: the transport (http/fetch-transport.ts), the Hub, and the       *)
(* reading and decoding of the response (http/response-decoder.ts,         *)
(* http/bounded-json.ts, http/empty-body.ts).  Operations share no state,  *)
(* so one of every kind is all there is; what interleaves with it is the   *)
(* caller's abort, its authorization provider, the Hub and the network.    *)
(*                                                                         *)
(* A step is the code between two awaits.  The kinds differ in what they   *)
(* check:                                                                  *)
(*   session      createClientSession: the discovery document              *)
(*   read         #read without If-None-Match                              *)
(*   conditional  #read with If-None-Match                                 *)
(*   write        #write: a metadata operation                             *)
(*   command      #writeCommand                                            *)
(*                                                                         *)
(* The definitions named Bad... are mutations, as in HubDiscovery.         *)
(***************************************************************************)
EXTENDS Naturals

CONSTANTS
    Kinds,       \* a subset of AllKinds
    MaxBytes,    \* maximumJsonResponseBytes
    FirstBytes,  \* size of the first buffer
    MaxEmpty     \* chunks without a byte that are put up with

AllKinds == {"session", "read", "conditional", "write", "command"}
Reads    == {"read", "conditional"}

ASSUME KindsAssumption == Kinds \subseteq AllKinds
ASSUME SizesAssumption ==
    /\ MaxBytes \in Nat \ {0}
    /\ FirstBytes \in Nat \ {0}
    /\ MaxEmpty \in Nat \ {0}

VARIABLES
    kind,        \* the operation
    place,       \* where it is
    aborted,     \* the caller's signal has aborted
    dispatched,  \* onDispatch has run (dispatchStarted of #writeCommand)
    executed,    \* the Hub has carried out the command
    response,    \* what the Hub, or something on the way, answered
    body,        \* the stream of its body
    size,        \* bytes read
    capacity,    \* bytes the buffer has room for
    empties,     \* emptyChunks of readBoundedText, count of requireEmptyResponseBody
    outcome      \* what the promise of the operation settled with

reader == <<size, capacity, empties>>
vars   == <<kind, place, aborted, dispatched, executed, response, body, reader,
            outcome>>

-----------------------------------------------------------------------------
Places == {"idle", "authorizing", "authorized", "sent", "headers", "reading",
           "emptying", "parsed", "decoded", "done"}

(* A response by what becomes of it: with the status of success it is      *)
(* right, of another entity (of no common version, for a session), or      *)
(* wrong in its headers or its body; it is a 304; it has any other status  *)
(* and is a problem document, or claims to be one.  One of another status  *)
(* that does not claim it is one of wrong headers.                         *)
Successes == {"right", "foreign", "badBody"}
Problems  == {"problem", "badProblem"}
Responses == Successes \cup Problems \cup {"badHeaders", "notModified"}

Outcomes == {"ok", "notModified", "problem", "invalid", "transport", "aborted",
             "refused", "uncertain"}

OperationTypeOK ==
    /\ kind \in AllKinds
    /\ place \in Places
    /\ aborted \in BOOLEAN
    /\ dispatched \in BOOLEAN
    /\ executed \in BOOLEAN
    /\ response \in Responses \cup {"none"}
    /\ body \in {"none", "open", "locked", "released"}
    /\ size \in 0 .. MaxBytes
    /\ capacity \in 0 .. MaxBytes
    /\ empties \in 0 .. MaxEmpty
    /\ outcome \in Outcomes \cup {"none"}

Smaller(a, b) == IF a < b THEN a ELSE b
Larger(a, b)  == IF a < b THEN b ELSE a

Init ==
    /\ kind \in Kinds
    /\ place = "idle"
    /\ aborted = FALSE
    /\ dispatched = FALSE
    /\ executed = FALSE
    /\ response = "none"
    /\ body = "none"
    /\ size = 0
    /\ capacity = Smaller(FirstBytes, MaxBytes)
    /\ empties = 0
    /\ outcome = "none"

-----------------------------------------------------------------------------
(* Only a failed request counts as uncertain, not a failed answer.         *)
BadReported(how) ==
    IF kind = "command" /\ dispatched /\ response = "none" THEN "uncertain" ELSE how

(* What the operation throws for a failure: once a command has been        *)
(* dispatched nothing but the Hub's own refusal is told as it is.          *)
Reported(how) ==
    IF kind = "command" /\ dispatched /\ how # "problem" THEN "uncertain" ELSE how

Fail(how) ==
    /\ place' = "done"
    /\ outcome' = Reported(how)

(* withResponseOwnership and the finally of the readers.                   *)
FailAndRelease(how) == Fail(how) /\ body' = "released"

-----------------------------------------------------------------------------
(* FetchTransport.request.                                                 *)

(* Options or body are not valid, the capability is not offered, or the    *)
(* signal has aborted already.                                             *)
Refuse ==
    /\ place = "idle"
    /\ \/ Fail("refused") /\ UNCHANGED aborted
       \/ Fail("aborted") /\ aborted' = TRUE
    /\ UNCHANGED <<kind, dispatched, executed, response, body, reader>>

(* The authorization provider is asked; a session has none, nor has the    *)
(* read of the discovery document.                                         *)
Begin ==
    /\ place = "idle"
    /\ \/ kind \in Reads \cup {"session"} /\ place' = "authorized"
       \/ kind # "session" /\ place' = "authorizing"
    /\ UNCHANGED <<kind, aborted, dispatched, executed, response, body, reader,
                   outcome>>

(* It answers, or it throws, or what it answers is not a header value.     *)
ProviderAnswers ==
    /\ place = "authorizing"
    /\ ~aborted
    /\ \/ place' = "authorized" /\ UNCHANGED outcome
       \/ Fail("transport")
       \/ Fail("invalid")
    /\ UNCHANGED <<kind, aborted, dispatched, executed, response, body, reader>>

Dispatch ==
    /\ place = "authorized"
    /\ IF aborted
       THEN Fail("aborted") /\ UNCHANGED dispatched
       ELSE place' = "sent" /\ dispatched' = TRUE /\ UNCHANGED outcome
    /\ UNCHANGED <<kind, aborted, executed, response, body, reader>>

(* The Hub may carry out a command whenever the request reaches it, long   *)
(* after the client has given up too, unless it has refused it.            *)
HubExecutes ==
    /\ kind = "command"
    /\ dispatched
    /\ ~executed
    /\ response \notin Problems
    /\ executed' = TRUE
    /\ UNCHANGED <<kind, place, aborted, dispatched, response, body, reader, outcome>>

(* A command that the Hub reports as accepted it has carried out.          *)
FetchAnswers ==
    /\ place = "sent"
    /\ \E r \in Responses :
          /\ kind = "command" /\ r = "right" => executed
          /\ kind = "command" /\ r \in Problems => ~executed
          /\ response' = r
    /\ body' = "open"
    /\ place' = "headers"
    /\ UNCHANGED <<kind, aborted, dispatched, executed, reader, outcome>>

(* A network error, or the rejection of an implementation of its own.      *)
FetchFails ==
    /\ place = "sent"
    /\ ~aborted
    /\ \E how \in {"transport", "aborted"} : Fail(how)
    /\ UNCHANGED <<kind, aborted, dispatched, executed, response, body, reader>>

(* The Fetch standard: a fetch rejects when its signal aborts.             *)
FetchAborts ==
    /\ place = "sent"
    /\ aborted
    /\ Fail("aborted")
    /\ UNCHANGED <<kind, aborted, dispatched, executed, response, body, reader>>

-----------------------------------------------------------------------------
(* The response.                                                           *)

(* Neither of a status that the operation looks for, nor a problem.        *)
WrongHeaders ==
    \/ response = "badHeaders"
    \/ response = "notModified" /\ kind \notin Reads
    \/ response \in Problems /\ kind = "session"

(* A wrong media type is found outside of withResponseOwnership.           *)
BadReceive ==
    /\ place = "headers"
    /\ \/ /\ WrongHeaders
          /\ Fail("invalid") /\ UNCHANGED body
       \/ /\ ~WrongHeaders
          /\ aborted
          /\ FailAndRelease("aborted")
       \/ /\ ~WrongHeaders
          /\ ~aborted
          /\ place' = IF response = "notModified" THEN "emptying" ELSE "reading"
          /\ body' = "locked"
          /\ UNCHANGED outcome
    /\ UNCHANGED <<kind, aborted, dispatched, executed, response, reader>>

(* Status, media type and metadata are checked, then the body is locked    *)
(* by a reader, which looks at the signal first.  A response with wrong    *)
(* headers may have a status of success too: whether its signal was looked *)
(* at before is left open.                                                 *)
Receive ==
    /\ place = "headers"
    /\ \/ /\ WrongHeaders
          /\ \E how \in {"invalid"} \cup (IF aborted THEN {"aborted"} ELSE {}) :
                FailAndRelease(how)
       \/ /\ ~WrongHeaders
          /\ aborted
          /\ FailAndRelease("aborted")
       \/ /\ ~WrongHeaders
          /\ ~aborted
          /\ place' = IF response = "notModified" THEN "emptying" ELSE "reading"
          /\ body' = "locked"
          /\ UNCHANGED outcome
    /\ UNCHANGED <<kind, aborted, dispatched, executed, response, reader>>

(* The buffer is doubled, whatever the chunk needs.                        *)
BadGrown(needed) ==
    IF needed > capacity THEN Smaller(MaxBytes, 2 * capacity) ELSE capacity

Grown(needed) ==
    IF needed > capacity
    THEN Smaller(MaxBytes, Larger(needed, 2 * capacity))
    ELSE capacity

(* The counter starts over at its limit.                                   *)
BadCounted(n) == IF n = 0 /\ empties < MaxEmpty THEN empties + 1 ELSE 0

Counted(n) == IF n = 0 THEN empties + 1 ELSE 0

(* readBoundedText gives up: the body is too large, or a chunk without a   *)
(* byte is one too many.                                                   *)
TooMany(n) ==
    \/ n > MaxBytes - size
    \/ Counted(n) > MaxEmpty

Chunk(n) ==
    /\ place = "reading"
    /\ ~aborted
    /\ IF TooMany(n)
       THEN FailAndRelease("invalid") /\ UNCHANGED reader
       ELSE /\ size' = size + n
            /\ capacity' = Grown(size + n)
            /\ empties' = Counted(n)
            /\ UNCHANGED <<place, body, outcome>>
    /\ UNCHANGED <<kind, aborted, dispatched, executed, response>>

(* requireEmptyResponseBody: a byte is one too many, as is the last of     *)
(* maximumEmptyChunks.                                                     *)
EmptyChunk(n) ==
    /\ place = "emptying"
    /\ ~aborted
    /\ IF n > 0 \/ empties + 1 = MaxEmpty
       THEN FailAndRelease("invalid") /\ UNCHANGED reader
       ELSE /\ empties' = empties + 1
            /\ UNCHANGED <<place, body, outcome, size, capacity>>
    /\ UNCHANGED <<kind, aborted, dispatched, executed, response>>

BodyEnds ==
    /\ place \in {"reading", "emptying"}
    /\ ~aborted
    /\ place' = "parsed"
    /\ body' = "released"
    /\ UNCHANGED <<kind, aborted, dispatched, executed, response, reader, outcome>>

BodyBreaks ==
    /\ place \in {"reading", "emptying"}
    /\ ~aborted
    /\ FailAndRelease("invalid")
    /\ UNCHANGED <<kind, aborted, dispatched, executed, response, reader>>

(* The authorization provider is waited for to the end.                    *)
BadInterruptible == place \in {"reading", "emptying"}

(* The waits that an abort listener of the client cuts short.              *)
Interruptible == place \in {"authorizing", "reading", "emptying"}

AbortSeen ==
    /\ Interruptible
    /\ aborted
    /\ Fail("aborted")
    /\ body' = IF body = "locked" THEN "released" ELSE body
    /\ UNCHANGED <<kind, aborted, dispatched, executed, response, reader>>

(* What was read is parsed and validated; a 304 must repeat the tag of the *)
(* condition.  A body that is no JSON is told as the abort after one.      *)
Decode ==
    /\ place = "parsed"
    /\ \/ response = "problem" /\ Fail("problem")
       \/ /\ response \in {"badBody", "badProblem", "notModified"}
          /\ \E how \in {"invalid"} \cup
                   (IF aborted /\ response # "notModified" THEN {"aborted"} ELSE {}) :
                Fail(how)
       \/ /\ \/ response \in {"right", "foreign"}
             \/ response = "notModified" /\ kind = "conditional"
          /\ IF aborted /\ kind # "session"
             THEN Fail("aborted")
             ELSE place' = "decoded" /\ UNCHANGED outcome
    /\ UNCHANGED <<kind, aborted, dispatched, executed, response, body, reader>>

(* The signal is not looked at again.                                      *)
BadFinish ==
    /\ place = "decoded"
    /\ IF response = "foreign" THEN Fail("invalid")
       ELSE /\ place' = "done"
            /\ outcome' = IF response = "notModified" THEN "notModified" ELSE "ok"
    /\ UNCHANGED <<kind, aborted, dispatched, executed, response, body, reader>>

(* Identities and location are compared, or the version negotiated; then   *)
(* all but a session look at the signal a last time.                       *)
Finish ==
    /\ place = "decoded"
    /\ \/ response = "foreign" /\ Fail("invalid")
       \/ response # "foreign" /\ aborted /\ kind # "session" /\ Fail("aborted")
       \/ /\ response # "foreign"
          /\ ~aborted \/ kind = "session"
          /\ place' = "done"
          /\ outcome' = IF response = "notModified" THEN "notModified" ELSE "ok"
    /\ UNCHANGED <<kind, aborted, dispatched, executed, response, body, reader>>

-----------------------------------------------------------------------------
Abort ==
    /\ place \notin {"idle", "done"}
    /\ ~aborted
    /\ aborted' = TRUE
    /\ UNCHANGED <<kind, place, dispatched, executed, response, body, reader, outcome>>

BodyAnswers ==
    \/ \E n \in 0 .. MaxBytes + 1 : Chunk(n) \/ EmptyChunk(n)
    \/ BodyEnds
    \/ BodyBreaks

Continues == Dispatch \/ Receive \/ AbortSeen \/ Decode \/ Finish

Settled == place = "done" /\ UNCHANGED vars

Next ==
    \/ Refuse \/ Begin \/ ProviderAnswers
    \/ HubExecutes \/ FetchAnswers \/ FetchFails \/ FetchAborts
    \/ BodyAnswers \/ Continues
    \/ Abort \/ Settled

Spec == Init /\ [][Next]_vars

(* Continuations run, a fetch rejects when its signal aborts, and a body   *)
(* answers each read, if only with a chunk of no byte.  Nothing obliges    *)
(* the provider or the Hub to answer, or the body to end.                  *)
FairSpec ==
    /\ Spec
    /\ WF_vars(Continues)
    /\ WF_vars(FetchAborts)
    /\ WF_vars(BodyAnswers)

-----------------------------------------------------------------------------
(* docs/compatibility.md:134 - a command that the Hub carries out, however *)
(* late, is never reported as one that failed: unless it was accepted the  *)
(* operation says "uncertain" (client.ts:566-621).                         *)
CommandIsNotDenied ==
    executed /\ place = "done" => outcome \in {"ok", "uncertain"}

(* However an operation ends, no body is left open or locked, which would  *)
(* keep its connection (response-ownership.ts:11-20).                      *)
BodyIsReleased == place = "done" => body \in {"none", "released"}

(* The bytes read have room in the buffer and the buffer never exceeds the *)
(* limit, whatever the sizes of the chunks (bounded-json.ts:42-53).        *)
BufferFits == size <= capacity /\ capacity <= MaxBytes

(* No operation but the making of a session succeeds after its caller has  *)
(* aborted it, however far it had come (client.ts:520, 560, 611).          *)
AbortWins ==
    [][outcome = "none" /\ outcome' \in {"ok", "notModified"} /\ kind # "session" =>
          ~aborted]_vars

(* docs/api.md:120 - "Cancellation interrupts a stalled read": an aborted  *)
(* operation ends though provider, Hub and body keep silent                *)
(* (fetch-transport.ts:135-152, bounded-json.ts:24-34).                    *)
AbortSettles == aborted ~> place = "done"

(* A body that never ends is given up, even if it consists of chunks       *)
(* without a byte (bounded-json.ts:40-44, empty-body.ts:25-33).            *)
ReadingEnds == place \in {"reading", "emptying"} ~> place = "done"
=============================================================================
